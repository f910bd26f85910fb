--------------------------- MODULE TurnGateProofs ---------------------------
(* Proofs about TurnGate, for any inputs, incarnations and numbers of      *)
(* output events: the two tables follow the output, readers see handovers, *)
(* no input overtakes a listed one, and no bell is lost.                   *)
EXTENDS TurnGate, FiniteSetTheorems, TLAPS

-----------------------------------------------------------------------------
(* The inductive invariant, part by part.                                  *)

Emitting == {"observe", "recheck", "drain", "drained"}

(* Places of the pump after finish has begun, after the list is sealed,    *)
(* and after the turn table lost the incarnation.                          *)
Finished == {"seal", "reapTurns", "reapPending", "dead", "off"}
Closed   == {"reapTurns", "reapPending", "dead", "off"}
Reaped   == {"reapPending", "dead", "off"}

(* Where each thread may stand, and what it goes on with after an emission: *)
(* only the pump emits errors and ends, and an error only inside a failed  *)
(* result, whose end comes next.                                           *)
Places ==
  /\ Pump.pc \in {"read", "result", "judge"} \cup Emitting \cup Finished
  /\ Pump.pc \in Emitting => Pump.next \in {"read", "result"}
  /\ Pump.signal = "Failed" => Pump.pc \in Emitting /\ Pump.next = "result"
  /\ IsEnd(Pump.signal) => Pump.pc \in Emitting
  /\ Pump.pc # "off" => Pump.epoch # 0
  /\ \A i \in Inputs :
       /\ thread[i].pc \in {"off", "readPending", "readTurn", "write", "writeIdle", "echo",
                            "queue", "list", "writeQueued", "reject", "done"} \cup Emitting
       /\ thread[i].pc \in Emitting => thread[i].next \in {"done", "writeQueued"}
       /\ thread[i].epoch = 0 <=> thread[i].pc \in {"off", "done"}
       /\ thread[i].saw.pending = FALSE
  /\ Lane.pc \in {"off", "readPending", "readTurn", "judge", "inject", "echo"} \cup Emitting
  /\ Lane.pc \in Emitting => Lane.next = "off"
  /\ Lane.epoch = 0 <=> Lane.pc = "off"
  /\ \A t \in Threads :
       /\ thread[t].epoch <= Pump.epoch
       /\ t # "pump" => thread[t].signal \in {"none", "Progress"}
       /\ thread[t].saw.fact # NoEntry => /\ thread[t].epoch # 0
                                          /\ thread[t].pc \notin {"readPending", "readTurn"}

(* The pump's place says which incarnation is up, finished and sealed; an  *)
(* incarnation to come has no output.                                      *)
Incarnations ==
  /\ session = IF Pump.pc = "off" THEN 0 ELSE Pump.epoch
  /\ \A e \in Epochs :
       /\ core[e].finalized <=> e < Pump.epoch \/ (e = Pump.epoch /\ Pump.pc \in Finished)
       /\ core[e].sealed <=> e < Pump.epoch \/ (e = Pump.epoch /\ Pump.pc \in Closed)
       /\ core[e].sealed => core[e].rows = {}
       /\ e > Pump.epoch => core[e] = NewCore

(* The turn table: the incarnation that is up and not finished owns the    *)
(* entry; one that is reaped owns it only until a late echo takes it back. *)
TurnOwner ==
  /\ Pump.pc \notin Finished => turns # NoEntry /\ turns.epoch = Pump.epoch
  /\ turns # NoEntry =>
       \/ turns.epoch = Pump.epoch /\ Pump.pc \notin Reaped
       \/ \E t \in Threads : thread[t].pc = "recheck" /\ thread[t].epoch = turns.epoch

(* The pending table belongs to the incarnation until it is reaped. *)
PendOwner ==
  /\ pend = NoEntry <=> Pump.pc \in {"dead", "off"}
  /\ pend # NoEntry => pend.epoch = Pump.epoch

(* Threads that still have to write "became empty". *)
Draining(t) == thread[t].pc \in {"observe", "recheck", "drain"}

(* A listed input is pending, and no thread on its way can say otherwise:  *)
(* its number is older.                                                    *)
PendFollows ==
  pend # NoEntry =>
    LET e == pend.epoch IN
    /\ pend.lastSeq <= core[e].seq /\ (pend.pending => pend.lastSeq > 0)
    /\ core[e].rows # {} =>
         /\ pend.pending
         /\ \A t \in Threads :
              thread[t].epoch = e /\ Draining(t) => thread[t].drain < pend.lastSeq
    /\ pend.pending /\ core[e].rows = {} /\ ~core[e].finalized =>
         \E t \in Threads : /\ thread[t].epoch = e /\ Draining(t)
                            /\ thread[t].drain >= pend.lastSeq

(* input_order: one input at a time; an input that found nothing pending   *)
(* has an empty list before it until it is written.                        *)
InputOrder ==
  /\ \A i, j \in Inputs : thread[i].epoch = thread[j].epoch /\ thread[i].epoch # 0 => i = j
  /\ \A i \in Inputs : thread[i].pc \in {"readTurn", "writeIdle"} =>
                         core[thread[i].epoch].rows = {}

(* Numbers are used once: a signal on its way has a number that neither    *)
(* another thread, nor the entry, nor the ledger of stale turns holds.     *)
Numbers ==
  /\ \A t \in Threads :
       /\ thread[t].epoch # 0 => /\ thread[t].drain <= core[thread[t].epoch].seq
                                 /\ thread[t].saw.seq <= core[thread[t].epoch].seq
       /\ thread[t].pc = "observe" =>
            /\ thread[t].epoch # 0
            /\ 0 < thread[t].seq /\ thread[t].seq <= core[thread[t].epoch].seq
            /\ thread[t].signal # "none"
  /\ \A s, t \in Threads :
       thread[s].pc = "observe" /\ thread[t].pc = "observe"
         /\ thread[s].epoch = thread[t].epoch /\ thread[s].seq = thread[t].seq => s = t
  /\ turns # NoEntry =>
       /\ turns.lastSeq <= core[turns.epoch].seq
       /\ turns.lastEnd <= turns.lastSeq
       /\ \A t \in Threads : thread[t].pc = "observe" /\ thread[t].epoch = turns.epoch =>
                               thread[t].seq # turns.lastSeq
  /\ \A p \in stale \cup sweeper.seen :
       /\ p[2] <= core[p[1]].seq
       /\ \A t \in Threads : thread[t].pc = "observe" /\ thread[t].epoch = p[1] =>
                               thread[t].seq # p[2]

(* The number of the last end the pump emitted. *)
Observing == Pump.pc = "observe"
EndPending == Observing /\ IsEnd(Pump.signal)
LastEnd == IF EndPending THEN Pump.seq ELSE turns.lastEnd

(* A progress signal on its way that is newer than the last end. *)
Rising(t) ==
  /\ thread[t].pc = "observe" /\ thread[t].epoch = Pump.epoch
  /\ thread[t].signal = "Progress" /\ thread[t].seq > LastEnd

(* What the entry says of the incarnation that is up, up to the signals    *)
(* that are still on their way.                                            *)
TurnFollows ==
  Pump.pc \notin Finished =>
    LET truth == core[Pump.epoch].truth IN
    /\ Observing => Pump.seq > turns.lastEnd /\ Pump.seq > turns.errorSeq
    /\ turns.errorSeq <= core[Pump.epoch].seq
    /\ IF EndPending
       THEN /\ truth.blamed = FALSE
            /\ truth.halted <=> \/ Pump.signal = "Broken" \/ turns.errorSeq # 0
                                \/ Pump.signal = "Other" /\ turns.lastEndFailed
       ELSE /\ truth.halted <=> turns.lastEndFailed
            /\ truth.blamed <=> turns.errorSeq # 0 \/ (Observing /\ Pump.signal = "Failed")
    /\ ~truth.inTurn =>
         /\ \A t \in Threads : ~Rising(t)
         /\ turns.inTurn => EndPending /\ turns.lastSeq < Pump.seq
    /\ truth.inTurn =>
         \/ MidResult(Pump.epoch) \/ \E t \in Threads : Rising(t)
         \/ turns.inTurn /\ (EndPending => turns.lastSeq > Pump.seq)
    /\ turns.lastSeq > LastEnd => turns.inTurn \/ MidResult(Pump.epoch)

(* The entry of e is as new as the last start that emptied the list. *)
SeesStart(e, entry) ==
  entry # NoEntry => \/ entry.lastSeq >= core[e].started
                     \/ core[e].finalized /\ entry.inTurn

(* What thread t may know of that start: it writes that the list is empty  *)
(* after it recorded the start itself, or it has read that it is empty.    *)
KnowsStart(t, e) ==
  LET me == thread[t] IN
  /\ me.pc \in {"recheck", "drain"} /\ me.drain = core[e].started =>
       SeesStart(e, Lookup(turns, e))
  /\ me.pc = "observe" /\ me.drain = core[e].started /\ core[e].started # 0 =>
       me.signal = "Progress" /\ me.seq = core[e].started
  /\ me.saw.seq = core[e].started =>
       SeesStart(e, Lookup(turns, e)) /\ SeesStart(e, me.saw.fact)

(* Whoever can know that the list was emptied by a start finds the entry   *)
(* that new: the thread that writes it, the table, and a reader of it.     *)
Handover ==
  \A e \in Epochs :
    /\ core[e].started <= core[e].seq
    /\ pend # NoEntry /\ pend.epoch = e /\ pend.lastSeq = core[e].started =>
         SeesStart(e, Lookup(turns, e))
    /\ \A t \in Threads : thread[t].epoch = e => KnowsStart(t, e)

(* Mail is told busy now, or a bell is on its way. *)
Held == BusyNow(session) \/ Ringing

(* What the lane has read so far and would make it go to rest is either    *)
(* still so, or a bell has been rung since.                                *)
Bells ==
  session # 0 /\ ~core[session].finalized =>
    /\ mail /\ Lane.pc = "off" => Held
    /\ Lane.pc # "off" /\ Lane.epoch # session => bell
    /\ mail /\ Lane.pc \in {"echo"} \cup Emitting => bell
    /\ Lane.pc \in {"readTurn", "judge"} /\ Lane.epoch = session =>
         /\ Lane.saw.pending => Held
         /\ Lane.saw.fact # NoEntry =>
              /\ Lane.saw.fact.lastEndFailed => Held
              /\ Lane.saw.fact.inTurn =>
                   Held \/ RunningTurn = {<<session, Lane.saw.fact.lastSeq>>}

(* All parts together. *)
GateInv ==
  /\ TypeOK /\ Places /\ Incarnations /\ TurnOwner /\ PendOwner /\ PendFollows
  /\ InputOrder /\ Numbers /\ TurnFollows /\ Handover /\ Bells

-----------------------------------------------------------------------------
(* The operators of the model.                                             *)

(* What a thread may emit: the pump without an input or for one, an input  *)
(* for itself, the lane the echo of its letter.                            *)
MayEmit(t, kind, i, next) ==
  \/ /\ t = "pump" /\ Reading /\ next = "read"
     /\ \/ kind \in {"Text", "Clean", "Other"}
        \/ kind \in {"Delivered", "Dropped"} /\ i \in Inputs
  \/ t = "pump" /\ Reading /\ kind = "Failed" /\ next = "result"
  \/ t = "pump" /\ Pump.pc = "result" /\ kind = "Clean" /\ next = "read"
  \/ t = "pump" /\ Pump.pc = "judge" /\ kind = "AckUnavailable" /\ next = "read"
  \/ t \in Inputs /\ thread[t].pc = "echo" /\ kind = "Text" /\ next = "done"
  \/ /\ t \in Inputs /\ i = t /\ kind = "Queued"
     /\ \/ thread[t].pc = "list" /\ next = "done"
        \/ thread[t].pc = "queue" /\ next = "writeQueued"
  \/ t \in Inputs /\ i = t /\ thread[t].pc = "reject" /\ kind = "Dropped" /\ next = "done"
  \/ t = "lane" /\ Lane.pc = "echo" /\ kind = "Text" /\ next = "off"

EmitStep(t, kind, i, next) ==
  /\ MayEmit(t, kind, i, next)
  /\ Emit(t, thread[t].epoch, kind, i, next)
  /\ UNCHANGED <<turns, session, stale, sweeper, bell, mail>>

(* Told keeps the shape of what the output says. *)
LEMMA ToldType ==
  ASSUME NEW truth \in [inTurn : BOOLEAN, blamed : BOOLEAN, halted : BOOLEAN], NEW sig
  PROVE  Told(truth, sig) \in [inTurn : BOOLEAN, blamed : BOOLEAN, halted : BOOLEAN]
BY DEF Told, IsEnd

(* What the reduction of one list event does to a core.                    *)
LEMMA ReducedFacts ==
  ASSUME NEW c \in Cores, c.rows \cap c.closed = {}, NEW kind, NEW i,
         kind \in {"Queued", "Delivered", "Dropped"} => i \in Inputs
  PROVE  LET r == Reduced(c, kind, i) IN
         /\ r \in Cores /\ r.rows \cap r.closed = {}
         /\ r.seq = c.seq + 1
         /\ r.finalized = c.finalized /\ r.sealed = c.sealed
         /\ r.ack = c.ack /\ r.sent = c.sent
         /\ r.truth = Told(c.truth, Classify(kind))
         /\ kind # "Queued" => r.rows \subseteq c.rows
         /\ \/ r.started = c.started
            \/ kind = "Delivered" /\ r.started = r.seq /\ c.rows # {} /\ r.rows = {}
<1> DEFINE d == [c EXCEPT !.seq = @ + 1, !.truth = Told(@, Classify(kind))]
<1>1. /\ d \in Cores /\ d.seq = c.seq + 1 /\ d.truth = Told(c.truth, Classify(kind))
      /\ d.rows = c.rows /\ d.closed = c.closed /\ d.judged = c.judged /\ d.ack = c.ack
      /\ d.sent = c.sent /\ d.finalized = c.finalized /\ d.sealed = c.sealed
      /\ d.started = c.started
  <2>1. c.truth \in [inTurn : BOOLEAN, blamed : BOOLEAN, halted : BOOLEAN] BY DEF Cores
  <2>2. Told(c.truth, Classify(kind))
          \in [inTurn : BOOLEAN, blamed : BOOLEAN, halted : BOOLEAN]
    BY <2>1, ToldType
  <2> DEFINE told == Told(c.truth, Classify(kind))
             n    == c.seq + 1
  <2>3. d = [c EXCEPT !.seq = n, !.truth = told] OBVIOUS
  <2>4. n \in Nat BY DEF Cores
  <2> HIDE DEF told, n, d
  <2>5. told \in [inTurn : BOOLEAN, blamed : BOOLEAN, halted : BOOLEAN] BY <2>2 DEF told
  <2>6. /\ d \in Cores /\ d.seq = n /\ d.truth = told
        /\ d.rows = c.rows /\ d.closed = c.closed /\ d.judged = c.judged /\ d.ack = c.ack
        /\ d.sent = c.sent /\ d.finalized = c.finalized /\ d.sealed = c.sealed
        /\ d.started = c.started
    BY <2>3, <2>4, <2>5 DEF Cores
  <2> QED BY <2>6 DEF told, n
<1> HIDE DEF d
<1>2. CASE kind = "Queued"
  <2>1. Reduced(c, kind, i) = IF i \in c.closed THEN d ELSE [d EXCEPT !.rows = @ \cup {i}]
    BY <1>2 DEF Reduced, d
  <2> QED BY <1>1, <1>2, <2>1 DEF Cores
<1>3. CASE kind \in {"Delivered", "Dropped"}
  <2>1. Reduced(c, kind, i) =
          [d EXCEPT !.rows = @ \ {i}, !.closed = @ \cup {i},
                    !.started = IF kind = "Delivered" /\ c.rows = {i} THEN d.seq ELSE @]
    BY <1>3 DEF Reduced, d
  <2> DEFINE r == Reduced(c, kind, i)
  <2>2. /\ r.rows = c.rows \ {i} /\ r.closed = c.closed \cup {i}
        /\ r.started = IF kind = "Delivered" /\ c.rows = {i} THEN d.seq ELSE c.started
        /\ r.seq = d.seq /\ r.truth = d.truth /\ r.ack = d.ack /\ r.sent = d.sent
        /\ r.finalized = d.finalized /\ r.sealed = d.sealed
    BY <1>1, <2>1 DEF Cores
  <2>3. r \in Cores
    <3> DEFINE rows == d.rows \ {i}
               gone == d.closed \cup {i}
               last == IF kind = "Delivered" /\ c.rows = {i} THEN d.seq ELSE d.started
    <3>1. r = [d EXCEPT !.rows = rows, !.closed = gone, !.started = last] BY <2>1
    <3>2. rows \in SUBSET Inputs /\ gone \in SUBSET Inputs /\ last \in Nat
      BY <1>1, <1>3 DEF Cores
    <3> HIDE DEF r, rows, gone, last
    <3> QED BY <1>1, <3>1, <3>2 DEF Cores
  <2> HIDE DEF r
  <2>4. r.rows \cap r.closed = {} /\ r.rows \subseteq c.rows
    BY <2>2
  <2>5. \/ r.started = c.started
        \/ kind = "Delivered" /\ r.started = r.seq /\ c.rows # {} /\ r.rows = {}
    BY <2>2
  <2> QED BY <1>1, <1>3, <2>2, <2>3, <2>4, <2>5 DEF r
<1>4. CASE kind = "AckUnavailable"
  <2>1. Reduced(c, kind, i) =
          [d EXCEPT !.rows = {}, !.closed = @ \cup c.rows, !.judged = TRUE]
    BY <1>4 DEF Reduced, d
  <2> DEFINE r == Reduced(c, kind, i)
  <2>2. /\ r.rows = {} /\ r.started = c.started
        /\ r.seq = d.seq /\ r.truth = d.truth /\ r.ack = d.ack /\ r.sent = d.sent
        /\ r.finalized = d.finalized /\ r.sealed = d.sealed
    BY <1>1, <2>1 DEF Cores
  <2>3. r \in Cores
    BY <1>1, <1>4, <2>1, ZenonT(60) DEF Cores
  <2> HIDE DEF r
  <2> QED BY <1>1, <1>4, <2>2, <2>3 DEF r
<1>5. CASE kind \notin {"Queued", "Delivered", "Dropped", "AckUnavailable"}
  <2>1. Reduced(c, kind, i) = d
    BY <1>5 DEF Reduced, d
  <2> QED BY <1>1, <1>5, <2>1
<1> QED BY <1>2, <1>3, <1>4, <1>5

(* What recording an event does to a core: new numbers, and rows only for  *)
(* a Queued on a list that is not sealed.                                  *)
LEMMA RecordedFacts ==
  ASSUME NEW c \in Cores, c.rows \cap c.closed = {}, NEW kind, NEW i,
         kind \in {"Queued", "Delivered", "Dropped"} => i \in Inputs
  PROVE  LET r == Recorded(c, kind, i) IN
         /\ r \in Cores /\ r.rows \cap r.closed = {}
         /\ r.seq > c.seq
         /\ r.finalized = c.finalized /\ r.sealed = c.sealed
         /\ r.ack = c.ack /\ r.sent = c.sent
         /\ r.truth = Told(c.truth, Classify(kind))
         /\ kind # "Queued" \/ c.sealed => r.rows \subseteq c.rows
         /\ \/ r.started = c.started
            \/ kind = "Delivered" /\ r.started = r.seq /\ c.rows # {} /\ r.rows = {}
<1> DEFINE q == Reduced(c, "Queued", i)
<1>0. c.seq \in Nat BY DEF Cores
<1>1. CASE kind = "Queued" /\ c.sealed
  <2>1. Recorded(c, kind, i) = Reduced(c, "Dropped", i) BY <1>1 DEF Recorded
  <2>2. Classify("Dropped") = Classify("Queued") BY DEF Classify
  <2>3. i \in Inputs BY <1>1
  <2> DEFINE r == Reduced(c, "Dropped", i)
  <2>4. /\ r \in Cores /\ r.rows \cap r.closed = {} /\ r.seq = c.seq + 1
        /\ r.finalized = c.finalized /\ r.sealed = c.sealed
        /\ r.ack = c.ack /\ r.sent = c.sent
        /\ r.truth = Told(c.truth, Classify("Dropped"))
        /\ r.rows \subseteq c.rows /\ r.started = c.started
    BY <2>3, ReducedFacts
  <2>5. r.truth = Told(c.truth, Classify(kind)) BY <1>1, <2>2, <2>4
  <2>6. r = Recorded(c, kind, i) BY <2>1
  <2> HIDE DEF r
  <2> QED BY <1>0, <2>4, <2>5, <2>6
<1>2. CASE kind = "Queued" /\ ~c.sealed /\ c.judged
  <2>1. Recorded(c, kind, i) = Reduced(q, "AckUnavailable", i) BY <1>2 DEF Recorded
  <2>2. /\ q \in Cores /\ q.rows \cap q.closed = {} /\ q.seq = c.seq + 1
        /\ q.finalized = c.finalized /\ q.sealed = c.sealed
        /\ q.ack = c.ack /\ q.sent = c.sent
        /\ q.truth = Told(c.truth, "none") /\ q.started = c.started
    BY <1>2, ReducedFacts DEF Classify
  <2>3. Told(q.truth, "none") = q.truth BY DEF Told, IsEnd
  <2> HIDE DEF q
  <2>4. LET r == Reduced(q, "AckUnavailable", i) IN
        /\ r \in Cores /\ r.rows \cap r.closed = {} /\ r.seq = q.seq + 1
        /\ r.finalized = q.finalized /\ r.sealed = q.sealed
        /\ r.ack = q.ack /\ r.sent = q.sent
        /\ r.truth = Told(q.truth, "none") /\ r.started = q.started
    BY <2>2, ReducedFacts DEF Classify
  <2>5. Classify("Queued") = "none" BY DEF Classify
  <2> QED BY <1>0, <1>2, <2>1, <2>2, <2>3, <2>4, <2>5
<1>3. CASE ~(kind = "Queued" /\ c.sealed) /\ ~(kind = "Queued" /\ c.judged)
  <2>1. Recorded(c, kind, i) = Reduced(c, kind, i) BY <1>3 DEF Recorded
  <2> QED BY <1>0, <1>3, <2>1, ReducedFacts
<1> QED BY <1>1, <1>2, <1>3

(* A thread's fresh record has the shape of a call.                        *)
LEMMA AtType ==
  ASSUME NEW pc \in Pcs, NEW e \in 0..MaxEpoch
  PROVE  /\ At(pc, e) \in Calls
         /\ At(pc, e).pc = pc /\ At(pc, e).epoch = e /\ At(pc, e).next = pc
         /\ At(pc, e).seq = 0 /\ At(pc, e).signal = "none" /\ At(pc, e).drain = 0
         /\ At(pc, e).ack = "Unknown" /\ At(pc, e).saw = Blind
         /\ Blind.pending = FALSE /\ Blind.seq = 0 /\ Blind.fact = NoEntry
BY DEF At, Calls, Blind, Signals, Acks

(* The record of a thread that has numbered an event. *)
Posted(pc, e, next, n, sig, drain) ==
  [At(pc, e) EXCEPT !.next = next, !.seq = n, !.signal = sig, !.drain = drain]

(* Its fields.                                                             *)
LEMMA PostedType ==
  ASSUME NEW pc \in Pcs, NEW e \in 0..MaxEpoch, NEW next \in Pcs, NEW n \in Nat,
         NEW sig \in Signals, NEW drain \in Nat
  PROVE  LET p == Posted(pc, e, next, n, sig, drain) IN
         /\ p \in Calls
         /\ p.pc = pc /\ p.epoch = e /\ p.next = next /\ p.seq = n /\ p.signal = sig
         /\ p.drain = drain /\ p.ack = "Unknown" /\ p.saw = Blind
<1> DEFINE a == At(pc, e)
<1>1. a \in Calls /\ a.pc = pc /\ a.epoch = e /\ a.ack = "Unknown" /\ a.saw = Blind
  BY DEF At, Calls, Blind, Signals, Acks
<1>2. Posted(pc, e, next, n, sig, drain) =
        [a EXCEPT !.next = next, !.seq = n, !.signal = sig, !.drain = drain]
  BY DEF Posted
<1> HIDE DEF a
<1> QED BY <1>1, <1>2, ZenonT(60) DEF Calls

(* What an emission of thread t does, field by field.                      *)
Emitted(t, kind, next) ==
  LET e == thread[t].epoch
      n == core'[e].seq
      drained == core[e].rows # {} /\ core'[e].rows = {}
      sig == Classify(kind)
  IN  /\ e \in Epochs /\ thread[t].pc \notin Emitting /\ sig \in Signals
      /\ core' \in [Epochs -> Cores] /\ core'[e].rows \cap core'[e].closed = {}
      /\ \A x \in Epochs : x # e => core'[x] = core[x]
      /\ n \in Nat /\ n > core[e].seq
      /\ core'[e].finalized = core[e].finalized /\ core'[e].sealed = core[e].sealed
      /\ core'[e].ack = core[e].ack /\ core'[e].sent = core[e].sent
      /\ core'[e].truth = Told(core[e].truth, sig)
      /\ kind # "Queued" \/ core[e].sealed => core'[e].rows \subseteq core[e].rows
      /\ \/ core'[e].started = core[e].started
         \/ kind = "Delivered" /\ core'[e].started = n /\ drained
      /\ pend' = IF core[e].rows = {} /\ core'[e].rows # {}
                 THEN PendingSet(pend, e, n, TRUE) ELSE pend
      /\ thread' \in [Threads -> Calls]
      /\ \A s \in Threads : s # t => thread'[s] = thread[s]
      /\ IF sig = "none" /\ ~drained
         THEN thread'[t] = At(next, IF next \in {"off", "done"} THEN 0 ELSE e)
         ELSE thread'[t] = Posted(IF sig = "none" THEN "drain" ELSE "observe", e, next,
                                  n, sig, IF drained THEN n ELSE 0)

(* Emit does that.                                                         *)
LEMMA EmitFacts ==
  ASSUME TypeOK, Places, NEW t, NEW kind, NEW i, NEW next, EmitStep(t, kind, i, next)
  PROVE  t \in Threads /\ next \in Pcs \ Emitting /\ Emitted(t, kind, next)
<1> USE GateAssumption
<1> DEFINE e == thread[t].epoch
           c == core[e]
           r == Recorded(c, kind, i)
           sig == Classify(kind)
           drained == c.rows # {} /\ r.rows = {}
<1>1. /\ t \in Threads /\ next \in Pcs \ Emitting /\ e \in Epochs /\ thread[t].pc \notin Emitting
      /\ kind \in {"Queued", "Delivered", "Dropped"} => i \in Inputs
  <2>0. MayEmit(t, kind, i, next) BY DEF EmitStep
  <2>1. CASE t = "pump"
    <3>1. t \in Threads /\ thread[t].pc \in {"read", "result", "judge"}
          /\ next \in {"read", "result"}
      BY <2>0, <2>1 DEF MayEmit, Reading, Pump, Threads
    <3>2. e # 0 BY <2>1, <3>1 DEF Places, Pump
    <3> QED BY <2>0, <2>1, <3>1, <3>2 DEF TypeOK, Calls, Epochs, Emitting, Pcs, MayEmit
  <2>2. CASE t \in Inputs
    <3>1. t \in Threads /\ thread[t].pc \in {"echo", "list", "queue", "reject"}
          /\ next \in {"done", "writeQueued"}
      BY <2>0, <2>2 DEF MayEmit, Threads
    <3>2. e # 0 BY <2>2, <3>1 DEF Places
    <3> QED BY <2>0, <2>2, <3>1, <3>2 DEF TypeOK, Calls, Epochs, Emitting, Pcs, MayEmit
  <2>3. CASE t = "lane"
    <3>1. t \in Threads /\ thread[t].pc = "echo" /\ next = "off"
      BY <2>0, <2>3 DEF MayEmit, Threads, Lane
    <3>2. e # 0 BY <2>3, <3>1 DEF Places, Lane
    <3> QED BY <2>0, <2>3, <3>1, <3>2 DEF TypeOK, Calls, Epochs, Emitting, Pcs, MayEmit
  <2> QED BY <2>0, <2>1, <2>2, <2>3 DEF MayEmit
<1>2. sig \in Signals
  BY DEF Signals, Classify
<1>3. c \in Cores /\ c.rows \cap c.closed = {} /\ c.seq \in Nat
  BY <1>1 DEF TypeOK, Cores
<1>4. /\ r \in Cores /\ r.rows \cap r.closed = {}
      /\ r.seq > c.seq
      /\ r.finalized = c.finalized /\ r.sealed = c.sealed
      /\ r.ack = c.ack /\ r.sent = c.sent
      /\ r.truth = Told(c.truth, Classify(kind))
      /\ kind # "Queued" \/ c.sealed => r.rows \subseteq c.rows
      /\ \/ r.started = c.started
         \/ kind = "Delivered" /\ r.started = r.seq /\ c.rows # {} /\ r.rows = {}
  BY <1>1, <1>3, RecordedFacts
<1>5. r.seq \in Nat BY <1>4 DEF Cores
<1>6. /\ core' = [core EXCEPT ![e] = r]
      /\ pend' = IF c.rows = {} /\ r.rows # {} THEN PendingSet(pend, e, r.seq, TRUE) ELSE pend
      /\ IF sig = "none" /\ ~drained THEN Resume(t, next)
         ELSE thread' = [thread EXCEPT ![t] =
                Posted(IF sig = "none" THEN "drain" ELSE "observe", e, next,
                       r.seq, sig, IF drained THEN r.seq ELSE 0)]
  BY DEF EmitStep, Emit, Posted
<1> HIDE DEF r, c
<1>7. core' \in [Epochs -> Cores] /\ core'[e] = r /\ (\A x \in Epochs : x # e => core'[x] = core[x])
  BY <1>1, <1>4, <1>6 DEF TypeOK
<1>8. /\ thread' \in [Threads -> Calls]
      /\ \A s \in Threads : s # t => thread'[s] = thread[s]
      /\ IF sig = "none" /\ ~drained
         THEN thread'[t] = At(next, IF next \in {"off", "done"} THEN 0 ELSE e)
         ELSE thread'[t] = Posted(IF sig = "none" THEN "drain" ELSE "observe", e, next,
                                  r.seq, sig, IF drained THEN r.seq ELSE 0)
  <2>0. e \in 0..MaxEpoch /\ 0 \in 0..MaxEpoch BY <1>1 DEF Epochs
  <2>1. CASE sig = "none" /\ ~drained
    <3> DEFINE a == At(next, IF next \in {"off", "done"} THEN 0 ELSE e)
    <3>1. a \in Calls BY <1>1, <2>0, AtType
    <3>2. thread' = [thread EXCEPT ![t] = a]
      BY <1>6, <2>1 DEF Resume
    <3> HIDE DEF a
    <3> QED BY <1>1, <2>1, <3>1, <3>2 DEF TypeOK, a
  <2>2. CASE ~(sig = "none" /\ ~drained)
    <3> DEFINE pc == IF sig = "none" THEN "drain" ELSE "observe"
               dr == IF drained THEN r.seq ELSE 0
               p == Posted(pc, e, next, r.seq, sig, dr)
    <3>0. pc \in Pcs /\ dr \in Nat BY <1>5 DEF Pcs
    <3> HIDE DEF pc, dr
    <3>1. p \in Calls BY <1>1, <1>2, <1>5, <2>0, <3>0, PostedType
    <3>2. thread' = [thread EXCEPT ![t] = p]
      BY <1>6, <2>2 DEF pc, dr
    <3> HIDE DEF p
    <3> QED BY <1>1, <2>2, <3>1, <3>2 DEF TypeOK, p, pc, dr
  <2> QED BY <2>1, <2>2
<1> QED BY <1>1, <1>2, <1>4, <1>5, <1>6, <1>7, <1>8 DEF Emitted, c
(* A new entry knows nothing.                                              *)
LEMMA FreshFacts ==
  ASSUME NEW e \in Epochs
  PROVE  /\ Fresh(e) \in TurnEntries /\ Fresh(e).epoch = e /\ Fresh(e).inTurn = FALSE
         /\ Fresh(e).lastSeq = 0 /\ Fresh(e).lastEnd = 0 /\ Fresh(e).errorSeq = 0
         /\ Fresh(e).lastEndFailed = FALSE
BY DEF Fresh, TurnEntries

(* What a signal does to an entry, field by field. *)
AbsorbEffect(entry, n, sig, r) ==
  /\ r \in TurnEntries /\ r.epoch = entry.epoch
  /\ r.lastSeq = IF n >= entry.lastSeq THEN n ELSE entry.lastSeq
  /\ r.lastEnd <= r.lastSeq
  /\ sig = "Progress" =>
       /\ r.inTurn <=> entry.inTurn \/ n >= entry.lastSeq
       /\ r.lastEnd = entry.lastEnd /\ r.errorSeq = entry.errorSeq
       /\ r.lastEndFailed = entry.lastEndFailed
  /\ sig = "Failed" =>
       /\ r.inTurn = entry.inTurn /\ r.lastEnd = entry.lastEnd
       /\ r.lastEndFailed = entry.lastEndFailed
       /\ n >= entry.lastEnd =>
            r.errorSeq = IF entry.errorSeq = 0 \/ n < entry.errorSeq
                         THEN n ELSE entry.errorSeq
  /\ IsEnd(sig) /\ n >= entry.lastEnd =>
       /\ r.lastEnd = n
       /\ r.inTurn = IF n >= entry.lastSeq THEN FALSE ELSE entry.inTurn
       /\ r.lastEndFailed <=> \/ sig = "Broken"
                              \/ entry.errorSeq # 0 /\ entry.errorSeq < n
                              \/ sig = "Other" /\ entry.lastEndFailed
       /\ r.errorSeq = IF entry.errorSeq # 0 /\ entry.errorSeq < n
                       THEN 0 ELSE entry.errorSeq

(* Absorb does that, if the last end is not newer than the last signal.    *)
LEMMA AbsorbFacts ==
  ASSUME NEW entry \in TurnEntries, NEW n \in Nat, NEW sig \in Signals \ {"none"},
         entry.lastEnd <= entry.lastSeq
  PROVE  AbsorbEffect(entry, n, sig, Absorb(entry, n, sig))
<1> DEFINE r == Absorb(entry, n, sig)
           held == entry.errorSeq # 0 /\ entry.errorSeq < n
           err  == IF entry.errorSeq = 0 \/ n < entry.errorSeq THEN n ELSE entry.errorSeq
           left == IF held THEN 0 ELSE entry.errorSeq
           bad  == sig = "Broken" \/ held \/ (sig = "Other" /\ entry.lastEndFailed)
           on   == IF n >= entry.lastSeq THEN FALSE ELSE entry.inTurn
<1>0. /\ entry.epoch \in Epochs /\ entry.lastSeq \in Nat /\ entry.lastEnd \in Nat
      /\ entry.errorSeq \in Nat /\ entry.inTurn \in BOOLEAN /\ entry.lastEndFailed \in BOOLEAN
      /\ err \in Nat /\ left \in Nat /\ bad \in BOOLEAN /\ on \in BOOLEAN
  BY DEF TurnEntries
<1> HIDE DEF held, err, left, bad, on
<1>1. CASE sig = "Progress"
  <2>1. r = IF n >= entry.lastSeq THEN [entry EXCEPT !.inTurn = TRUE, !.lastSeq = n]
            ELSE entry
    BY <1>1 DEF Absorb
  <2> HIDE DEF r
  <2>2. /\ r \in TurnEntries /\ r.epoch = entry.epoch
        /\ r.lastSeq = IF n >= entry.lastSeq THEN n ELSE entry.lastSeq
        /\ r.inTurn = IF n >= entry.lastSeq THEN TRUE ELSE entry.inTurn
        /\ r.lastEnd = entry.lastEnd /\ r.errorSeq = entry.errorSeq
        /\ r.lastEndFailed = entry.lastEndFailed
    BY <2>1 DEF TurnEntries
  <2>3. ~IsEnd(sig) BY <1>1 DEF IsEnd
  <2>4. r.inTurn <=> entry.inTurn \/ n >= entry.lastSeq BY <1>0, <2>2
  <2>5. r.lastEnd <= r.lastSeq BY <1>0, <2>2
  <2> QED BY <1>1, <2>2, <2>3, <2>4, <2>5 DEF r, AbsorbEffect
<1>2. CASE sig # "Progress" /\ n < entry.lastEnd
  <2>1. r = entry BY <1>2 DEF Absorb
  <2>2. ~(n >= entry.lastEnd) /\ ~(n >= entry.lastSeq) BY <1>0, <1>2
  <2> HIDE DEF r
  <2> QED BY <1>2, <2>1, <2>2 DEF r, AbsorbEffect
<1>3. CASE sig = "Failed" /\ n >= entry.lastEnd
  <2>1. r = IF n >= entry.lastSeq THEN [entry EXCEPT !.errorSeq = err, !.lastSeq = n]
            ELSE [entry EXCEPT !.errorSeq = err]
    BY <1>0, <1>3 DEF Absorb, err
  <2> HIDE DEF r, err
  <2>2. /\ r \in TurnEntries /\ r.epoch = entry.epoch
        /\ r.lastSeq = IF n >= entry.lastSeq THEN n ELSE entry.lastSeq
        /\ r.inTurn = entry.inTurn /\ r.lastEnd = entry.lastEnd /\ r.errorSeq = err
        /\ r.lastEndFailed = entry.lastEndFailed
    BY <1>0, <2>1 DEF TurnEntries
  <2>3. ~IsEnd(sig) /\ sig # "Progress" BY <1>3 DEF IsEnd
  <2>4. r.lastEnd <= r.lastSeq BY <1>0, <2>2
  <2> QED BY <1>3, <2>2, <2>3, <2>4 DEF r, err, AbsorbEffect
<1>4. CASE sig \notin {"Progress", "Failed"} /\ n >= entry.lastEnd
  <2> DEFINE done == [entry EXCEPT !.lastEndFailed = bad, !.errorSeq = left, !.lastEnd = n,
                                   !.inTurn = on]
  <2>7. ~(n < entry.lastEnd) /\ sig # "Progress" /\ sig # "Failed" BY <1>0, <1>4
  <2>1. r = IF n >= entry.lastSeq THEN [done EXCEPT !.lastSeq = n] ELSE done
    BY <2>7, Zenon DEF Absorb, held, left, bad, on
  <2> HIDE DEF r
  <2>0. /\ done \in TurnEntries /\ done.epoch = entry.epoch /\ done.lastSeq = entry.lastSeq
        /\ done.inTurn = on /\ done.lastEnd = n /\ done.errorSeq = left
        /\ done.lastEndFailed = bad
    BY <1>0 DEF TurnEntries
  <2> HIDE DEF done
  <2>2. /\ r \in TurnEntries /\ r.epoch = entry.epoch
        /\ r.lastSeq = IF n >= entry.lastSeq THEN n ELSE entry.lastSeq
        /\ r.inTurn = on /\ r.lastEnd = n /\ r.errorSeq = left
        /\ r.lastEndFailed = bad
    BY <1>0, <2>0, <2>1 DEF TurnEntries
  <2>3. r.lastEnd <= r.lastSeq BY <1>0, <2>2
  <2>4. r.lastEndFailed <=> \/ sig = "Broken"
                            \/ entry.errorSeq # 0 /\ entry.errorSeq < n
                            \/ sig = "Other" /\ entry.lastEndFailed
    BY <2>2 DEF bad, held
  <2>5. r.errorSeq = IF entry.errorSeq # 0 /\ entry.errorSeq < n THEN 0 ELSE entry.errorSeq
    BY <2>2 DEF left, held
  <2>6. r.inTurn = IF n >= entry.lastSeq THEN FALSE ELSE entry.inTurn
    BY <2>2 DEF on
  <2> QED BY <1>4, <2>2, <2>3, <2>4, <2>5, <2>6 DEF r, AbsorbEffect
<1> QED BY <1>0, <1>1, <1>2, <1>3, <1>4

(* A signal reaches the entry of its own incarnation, a missing entry is   *)
(* made, another one is left alone.                                        *)
LEMMA ObservedFacts ==
  ASSUME NEW table \in TurnEntries \cup {NoEntry}, NEW e \in Epochs, NEW n \in Nat,
         NEW sig \in Signals \ {"none"}, table # NoEntry => table.lastEnd <= table.lastSeq
  PROVE  LET r == Observed(table, e, n, sig) IN
         /\ r \in TurnEntries
         /\ r.lastEnd <= r.lastSeq
         /\ table # NoEntry => r.epoch = table.epoch
         /\ table = NoEntry => r.epoch = e /\ r = Absorb(Fresh(e), n, sig)
         /\ table # NoEntry /\ table.epoch # e => r = table
         /\ table # NoEntry /\ table.epoch = e => r = Absorb(table, n, sig)
<1>1. CASE table = NoEntry
  <2>1. Observed(table, e, n, sig) = Absorb(Fresh(e), n, sig) BY <1>1 DEF Observed
  <2> DEFINE f == Fresh(e)
  <2>2. f \in TurnEntries /\ f.lastEnd <= f.lastSeq /\ f.epoch = e
    BY DEF Fresh, TurnEntries
  <2> HIDE DEF f
  <2> DEFINE r == Absorb(f, n, sig)
  <2>3. AbsorbEffect(f, n, sig, r)
    BY <2>2, AbsorbFacts
  <2>4. r \in TurnEntries /\ r.epoch = f.epoch /\ r.lastEnd <= r.lastSeq
    BY <2>3 DEF AbsorbEffect
  <2> HIDE DEF r
  <2> QED BY <1>1, <2>1, <2>2, <2>4 DEF r, f
<1>2. CASE table # NoEntry /\ table.epoch # e
  BY <1>2 DEF Observed
<1>3. CASE table # NoEntry /\ table.epoch = e
  <2>1. Observed(table, e, n, sig) = Absorb(table, n, sig) BY <1>3 DEF Observed
  <2> DEFINE r == Absorb(table, n, sig)
  <2>2. AbsorbEffect(table, n, sig, r)
    BY <1>3, AbsorbFacts
  <2>3. r \in TurnEntries /\ r.epoch = table.epoch /\ r.lastEnd <= r.lastSeq
    BY <2>2 DEF AbsorbEffect
  <2> HIDE DEF r
  <2> QED BY <1>3, <2>1, <2>3 DEF r
<1> QED BY <1>1, <1>2, <1>3

(* PendingSet changes nothing but the value and the number of the entry of *)
(* its own incarnation.                                                    *)
LEMMA PendingSetFacts ==
  ASSUME NEW table \in PendEntries \cup {NoEntry}, NEW e \in Epochs, NEW n \in Nat,
         NEW value \in BOOLEAN
  PROVE  LET r == PendingSet(table, e, n, value) IN
         /\ r \in PendEntries \cup {NoEntry}
         /\ r = NoEntry <=> table = NoEntry
         /\ table # NoEntry => r.epoch = table.epoch
         /\ table # NoEntry /\ table.epoch = e /\ n >= table.lastSeq =>
              r.pending = value /\ r.lastSeq = n
         /\ ~(table # NoEntry /\ table.epoch = e /\ n >= table.lastSeq) => r = table
BY NoEntryAssumption DEF PendingSet, PendEntries
-----------------------------------------------------------------------------
(* The steps.                                                              *)

(* The pump has heard that there are no acknowledgements. *)
PumpJudges ==
  /\ Reading /\ Live.ack = "Unknown"
  /\ core' = [core EXCEPT ![Pump.epoch].ack = "Unavailable"]
  /\ Goto("pump", "judge")
  /\ UNCHANGED <<turns, pend, session, stale, sweeper, bell, mail>>

(* Moves of an input, and of the lane, that emit nothing. *)
InputMove(i) ==
  \/ InputStart(i) \/ InputReadPending(i) \/ InputReadTurn(i) \/ InputWriteNow(i)
  \/ InputWriteThenQueue(i) \/ InputWriteQueued(i)

LaneMove == LaneLook \/ LaneReadPending \/ LaneReadTurn \/ LaneJudge \/ LaneInject

(* Every step is an emission, one of its continuations, or one of these.   *)
LEMMA Steps ==
  ASSUME Next
  PROVE  \/ \E t, kind, i, next : EmitStep(t, kind, i, next)
         \/ \E t \in Threads : Observe(t)
         \/ \E t \in Threads : Recheck(t)
         \/ \E t \in Threads : WriteDrained(t)
         \/ \E t \in Threads : InputsDrained(t)
         \/ \E i \in Inputs : InputMove(i)
         \/ LaneMove \/ MailArrives
         \/ PumpAckAvailable \/ PumpJudges
         \/ Finalize \/ Seal \/ ReapTurns \/ ReapPending \/ Reap \/ Spawn
         \/ SweepStep
<1>1. ASSUME PumpStep
      PROVE  \/ \E t, kind, i, next : EmitStep(t, kind, i, next)
             \/ PumpAckAvailable \/ PumpJudges
             \/ Finalize \/ Seal \/ ReapTurns \/ ReapPending \/ Reap
  <2>1. ASSUME NEW kind \in {"Text", "Clean", "Other"}, PumpLine(kind)
        PROVE  EmitStep("pump", kind, "", "read")
    BY <2>1 DEF PumpLine, EmitStep, MayEmit, Pump
  <2>2. ASSUME PumpFailedResult
        PROVE  EmitStep("pump", "Failed", "", "result") \/ EmitStep("pump", "Clean", "", "read")
    BY <2>2 DEF PumpFailedResult, EmitStep, MayEmit, Pump
  <2>3. ASSUME PumpAckUnavailable
        PROVE  PumpJudges \/ EmitStep("pump", "AckUnavailable", "", "read")
    BY <2>3 DEF PumpAckUnavailable, PumpJudges, EmitStep, MayEmit, Pump
  <2>4. ASSUME NEW i \in Inputs, NEW kind \in {"Delivered", "Dropped"}, PumpLifecycle(i, kind)
        PROVE  EmitStep("pump", kind, i, "read")
    BY <2>4 DEF PumpLifecycle, EmitStep, MayEmit, Pump
  <2> QED BY <1>1, <2>1, <2>2, <2>3, <2>4 DEF PumpStep
<1>2. ASSUME NEW i \in Inputs, InputStart(i) \/ InputStep(i)
      PROVE  (\E t, kind, j, next : EmitStep(t, kind, j, next)) \/ InputMove(i)
  <2>1. ASSUME InputEcho(i) PROVE EmitStep(i, "Text", "", "done")
    BY <2>1 DEF InputEcho, EmitStep, MayEmit
  <2>2. ASSUME InputQueue(i)
        PROVE  EmitStep(i, "Queued", i, "done") \/ EmitStep(i, "Queued", i, "writeQueued")
    BY <2>2 DEF InputQueue, EmitStep, MayEmit
  <2>3. ASSUME InputReject(i) PROVE EmitStep(i, "Dropped", i, "done")
    BY <2>3 DEF InputReject, EmitStep, MayEmit
  <2> QED BY <1>2, <2>1, <2>2, <2>3 DEF InputStep, InputMove
<1>3. ASSUME LaneStep
      PROVE  (\E t, kind, i, next : EmitStep(t, kind, i, next)) \/ LaneMove
  <2>1. ASSUME LaneEcho PROVE EmitStep("lane", "Text", "", "off")
    BY <2>1 DEF LaneEcho, EmitStep, MayEmit, Lane
  <2> QED BY <1>3, <2>1 DEF LaneStep, LaneMove
<1> QED BY <1>1, <1>2, <1>3 DEF Next, EmissionStep

(* What a move of an input or of the lane leaves alone, and what of its    *)
(* thread it may change.                                                   *)
Moved(t) ==
  /\ thread[t].pc \notin Emitting /\ thread'[t].pc \notin Emitting
  /\ thread' \in [Threads -> Calls]
  /\ \A s \in Threads : s # t => thread'[s] = thread[s]
  /\ thread'[t].signal \in {thread[t].signal, "none"}
  /\ \/ thread'[t].epoch = thread[t].epoch /\ thread'[t].drain = thread[t].drain
     \/ thread'[t].drain = 0
  /\ UNCHANGED <<turns, pend, session, stale, sweeper>>

(* Nothing of a core changes but what was written and acknowledged. *)
SameOutput ==
  \A e \in Epochs :
    /\ core'[e].seq = core[e].seq /\ core'[e].rows = core[e].rows
    /\ core'[e].closed = core[e].closed /\ core'[e].finalized = core[e].finalized
    /\ core'[e].sealed = core[e].sealed /\ core'[e].started = core[e].started
    /\ core'[e].truth = core[e].truth
    /\ e > Pump.epoch => core'[e] = core[e]

(* Goto changes the place alone.                                           *)
LEMMA GotoFacts ==
  ASSUME TypeOK, NEW t \in Threads, NEW pc \in Pcs, Goto(t, pc)
  PROVE  /\ thread' \in [Threads -> Calls]
         /\ \A s \in Threads : s # t => thread'[s] = thread[s]
         /\ thread'[t].pc = pc /\ thread'[t].epoch = thread[t].epoch
         /\ thread'[t].next = thread[t].next /\ thread'[t].seq = thread[t].seq
         /\ thread'[t].signal = thread[t].signal /\ thread'[t].drain = thread[t].drain
         /\ thread'[t].ack = thread[t].ack /\ thread'[t].saw = thread[t].saw
BY DEF Goto, TypeOK, Calls

(* Resume starts the thread's record afresh.                               *)
LEMMA ResumeFacts ==
  ASSUME TypeOK, NEW t \in Threads, NEW pc \in Pcs, Resume(t, pc)
  PROVE  /\ thread' \in [Threads -> Calls]
         /\ \A s \in Threads : s # t => thread'[s] = thread[s]
         /\ thread'[t] = At(pc, IF pc \in {"off", "done"} THEN 0 ELSE thread[t].epoch)
         /\ thread'[t].pc = pc
         /\ thread'[t].epoch = IF pc \in {"off", "done"} THEN 0 ELSE thread[t].epoch
         /\ thread'[t].seq = 0 /\ thread'[t].signal = "none" /\ thread'[t].drain = 0
         /\ thread'[t].saw.pending = FALSE /\ thread'[t].saw.seq = 0
         /\ thread'[t].saw.fact = NoEntry
<1> DEFINE e == IF pc \in {"off", "done"} THEN 0 ELSE thread[t].epoch
           a == At(pc, e)
<1>1. e \in 0..MaxEpoch BY GateAssumption DEF TypeOK, Calls
<1>2. thread' = [thread EXCEPT ![t] = a] BY DEF Resume
<1> HIDE DEF e
<1>3. /\ a \in Calls /\ a.pc = pc /\ a.epoch = e /\ a.seq = 0 /\ a.signal = "none"
      /\ a.drain = 0 /\ a.saw.pending = FALSE /\ a.saw.seq = 0 /\ a.saw.fact = NoEntry
  BY <1>1 DEF At, Blind, Calls, Signals, Acks
<1> HIDE DEF a
<1>4. thread' \in [Threads -> Calls] /\ thread'[t] = a
      /\ (\A s \in Threads : s # t => thread'[s] = thread[s])
  BY <1>2, <1>3 DEF TypeOK
<1> QED BY <1>3, <1>4 DEF a, e
(* A write adds to what was sent and to nothing else.                      *)
LEMMA WrittenFacts ==
  ASSUME TypeOK, NEW i \in Inputs, NEW pc \in Pcs, thread[i].epoch \in Epochs,
         thread[i].epoch <= Pump.epoch, Pump.epoch \in Nat, Written(i, pc)
  PROVE  Resume(i, pc) /\ SameOutput /\ core' \in [Epochs -> Cores]
<1> DEFINE e == thread[i].epoch
           sent == core[e].sent \cup {i}
           c == [core[e] EXCEPT !.sent = sent]
<1>1. core' = [core EXCEPT ![e] = c]
  BY DEF Written
<1>2. core[e] \in Cores /\ sent \in SUBSET Inputs BY DEF TypeOK, Cores
<1> HIDE DEF sent
<1>3. /\ c \in Cores /\ c.seq = core[e].seq /\ c.rows = core[e].rows
      /\ c.closed = core[e].closed /\ c.finalized = core[e].finalized
      /\ c.sealed = core[e].sealed /\ c.started = core[e].started
      /\ c.truth = core[e].truth
  BY <1>2 DEF Cores
<1> HIDE DEF c
<1>4. core' \in [Epochs -> Cores] /\ core'[e] = c
      /\ (\A x \in Epochs : x # e => core'[x] = core[x])
  BY <1>1, <1>3 DEF TypeOK
<1>5. \A x \in Epochs : x > Pump.epoch => x # e
  BY DEF Epochs
<1>6. SameOutput BY <1>3, <1>4, <1>5 DEF SameOutput
<1> QED BY <1>4, <1>6 DEF Written

(* The moves of an input, field by field.                                  *)
InputMoved(i) ==
  /\ Moved(i) /\ SameOutput /\ core' \in [Epochs -> Cores] /\ UNCHANGED <<bell, mail>>
  /\ LET old == thread[i]
         new == thread'[i] IN
     \/ /\ old.pc = "off" /\ session # 0 /\ Writing(session) = {}
        /\ new.pc \in {"write", "readPending"} /\ new.epoch = session /\ new.saw = Blind
     \/ /\ old.pc = "readPending" /\ new.epoch = old.epoch
        /\ new.saw.pending = old.saw.pending /\ new.saw.fact = old.saw.fact
        /\ new.saw.seq = IF Lookup(pend, old.epoch) = NoEntry THEN 0
                         ELSE Lookup(pend, old.epoch).lastSeq
        /\ new.pc = IF PendingRead(old.epoch) THEN "queue" ELSE "readTurn"
     \/ /\ old.pc = "readTurn" /\ new.epoch = old.epoch
        /\ new.saw.pending = old.saw.pending /\ new.saw.seq = old.saw.seq
        /\ new.saw.fact = Lookup(turns, old.epoch)
        /\ new.pc \in {"queue", "writeIdle"}
     \/ /\ old.pc \in {"write", "writeIdle", "queue", "writeQueued"}
        /\ \/ new.pc \in {"echo", "list"} /\ new.epoch = old.epoch
           \/ new.pc = "done" /\ new.epoch = 0
        /\ new.saw.pending = FALSE /\ new.saw.seq = 0 /\ new.saw.fact = NoEntry
     \/ /\ old.pc = "writeQueued" /\ new.pc = "reject" /\ new.epoch = old.epoch
        /\ new.saw = old.saw

(* They are like that.                                                     *)
LEMMA InputMoveFacts ==
  ASSUME TypeOK, Places, NEW i \in Inputs, InputMove(i)
  PROVE  InputMoved(i)
<1> USE GateAssumption
<1>0. /\ i \in Threads /\ "pump" \in Threads /\ thread[i] \in Calls
      /\ thread[i].epoch \in 0..MaxEpoch
      /\ Pump.epoch \in Nat /\ thread[i].epoch <= Pump.epoch
      /\ i # "pump" /\ i # "lane"
  BY DEF TypeOK, Threads, Places, Pump, Calls
<1>1. UNCHANGED core => SameOutput /\ core' \in [Epochs -> Cores]
  BY DEF SameOutput, TypeOK
<1>2. CASE InputStart(i)
  <2> DEFINE ack == core[session].ack
             a == At(IF ack = "Unavailable" THEN "write" ELSE "readPending", session)
             b == [a EXCEPT !.ack = ack]
  <2>1. /\ thread[i].pc = "off" /\ session # 0 /\ Writing(session) = {}
        /\ thread' = [thread EXCEPT ![i] = b]
        /\ UNCHANGED <<turns, pend, core, session, stale, sweeper, bell, mail>>
    BY <1>2 DEF InputStart
  <2>2. session \in 0..MaxEpoch /\ session \in Epochs BY <2>1 DEF TypeOK, Epochs
  <2>3. ack \in Acks BY <2>2 DEF TypeOK, Cores
  <2>4. /\ a \in Calls /\ a.pc \in {"write", "readPending"} /\ a.epoch = session
        /\ a.saw = Blind /\ a.drain = 0 /\ a.signal = "none"
    BY <2>2 DEF At, Calls, Blind, Signals, Acks, Pcs
  <2> HIDE DEF a, ack
  <2>5. /\ b \in Calls /\ b.pc = a.pc /\ b.epoch = session /\ b.saw = Blind
        /\ b.drain = 0 /\ b.signal = "none"
    BY <2>3, <2>4 DEF Calls
  <2> HIDE DEF b
  <2>6. /\ thread' \in [Threads -> Calls] /\ thread'[i] = b
        /\ \A s \in Threads : s # i => thread'[s] = thread[s]
    BY <1>0, <2>1, <2>5 DEF TypeOK
  <2>7. Moved(i)
    BY <2>1, <2>4, <2>5, <2>6 DEF Moved, Emitting
  <2> QED BY <1>1, <2>1, <2>4, <2>5, <2>6, <2>7 DEF InputMoved
<1>3. CASE InputReadPending(i)
  <2> DEFINE e == thread[i].epoch
             p == Lookup(pend, e)
             n == IF p = NoEntry THEN 0 ELSE p.lastSeq
             pc == IF PendingRead(e) THEN "queue" ELSE "readTurn"
             b == [thread[i] EXCEPT !.pc = pc, !.saw.seq = n]
  <2>1. /\ thread[i].pc = "readPending"
        /\ thread' = [thread EXCEPT ![i].pc = pc, ![i].saw.seq = n]
        /\ UNCHANGED <<turns, pend, core, session, stale, sweeper, bell, mail>>
    BY <1>3 DEF InputReadPending
  <2>2. n \in Nat /\ pc \in Pcs /\ pc \in {"queue", "readTurn"}
    BY DEF TypeOK, Lookup, PendEntries, Pcs
  <2> HIDE DEF n, pc, p, e
  <2>3. /\ thread' \in [Threads -> Calls]
        /\ \A s \in Threads : s # i => thread'[s] = thread[s]
        /\ thread'[i].pc = pc /\ thread'[i].epoch = thread[i].epoch
        /\ thread'[i].signal = thread[i].signal /\ thread'[i].drain = thread[i].drain
        /\ thread'[i].saw.seq = n /\ thread'[i].saw.pending = thread[i].saw.pending
        /\ thread'[i].saw.fact = thread[i].saw.fact
    BY <1>0, <2>1, <2>2 DEF TypeOK, Calls
  <2>4. Moved(i)
    BY <2>1, <2>2, <2>3 DEF Moved, Emitting
  <2> QED BY <1>1, <2>1, <2>3, <2>4 DEF InputMoved, n, pc, p, e
<1>4. CASE InputReadTurn(i)
  <2> DEFINE f == Lookup(turns, thread[i].epoch)
             pc == IF InTurnRead(thread[i].epoch) THEN "queue" ELSE "writeIdle"
  <2>1. /\ thread[i].pc = "readTurn"
        /\ thread' = [thread EXCEPT ![i].pc = pc, ![i].saw.fact = f]
        /\ UNCHANGED <<turns, pend, core, session, stale, sweeper, bell, mail>>
    BY <1>4 DEF InputReadTurn
  <2>2. f \in TurnEntries \cup {NoEntry} /\ pc \in Pcs /\ pc \in {"queue", "writeIdle"}
    BY DEF TypeOK, Lookup, Pcs
  <2>5. f = Lookup(turns, thread[i].epoch) OBVIOUS
  <2> HIDE DEF f, pc
  <2>3. /\ thread' \in [Threads -> Calls]
        /\ \A s \in Threads : s # i => thread'[s] = thread[s]
        /\ thread'[i].pc = pc /\ thread'[i].epoch = thread[i].epoch
        /\ thread'[i].signal = thread[i].signal /\ thread'[i].drain = thread[i].drain
        /\ thread'[i].saw.fact = f /\ thread'[i].saw.pending = thread[i].saw.pending
        /\ thread'[i].saw.seq = thread[i].saw.seq
    BY <1>0, <2>1, <2>2 DEF TypeOK, Calls
  <2>4. Moved(i)
    BY <2>1, <2>2, <2>3 DEF Moved, Emitting
  <2> QED BY <1>1, <2>1, <2>2, <2>3, <2>4, <2>5 DEF InputMoved
<1>5. ASSUME NEW pc \in {"echo", "list", "done"},
             thread[i].pc \in {"write", "writeIdle", "queue", "writeQueued"},
             Written(i, pc) \/ (Resume(i, pc) /\ UNCHANGED core),
             UNCHANGED <<turns, pend, session, stale, sweeper, bell, mail>>
      PROVE  InputMoved(i)
  <2>1. thread[i].epoch \in Epochs BY <1>0, <1>5 DEF Places, Epochs
  <2>2. pc \in Pcs BY DEF Pcs
  <2>3. Resume(i, pc) /\ SameOutput /\ core' \in [Epochs -> Cores]
    BY <1>0, <1>1, <1>5, <2>1, <2>2, WrittenFacts
  <2>4. /\ thread' \in [Threads -> Calls]
        /\ \A s \in Threads : s # i => thread'[s] = thread[s]
        /\ thread'[i].pc = pc
        /\ thread'[i].epoch = IF pc \in {"off", "done"} THEN 0 ELSE thread[i].epoch
        /\ thread'[i].signal = "none" /\ thread'[i].drain = 0
        /\ thread'[i].saw.pending = FALSE /\ thread'[i].saw.seq = 0
        /\ thread'[i].saw.fact = NoEntry
    BY <1>0, <2>2, <2>3, ResumeFacts
  <2>5. Moved(i)
    BY <1>5, <2>4 DEF Moved, Emitting
  <2> QED BY <1>5, <2>3, <2>4, <2>5 DEF InputMoved
<1>6. CASE InputWriteNow(i)
  BY <1>5, <1>6 DEF InputWriteNow
<1>7. CASE InputWriteThenQueue(i)
  BY <1>5, <1>7 DEF InputWriteThenQueue
<1>8. CASE InputWriteQueued(i) /\ Written(i, "done")
  BY <1>5, <1>8 DEF InputWriteQueued
<1>9. CASE InputWriteQueued(i) /\ Goto(i, "reject") /\ UNCHANGED core
  <2>1. /\ thread[i].pc = "writeQueued"
        /\ UNCHANGED <<turns, pend, session, stale, sweeper, bell, mail>>
    BY <1>9 DEF InputWriteQueued
  <2>2. "reject" \in Pcs BY DEF Pcs
  <2>3. /\ thread' \in [Threads -> Calls]
        /\ \A s \in Threads : s # i => thread'[s] = thread[s]
        /\ thread'[i].pc = "reject" /\ thread'[i].epoch = thread[i].epoch
        /\ thread'[i].signal = thread[i].signal /\ thread'[i].drain = thread[i].drain
        /\ thread'[i].saw = thread[i].saw
    BY <1>0, <1>9, <2>2, GotoFacts
  <2>4. Moved(i)
    BY <2>1, <2>3 DEF Moved, Emitting
  <2> QED BY <1>1, <1>9, <2>1, <2>3, <2>4 DEF InputMoved
<1> QED BY <1>2, <1>3, <1>4, <1>6, <1>7, <1>8, <1>9 DEF InputMove, InputWriteQueued
(* The moves of the lane, field by field.                                  *)
LaneMoved ==
  /\ Moved("lane") /\ UNCHANGED core
  /\ LET new == thread'["lane"] IN
     \/ /\ Lane.pc = "off" /\ bell /\ mail /\ bell' = FALSE /\ UNCHANGED mail
        /\ IF session # 0
           THEN new.pc = "readPending" /\ new.epoch = session /\ new.saw = Blind
           ELSE new = Lane
     \/ /\ Lane.pc = "readPending" /\ new.pc = "readTurn" /\ new.epoch = Lane.epoch
        /\ new.saw.fact = Lane.saw.fact /\ new.saw.pending = PendingRead(Lane.epoch)
        /\ new.saw.seq = IF Lookup(pend, Lane.epoch) = NoEntry THEN 0
                         ELSE Lookup(pend, Lane.epoch).lastSeq
        /\ UNCHANGED <<bell, mail>>
     \/ /\ Lane.pc = "readTurn" /\ new.pc = "judge" /\ new.epoch = Lane.epoch
        /\ new.saw.pending = Lane.saw.pending /\ new.saw.seq = Lane.saw.seq
        /\ new.saw.fact = Lookup(turns, Lane.epoch)
        /\ UNCHANGED <<bell, mail>>
     \/ /\ Lane.pc = "judge" /\ new.pc = "inject" /\ new.epoch = Lane.epoch
        /\ new.saw = Lane.saw /\ UNCHANGED <<bell, mail>>
     \/ /\ Lane.pc = "judge" /\ new.pc = "off" /\ new.epoch = 0
        /\ BusyReason(Lane.epoch, Lane.saw.fact, Lane.saw.pending) # "none"
        /\ new.saw = Blind /\ UNCHANGED <<bell, mail>>
     \/ /\ Lane.pc = "inject" /\ new.pc = "echo" /\ new.epoch = Lane.epoch
        /\ new.saw = Blind /\ mail' = FALSE /\ UNCHANGED bell
     \/ /\ Lane.pc = "inject" /\ new.pc = "off" /\ new.epoch = 0
        /\ core[Lane.epoch].finalized /\ new.saw = Blind /\ UNCHANGED <<bell, mail>>

(* They are like that.                                                     *)
LEMMA LaneMoveFacts ==
  ASSUME TypeOK, Places, LaneMove
  PROVE  LaneMoved
<1> USE GateAssumption
<1>0. "lane" \in Threads /\ Lane = thread["lane"] /\ Lane \in Calls
  BY DEF TypeOK, Threads, Lane
<1>1. CASE LaneLook
  <2>1. /\ Lane.pc = "off" /\ bell /\ mail /\ bell' = FALSE
        /\ thread' = [thread EXCEPT !["lane"] =
                        IF session # 0 THEN At("readPending", session) ELSE @]
        /\ UNCHANGED <<turns, pend, core, session, stale, sweeper, mail>>
    BY <1>1 DEF LaneLook
  <2>2. CASE session # 0
    <3> DEFINE a == At("readPending", session)
    <3>1. /\ a \in Calls /\ a.pc = "readPending" /\ a.epoch = session /\ a.saw = Blind
          /\ a.drain = 0 /\ a.signal = "none"
      BY DEF TypeOK, At, Calls, Blind, Signals, Acks, Pcs
    <3>2. thread' = [thread EXCEPT !["lane"] = a] BY <2>1, <2>2
    <3> HIDE DEF a
    <3>3. /\ thread' \in [Threads -> Calls] /\ thread'["lane"] = a
          /\ \A s \in Threads : s # "lane" => thread'[s] = thread[s]
      BY <1>0, <3>1, <3>2 DEF TypeOK
    <3>4. Moved("lane")
      BY <1>0, <2>1, <3>1, <3>3 DEF Moved, Emitting
    <3> QED BY <2>1, <2>2, <3>1, <3>3, <3>4 DEF LaneMoved
  <2>3. CASE session = 0
    <3>1. thread' = thread BY <2>1, <2>3 DEF TypeOK
    <3>2. Moved("lane")
      BY <1>0, <2>1, <3>1 DEF Moved, Emitting, TypeOK
    <3> QED BY <1>0, <2>1, <2>3, <3>1, <3>2 DEF LaneMoved
  <2> QED BY <2>2, <2>3
<1>2. CASE LaneReadPending
  <2> DEFINE p == Lookup(pend, Lane.epoch)
             n == IF p = NoEntry THEN 0 ELSE p.lastSeq
             v == PendingRead(Lane.epoch)
  <2>1. /\ Lane.pc = "readPending"
        /\ thread' = [thread EXCEPT !["lane"].pc = "readTurn", !["lane"].saw.pending = v,
                                    !["lane"].saw.seq = n]
        /\ UNCHANGED <<turns, pend, core, session, stale, sweeper, bell, mail>>
    BY <1>2 DEF LaneReadPending
  <2>2. n \in Nat /\ "readTurn" \in Pcs
    BY DEF TypeOK, Lookup, PendEntries, Pcs
  <2>3. v \in BOOLEAN
    BY DEF PendingRead
  <2> HIDE DEF n, p, v
  <2>4. /\ thread' \in [Threads -> Calls]
        /\ \A s \in Threads : s # "lane" => thread'[s] = thread[s]
        /\ thread'["lane"].pc = "readTurn" /\ thread'["lane"].epoch = Lane.epoch
        /\ thread'["lane"].signal = Lane.signal /\ thread'["lane"].drain = Lane.drain
        /\ thread'["lane"].saw.seq = n /\ thread'["lane"].saw.pending = v
        /\ thread'["lane"].saw.fact = Lane.saw.fact
    BY <1>0, <2>1, <2>2, <2>3 DEF TypeOK, Calls
  <2>5. Moved("lane")
    BY <1>0, <2>1, <2>4 DEF Moved, Emitting
  <2> QED BY <2>1, <2>4, <2>5 DEF LaneMoved, n, p, v
<1>3. CASE LaneReadTurn
  <2> DEFINE f == Lookup(turns, Lane.epoch)
  <2>1. /\ Lane.pc = "readTurn"
        /\ thread' = [thread EXCEPT !["lane"].pc = "judge", !["lane"].saw.fact = f]
        /\ UNCHANGED <<turns, pend, core, session, stale, sweeper, bell, mail>>
    BY <1>3 DEF LaneReadTurn
  <2>2. f \in TurnEntries \cup {NoEntry} /\ "judge" \in Pcs
    BY DEF TypeOK, Lookup, Pcs
  <2>3. f = Lookup(turns, Lane.epoch) OBVIOUS
  <2> HIDE DEF f
  <2>4. /\ thread' \in [Threads -> Calls]
        /\ \A s \in Threads : s # "lane" => thread'[s] = thread[s]
        /\ thread'["lane"].pc = "judge" /\ thread'["lane"].epoch = Lane.epoch
        /\ thread'["lane"].signal = Lane.signal /\ thread'["lane"].drain = Lane.drain
        /\ thread'["lane"].saw.seq = Lane.saw.seq /\ thread'["lane"].saw.fact = f
        /\ thread'["lane"].saw.pending = Lane.saw.pending
    BY <1>0, <2>1, <2>2 DEF TypeOK, Calls
  <2>5. Moved("lane")
    BY <1>0, <2>1, <2>4 DEF Moved, Emitting
  <2> QED BY <2>1, <2>3, <2>4, <2>5 DEF LaneMoved
<1>4. ASSUME NEW pc \in {"off", "echo"}, Resume("lane", pc), Lane.pc \in {"judge", "inject"}
      PROVE  /\ thread' \in [Threads -> Calls]
             /\ \A s \in Threads : s # "lane" => thread'[s] = thread[s]
             /\ thread'["lane"].pc = pc /\ thread'["lane"].drain = 0
             /\ thread'["lane"].epoch = IF pc = "off" THEN 0 ELSE Lane.epoch
             /\ thread'["lane"].signal = "none" /\ thread'["lane"].saw = Blind
  <2>1. pc \in Pcs BY DEF Pcs
  <2>2. /\ thread' \in [Threads -> Calls]
        /\ \A s \in Threads : s # "lane" => thread'[s] = thread[s]
        /\ thread'["lane"] = At(pc, IF pc \in {"off", "done"} THEN 0 ELSE Lane.epoch)
    BY <1>0, <1>4, <2>1, ResumeFacts
  <2> QED BY <2>2 DEF At
<1>5. CASE LaneJudge
  <2>1. Lane.pc = "judge" /\ UNCHANGED <<turns, pend, core, session, stale, sweeper, bell, mail>>
    BY <1>5 DEF LaneJudge
  <2>2. CASE BusyReason(Lane.epoch, Lane.saw.fact, Lane.saw.pending) = "none"
    <3>1. Goto("lane", "inject") /\ "inject" \in Pcs BY <1>5, <2>2 DEF LaneJudge, Pcs
    <3>2. /\ thread' \in [Threads -> Calls]
          /\ \A s \in Threads : s # "lane" => thread'[s] = thread[s]
          /\ thread'["lane"].pc = "inject" /\ thread'["lane"].epoch = Lane.epoch
          /\ thread'["lane"].signal = Lane.signal /\ thread'["lane"].drain = Lane.drain
          /\ thread'["lane"].saw = Lane.saw
      BY <1>0, <3>1, GotoFacts
    <3>3. Moved("lane")
      BY <1>0, <2>1, <3>2 DEF Moved, Emitting
    <3> QED BY <2>1, <3>2, <3>3 DEF LaneMoved
  <2>3. CASE BusyReason(Lane.epoch, Lane.saw.fact, Lane.saw.pending) # "none"
    <3>1. Resume("lane", "off") BY <1>5, <2>3 DEF LaneJudge
    <3>2. /\ thread' \in [Threads -> Calls]
          /\ \A s \in Threads : s # "lane" => thread'[s] = thread[s]
          /\ thread'["lane"].pc = "off" /\ thread'["lane"].drain = 0
          /\ thread'["lane"].epoch = 0
          /\ thread'["lane"].signal = "none" /\ thread'["lane"].saw = Blind
      BY <1>4, <2>1, <3>1
    <3>3. Moved("lane")
      BY <1>0, <2>1, <3>2 DEF Moved, Emitting
    <3> QED BY <2>1, <2>3, <3>2, <3>3 DEF LaneMoved
  <2> QED BY <2>2, <2>3
<1>6. CASE LaneInject
  <2>1. /\ Lane.pc = "inject" /\ UNCHANGED <<turns, pend, core, session, stale, sweeper, bell>>
        /\ \/ mail' = FALSE /\ Resume("lane", "echo")
           \/ core[Lane.epoch].finalized /\ Resume("lane", "off") /\ UNCHANGED mail
    BY <1>6 DEF LaneInject
  <2>2. CASE mail' = FALSE /\ Resume("lane", "echo")
    <3>1. /\ thread' \in [Threads -> Calls]
          /\ \A s \in Threads : s # "lane" => thread'[s] = thread[s]
          /\ thread'["lane"].pc = "echo" /\ thread'["lane"].drain = 0
          /\ thread'["lane"].epoch = Lane.epoch
          /\ thread'["lane"].signal = "none" /\ thread'["lane"].saw = Blind
      BY <1>4, <2>1, <2>2
    <3>2. Moved("lane")
      BY <1>0, <2>1, <3>1 DEF Moved, Emitting
    <3> QED BY <2>1, <2>2, <3>1, <3>2 DEF LaneMoved
  <2>3. CASE core[Lane.epoch].finalized /\ Resume("lane", "off") /\ UNCHANGED mail
    <3>1. /\ thread' \in [Threads -> Calls]
          /\ \A s \in Threads : s # "lane" => thread'[s] = thread[s]
          /\ thread'["lane"].pc = "off" /\ thread'["lane"].drain = 0
          /\ thread'["lane"].epoch = 0
          /\ thread'["lane"].signal = "none" /\ thread'["lane"].saw = Blind
      BY <1>4, <2>1, <2>3
    <3>2. Moved("lane")
      BY <1>0, <2>1, <3>1 DEF Moved, Emitting
    <3> QED BY <2>1, <2>3, <3>1, <3>2 DEF LaneMoved
  <2> QED BY <2>1, <2>2, <2>3
<1> QED BY <1>1, <1>2, <1>3, <1>5, <1>6 DEF LaneMove
(* The verdict about acknowledgements changes nothing else in a core.      *)
LEMMA AckFacts ==
  ASSUME TypeOK, Places, PumpAckAvailable \/ PumpJudges
  PROVE  SameOutput /\ core' \in [Epochs -> Cores]
<1> USE GateAssumption
<1> DEFINE e == Pump.epoch
<1>1. PICK ack \in Acks : core' = [core EXCEPT ![e].ack = ack]
  BY DEF PumpAckAvailable, PumpJudges, Acks
<1>2. Reading BY DEF PumpAckAvailable, PumpJudges
<1>3. e \in Epochs
  BY <1>2 DEF TypeOK, Calls, Threads, Pump, Places, Reading, Epochs
<1> DEFINE c == [core[e] EXCEPT !.ack = ack]
<1>4. core' = [core EXCEPT ![e] = c] BY <1>1
<1>5. /\ c \in Cores /\ c.seq = core[e].seq /\ c.rows = core[e].rows
      /\ c.closed = core[e].closed /\ c.finalized = core[e].finalized
      /\ c.sealed = core[e].sealed /\ c.started = core[e].started
      /\ c.truth = core[e].truth
  <2>1. core[e] \in Cores BY <1>3 DEF TypeOK
  <2> HIDE DEF e
  <2> QED BY <2>1 DEF Cores
<1> HIDE DEF c
<1>6. core' \in [Epochs -> Cores] /\ core'[e] = c
      /\ (\A x \in Epochs : x # e => core'[x] = core[x])
  BY <1>3, <1>4, <1>5 DEF TypeOK
<1>7. \A x \in Epochs : x > e => x # e BY <1>3 DEF Epochs
<1> HIDE DEF e
<1>8. SameOutput BY <1>5, <1>6, <1>7 DEF SameOutput, e
<1> QED BY <1>6, <1>8

(* finish marks the incarnation and nothing else of it.                    *)
LEMMA FinalizeFacts ==
  ASSUME TypeOK, Places, Finalize
  PROVE  LET e == Pump.epoch IN
         /\ e \in Epochs /\ core' \in [Epochs -> Cores]
         /\ \A x \in Epochs : x # e => core'[x] = core[x]
         /\ core'[e].finalized = TRUE /\ core'[e].sealed = core[e].sealed
         /\ core'[e].seq = core[e].seq /\ core'[e].rows = core[e].rows
         /\ core'[e].closed = core[e].closed /\ core'[e].started = core[e].started
         /\ core'[e].truth = core[e].truth
<1> USE GateAssumption
<1> DEFINE e == Pump.epoch
           c == [core[e] EXCEPT !.finalized = TRUE]
<1>1. e \in Epochs
  BY DEF TypeOK, Calls, Threads, Pump, Places, Reading, Epochs, Finalize
<1>2. core' = [core EXCEPT ![e] = c] BY DEF Finalize
<1>3. /\ c \in Cores /\ c.seq = core[e].seq /\ c.rows = core[e].rows
      /\ c.closed = core[e].closed /\ c.finalized = TRUE
      /\ c.sealed = core[e].sealed /\ c.started = core[e].started
      /\ c.truth = core[e].truth
  <2>1. core[e] \in Cores BY <1>1 DEF TypeOK
  <2> HIDE DEF e
  <2> QED BY <2>1 DEF Cores
<1> HIDE DEF c
<1>4. core' \in [Epochs -> Cores] /\ core'[e] = c
      /\ (\A x \in Epochs : x # e => core'[x] = core[x])
  BY <1>1, <1>2, <1>3 DEF TypeOK
<1> QED BY <1>1, <1>3, <1>4

(* The seal closes every row and numbers their ends.                       *)
LEMMA SealFacts ==
  ASSUME TypeOK, Places, Seal
  PROVE  LET e == Pump.epoch IN
         /\ e \in Epochs /\ core' \in [Epochs -> Cores]
         /\ \A x \in Epochs : x # e => core'[x] = core[x]
         /\ core'[e].sealed = TRUE /\ core'[e].finalized = core[e].finalized
         /\ core'[e].seq >= core[e].seq /\ core'[e].rows = {}
         /\ core'[e].started = core[e].started /\ core'[e].truth = core[e].truth
<1> USE GateAssumption
<1> DEFINE e == Pump.epoch
           rows == core[e].rows
           n == core[e].seq + Cardinality(rows)
           gone == core[e].closed \cup rows
           c == [core[e] EXCEPT !.seq = n, !.rows = {}, !.closed = gone, !.sealed = TRUE]
<1>1. e \in Epochs
  BY DEF TypeOK, Calls, Threads, Pump, Places, Seal, Epochs
<1>2. core' = [core EXCEPT ![e] = c] BY DEF Seal, Live
<1>3. rows \subseteq Inputs /\ gone \in SUBSET Inputs /\ core[e] \in Cores /\ core[e].seq \in Nat
  BY <1>1 DEF TypeOK, Cores
<1>4. Cardinality(rows) \in Nat
  BY <1>3, FS_Subset, FS_CardinalityType
<1>5. n \in Nat /\ n >= core[e].seq BY <1>3, <1>4
<1> HIDE DEF n, gone, rows
<1>6. /\ c \in Cores /\ c.seq = n /\ c.rows = {}
      /\ c.finalized = core[e].finalized
      /\ c.sealed = TRUE /\ c.started = core[e].started
      /\ c.truth = core[e].truth
  BY <1>3, <1>5 DEF Cores
<1> HIDE DEF c
<1>7. core' \in [Epochs -> Cores] /\ core'[e] = c
      /\ (\A x \in Epochs : x # e => core'[x] = core[x])
  BY <1>1, <1>2, <1>6 DEF TypeOK
<1> QED BY <1>1, <1>5, <1>6, <1>7

(* The step after an emission returns to where the thread came from.       *)
LEMMA RecheckFacts ==
  ASSUME TypeOK, NEW t \in Threads, Recheck(t)
  PROVE  /\ thread[t].pc = "recheck"
         /\ thread' \in [Threads -> Calls]
         /\ \A s \in Threads : s # t => thread'[s] = thread[s]
         /\ bell' \in BOOLEAN /\ (bell' <=> bell \/ IsEnd(thread[t].signal))
         /\ \/ /\ thread[t].drain # 0 /\ thread'[t].pc = "drain"
               /\ thread'[t].epoch = thread[t].epoch /\ thread'[t].next = thread[t].next
               /\ thread'[t].seq = thread[t].seq /\ thread'[t].signal = thread[t].signal
               /\ thread'[t].drain = thread[t].drain /\ thread'[t].saw = thread[t].saw
            \/ /\ thread[t].drain = 0 /\ thread'[t].pc = thread[t].next
               /\ thread'[t].epoch = IF thread[t].next \in {"off", "done"} THEN 0
                                     ELSE thread[t].epoch
               /\ thread'[t].signal = "none" /\ thread'[t].drain = 0
               /\ thread'[t].saw.pending = FALSE /\ thread'[t].saw.seq = 0
               /\ thread'[t].saw.fact = NoEntry
<1>1. /\ thread[t].pc = "recheck" /\ bell' = (bell \/ IsEnd(thread[t].signal))
      /\ IF thread[t].drain # 0 THEN Goto(t, "drain") ELSE Resume(t, thread[t].next)
  BY DEF Recheck
<1>2. thread[t].next \in Pcs /\ "drain" \in Pcs BY DEF TypeOK, Calls, Pcs
<1>3. bell' \in BOOLEAN /\ (bell' <=> bell \/ IsEnd(thread[t].signal))
  BY <1>1 DEF TypeOK
<1>4. CASE thread[t].drain # 0
  <2>1. Goto(t, "drain") BY <1>1, <1>4
  <2>2. /\ thread' \in [Threads -> Calls]
        /\ \A s \in Threads : s # t => thread'[s] = thread[s]
        /\ thread'[t].pc = "drain" /\ thread'[t].epoch = thread[t].epoch
        /\ thread'[t].next = thread[t].next /\ thread'[t].seq = thread[t].seq
        /\ thread'[t].signal = thread[t].signal /\ thread'[t].drain = thread[t].drain
        /\ thread'[t].saw = thread[t].saw
    BY <1>2, <2>1, GotoFacts
  <2> QED BY <1>1, <1>3, <1>4, <2>2
<1>5. CASE thread[t].drain = 0
  <2>1. Resume(t, thread[t].next) BY <1>1, <1>5
  <2>2. /\ thread' \in [Threads -> Calls]
        /\ \A s \in Threads : s # t => thread'[s] = thread[s]
        /\ thread'[t].pc = thread[t].next
        /\ thread'[t].epoch = IF thread[t].next \in {"off", "done"} THEN 0
                              ELSE thread[t].epoch
        /\ thread'[t].signal = "none" /\ thread'[t].drain = 0
        /\ thread'[t].saw.pending = FALSE /\ thread'[t].saw.seq = 0
        /\ thread'[t].saw.fact = NoEntry
    BY <1>2, <2>1, ResumeFacts
  <2> QED BY <1>1, <1>3, <1>5, <2>2
<1> QED BY <1>4, <1>5
(* A signal is recorded: the entry it meets, and the thread's next place.  *)
LEMMA ObserveFacts ==
  ASSUME TypeOK, Numbers, NEW t \in Threads, Observe(t)
  PROVE  LET me == thread[t]
             r == Observed(turns, me.epoch, me.seq, me.signal) IN
         /\ me.pc = "observe" /\ me.epoch \in Epochs /\ me.seq \in Nat
         /\ me.signal \in Signals \ {"none"}
         /\ turns' = r /\ r \in TurnEntries /\ r # NoEntry /\ r.lastEnd <= r.lastSeq
         /\ turns # NoEntry => r.epoch = turns.epoch
         /\ turns = NoEntry => /\ r.epoch = me.epoch
                               /\ AbsorbEffect(Fresh(me.epoch), me.seq, me.signal, r)
         /\ turns # NoEntry /\ turns.epoch # me.epoch => r = turns
         /\ turns # NoEntry /\ turns.epoch = me.epoch =>
              AbsorbEffect(turns, me.seq, me.signal, r)
         /\ thread' \in [Threads -> Calls]
         /\ \A s \in Threads : s # t => thread'[s] = thread[s]
         /\ thread'[t].pc = "recheck" /\ thread'[t].epoch = me.epoch
         /\ thread'[t].next = me.next /\ thread'[t].seq = me.seq
         /\ thread'[t].signal = me.signal /\ thread'[t].drain = me.drain
         /\ thread'[t].saw = me.saw
         /\ UNCHANGED <<pend, core, session, stale, sweeper, bell, mail>>
<1> DEFINE me == thread[t]
           r == Observed(turns, me.epoch, me.seq, me.signal)
<1>1. /\ me.pc = "observe" /\ turns' = r /\ Goto(t, "recheck") /\ "recheck" \in Pcs
      /\ UNCHANGED <<pend, core, session, stale, sweeper, bell, mail>>
  BY DEF Observe, Pcs
<1>2. /\ me.epoch \in Epochs /\ me.seq \in Nat /\ me.signal \in Signals \ {"none"}
  BY <1>1, GateAssumption DEF TypeOK, Calls, Numbers, Epochs
<1>3. /\ turns \in TurnEntries \cup {NoEntry}
      /\ turns # NoEntry => turns \in TurnEntries /\ turns.lastEnd <= turns.lastSeq
  BY DEF TypeOK, Numbers
<1>4. /\ r \in TurnEntries /\ r.lastEnd <= r.lastSeq
      /\ turns # NoEntry => r.epoch = turns.epoch
      /\ turns = NoEntry => r.epoch = me.epoch /\ r = Absorb(Fresh(me.epoch), me.seq, me.signal)
      /\ turns # NoEntry /\ turns.epoch # me.epoch => r = turns
      /\ turns # NoEntry /\ turns.epoch = me.epoch => r = Absorb(turns, me.seq, me.signal)
  BY <1>2, <1>3, ObservedFacts
<1>5. AbsorbEffect(Fresh(me.epoch), me.seq, me.signal, Absorb(Fresh(me.epoch), me.seq, me.signal))
  <2> DEFINE f == Fresh(me.epoch)
  <2>1. f \in TurnEntries /\ f.lastEnd <= f.lastSeq
    BY <1>2 DEF Fresh, TurnEntries
  <2> HIDE DEF f
  <2> QED BY <1>2, <2>1, AbsorbFacts DEF f
<1>6. turns # NoEntry => AbsorbEffect(turns, me.seq, me.signal, Absorb(turns, me.seq, me.signal))
  BY <1>2, <1>3, AbsorbFacts
<1>7. r # NoEntry BY <1>4, NoEntryAssumption
<1>8. /\ thread' \in [Threads -> Calls]
      /\ \A s \in Threads : s # t => thread'[s] = thread[s]
      /\ thread'[t].pc = "recheck" /\ thread'[t].epoch = me.epoch
      /\ thread'[t].next = me.next /\ thread'[t].seq = me.seq
      /\ thread'[t].signal = me.signal /\ thread'[t].drain = me.drain
      /\ thread'[t].saw = me.saw
  BY <1>1, GotoFacts
<1> HIDE DEF r
<1>9. turns = NoEntry => AbsorbEffect(Fresh(me.epoch), me.seq, me.signal, r) BY <1>4, <1>5
<1>10. turns # NoEntry /\ turns.epoch = me.epoch => AbsorbEffect(turns, me.seq, me.signal, r)
  BY <1>4, <1>6
<1> QED BY <1>1, <1>2, <1>4, <1>7, <1>8, <1>9, <1>10 DEF r

(* "Became empty" is written: the thread has the bell left to ring.        *)
LEMMA WriteDrainedFacts ==
  ASSUME TypeOK, NEW t \in Threads, WriteDrained(t)
  PROVE  /\ thread[t].pc = "drain"
         /\ pend' = PendingSet(pend, thread[t].epoch, thread[t].drain, FALSE)
         /\ thread' \in [Threads -> Calls]
         /\ \A s \in Threads : s # t => thread'[s] = thread[s]
         /\ thread'[t].pc = "drained" /\ thread'[t].epoch = thread[t].epoch
         /\ thread'[t].next = thread[t].next /\ thread'[t].seq = thread[t].seq
         /\ thread'[t].signal = thread[t].signal /\ thread'[t].drain = thread[t].drain
         /\ thread'[t].saw = thread[t].saw
         /\ UNCHANGED <<turns, core, session, stale, sweeper, bell, mail>>
<1>1. "drained" \in Pcs /\ Goto(t, "drained") BY DEF Pcs, WriteDrained
<1>2. /\ thread' \in [Threads -> Calls]
      /\ \A s \in Threads : s # t => thread'[s] = thread[s]
      /\ thread'[t].pc = "drained" /\ thread'[t].epoch = thread[t].epoch
      /\ thread'[t].next = thread[t].next /\ thread'[t].seq = thread[t].seq
      /\ thread'[t].signal = thread[t].signal /\ thread'[t].drain = thread[t].drain
      /\ thread'[t].saw = thread[t].saw
  BY <1>1, GotoFacts
<1> QED BY <1>2 DEF WriteDrained

(* The bell is rung and the thread returns to where it came from.          *)
LEMMA InputsDrainedFacts ==
  ASSUME TypeOK, NEW t \in Threads, InputsDrained(t)
  PROVE  /\ thread[t].pc = "drained" /\ bell' = TRUE
         /\ thread' \in [Threads -> Calls]
         /\ \A s \in Threads : s # t => thread'[s] = thread[s]
         /\ thread'[t].pc = thread[t].next
         /\ thread'[t].epoch = IF thread[t].next \in {"off", "done"} THEN 0
                               ELSE thread[t].epoch
         /\ thread'[t].signal = "none" /\ thread'[t].drain = 0
         /\ thread'[t].saw.pending = FALSE /\ thread'[t].saw.seq = 0
         /\ thread'[t].saw.fact = NoEntry
         /\ UNCHANGED <<turns, pend, core, session, stale, sweeper, mail>>
<1>1. thread[t].next \in Pcs /\ Resume(t, thread[t].next) BY DEF TypeOK, Calls, InputsDrained
<1>2. /\ thread' \in [Threads -> Calls]
      /\ \A s \in Threads : s # t => thread'[s] = thread[s]
      /\ thread'[t].pc = thread[t].next
      /\ thread'[t].epoch = IF thread[t].next \in {"off", "done"} THEN 0
                            ELSE thread[t].epoch
      /\ thread'[t].signal = "none" /\ thread'[t].drain = 0
      /\ thread'[t].saw.pending = FALSE /\ thread'[t].saw.seq = 0
      /\ thread'[t].saw.fact = NoEntry
  BY <1>1, ResumeFacts
<1> QED BY <1>2 DEF InputsDrained

(* The pump moves and keeps everything else of its record. *)
PumpAt(pc) ==
  /\ thread' \in [Threads -> Calls]
  /\ \A s \in Threads : s # "pump" => thread'[s] = thread[s]
  /\ thread'["pump"].pc = pc /\ thread'["pump"].epoch = Pump.epoch
  /\ thread'["pump"].next = Pump.next /\ thread'["pump"].seq = Pump.seq
  /\ thread'["pump"].signal = Pump.signal /\ thread'["pump"].drain = Pump.drain
  /\ thread'["pump"].saw = Pump.saw

(* Goto of the pump does that.                                             *)
LEMMA PumpGoto ==
  ASSUME TypeOK, NEW pc \in Pcs, Goto("pump", pc)
  PROVE  PumpAt(pc)
<1>1. "pump" \in Threads BY DEF Threads
<1> QED BY <1>1, GotoFacts DEF PumpAt, Pump

(* A new incarnation: fresh entries, a pump that reads, a bell.            *)
LEMMA SpawnFacts ==
  ASSUME TypeOK, Spawn
  PROVE  LET e == Pump.epoch + 1 IN
         /\ Pump.pc = "off" /\ e \in Epochs
         /\ turns' \in TurnEntries /\ turns'.epoch = e /\ turns'.inTurn = FALSE
         /\ turns'.lastSeq = 0 /\ turns'.lastEnd = 0 /\ turns'.errorSeq = 0
         /\ turns'.lastEndFailed = FALSE /\ turns' # NoEntry
         /\ pend' \in PendEntries /\ pend' # NoEntry
         /\ pend'.epoch = e /\ pend'.pending = FALSE /\ pend'.lastSeq = 0
         /\ session' = e /\ bell' = TRUE
         /\ thread' \in [Threads -> Calls]
         /\ \A s \in Threads : s # "pump" => thread'[s] = thread[s]
         /\ thread'["pump"].pc = "read" /\ thread'["pump"].epoch = e
         /\ thread'["pump"].signal = "none" /\ thread'["pump"].drain = 0
         /\ thread'["pump"].saw.pending = FALSE /\ thread'["pump"].saw.seq = 0
         /\ thread'["pump"].saw.fact = NoEntry
         /\ UNCHANGED <<core, stale, sweeper, mail>>
<1> DEFINE e == Pump.epoch + 1
           a == At("read", e)
           f == Fresh(e)
           p == [epoch |-> e, pending |-> FALSE, lastSeq |-> 0]
<1>1. /\ Pump.pc = "off" /\ e \in Epochs /\ turns' = f /\ session' = e /\ bell' = TRUE
      /\ pend' = p
      /\ thread' = [thread EXCEPT !["pump"] = a]
      /\ UNCHANGED <<core, stale, sweeper, mail>>
  BY DEF Spawn
<1> HIDE DEF e
<1>2. e \in 0..MaxEpoch /\ "pump" \in Threads BY <1>1 DEF Epochs, Threads
<1>3. /\ a \in Calls /\ a.pc = "read" /\ a.epoch = e /\ a.signal = "none" /\ a.drain = 0
      /\ a.saw.pending = FALSE /\ a.saw.seq = 0 /\ a.saw.fact = NoEntry
  BY <1>2 DEF At, Blind, Calls, Signals, Acks, Pcs
<1>4. /\ f \in TurnEntries /\ f.epoch = e /\ f.inTurn = FALSE /\ f.lastSeq = 0 /\ f.lastEnd = 0
      /\ f.errorSeq = 0 /\ f.lastEndFailed = FALSE
  BY <1>1 DEF Fresh, TurnEntries
<1>5. p \in PendEntries /\ p.epoch = e /\ p.pending = FALSE /\ p.lastSeq = 0
  BY <1>1 DEF PendEntries
<1> HIDE DEF a, f, p
<1>6. /\ thread' \in [Threads -> Calls] /\ thread'["pump"] = a
      /\ \A s \in Threads : s # "pump" => thread'[s] = thread[s]
  BY <1>1, <1>2, <1>3 DEF TypeOK
<1>7. f # NoEntry /\ p # NoEntry BY <1>4, <1>5, NoEntryAssumption
<1> QED BY <1>1, <1>3, <1>4, <1>5, <1>6, <1>7 DEF e
-----------------------------------------------------------------------------
(* Each part of the invariant is preserved.                                *)

(* Types.                                                                  *)
LEMMA TypeStep ==
  ASSUME GateInv, Next
  PROVE  TypeOK'
<1> USE GateAssumption, NoEntryAssumption
<1>0. TypeOK /\ Places /\ Numbers BY DEF GateInv
<1>1. /\ turns \in TurnEntries \cup {NoEntry} /\ pend \in PendEntries \cup {NoEntry}
      /\ core \in [Epochs -> Cores] /\ thread \in [Threads -> Calls]
      /\ \A e \in Epochs : core[e].rows \cap core[e].closed = {}
      /\ session \in 0..MaxEpoch /\ stale \subseteq Epochs \X Nat
      /\ sweeper \in [pc : {"off", "swap", "wake"}, seen : SUBSET (Epochs \X Nat)]
      /\ bell \in BOOLEAN /\ mail \in BOOLEAN
      /\ "pump" \in Threads /\ "lane" \in Threads
  BY <1>0 DEF TypeOK, Threads
<1>2. ASSUME NEW t, NEW kind, NEW i, NEW next, EmitStep(t, kind, i, next)
      PROVE  TypeOK'
  <2>1. t \in Threads /\ Emitted(t, kind, next) BY <1>0, <1>2, EmitFacts
  <2> DEFINE e == thread[t].epoch
             n == core'[e].seq
  <2>2. /\ e \in Epochs /\ n \in Nat
        /\ pend' = IF core[e].rows = {} /\ core'[e].rows # {}
                   THEN PendingSet(pend, e, n, TRUE) ELSE pend
    BY <2>1 DEF Emitted
  <2>3. PendingSet(pend, e, n, TRUE) \in PendEntries \cup {NoEntry}
    BY <1>1, <2>2, PendingSetFacts
  <2>4. pend' \in PendEntries \cup {NoEntry} BY <1>1, <2>2, <2>3
  <2>5. /\ core' \in [Epochs -> Cores] /\ thread' \in [Threads -> Calls]
        /\ \A x \in Epochs : core'[x].rows \cap core'[x].closed = {}
    BY <1>1, <2>1 DEF Emitted
  <2>6. UNCHANGED <<turns, session, stale, sweeper, bell, mail>> BY <1>2 DEF EmitStep
  <2> QED BY <1>1, <2>4, <2>5, <2>6 DEF TypeOK
<1>3. ASSUME NEW t \in Threads, Observe(t)
      PROVE  TypeOK'
  BY <1>0, <1>1, <1>3, ObserveFacts DEF TypeOK
<1>4. ASSUME NEW t \in Threads, Recheck(t)
      PROVE  TypeOK'
  <2>1. turns' = turns \/ turns' = NoEntry
    BY <1>4 DEF Recheck, Forgotten
  <2>2. UNCHANGED <<pend, core, session, stale, sweeper, mail>> BY <1>4 DEF Recheck
  <2>3. thread' \in [Threads -> Calls] /\ bell' \in BOOLEAN BY <1>0, <1>4, RecheckFacts
  <2> QED BY <1>1, <2>1, <2>2, <2>3 DEF TypeOK
<1>5. ASSUME NEW t \in Threads, WriteDrained(t)
      PROVE  TypeOK'
  <2>1. /\ pend' = PendingSet(pend, thread[t].epoch, thread[t].drain, FALSE)
        /\ thread' \in [Threads -> Calls]
        /\ UNCHANGED <<turns, core, session, stale, sweeper, bell, mail>>
    BY <1>0, <1>5, WriteDrainedFacts
  <2>2. thread[t].drain \in Nat /\ thread[t].epoch \in Epochs \cup {0}
    BY <1>1 DEF Calls, Epochs
  <2>3. pend' \in PendEntries \cup {NoEntry}
    BY <1>1, <2>1, <2>2 DEF PendingSet, PendEntries
  <2> QED BY <1>1, <2>1, <2>3 DEF TypeOK
<1>6. ASSUME NEW t \in Threads, InputsDrained(t)
      PROVE  TypeOK'
  BY <1>0, <1>1, <1>6, InputsDrainedFacts DEF TypeOK
<1>7. ASSUME NEW i \in Inputs, InputMove(i)
      PROVE  TypeOK'
  <2>1. InputMoved(i) BY <1>0, <1>7, InputMoveFacts
  <2> QED BY <1>1, <2>1 DEF InputMoved, Moved, SameOutput, TypeOK
<1>8. CASE LaneMove
  <2>1. LaneMoved BY <1>0, <1>8, LaneMoveFacts
  <2>2. bell' \in BOOLEAN /\ mail' \in BOOLEAN
    BY <1>1, <2>1 DEF LaneMoved
  <2> QED BY <1>1, <2>1, <2>2 DEF LaneMoved, Moved, TypeOK
<1>9. CASE MailArrives
  BY <1>1, <1>9 DEF MailArrives, TypeOK
<1>10. CASE PumpAckAvailable
  <2>1. SameOutput /\ core' \in [Epochs -> Cores] BY <1>0, <1>10, AckFacts
  <2> QED BY <1>1, <1>10, <2>1 DEF PumpAckAvailable, SameOutput, TypeOK
<1>11. CASE PumpJudges
  <2>1. SameOutput /\ core' \in [Epochs -> Cores] BY <1>0, <1>11, AckFacts
  <2>2. PumpAt("judge") BY <1>0, <1>11, PumpGoto DEF PumpJudges, Pcs
  <2> QED BY <1>1, <1>11, <2>1, <2>2 DEF PumpJudges, SameOutput, TypeOK, PumpAt
<1>12. CASE Finalize
  <2>1. PumpAt("seal") BY <1>0, <1>12, PumpGoto DEF Finalize, Pcs
  <2>2. /\ core' \in [Epochs -> Cores]
        /\ \A x \in Epochs : core'[x].rows = core[x].rows /\ core'[x].closed = core[x].closed
    BY <1>0, <1>12, FinalizeFacts
  <2> QED BY <1>1, <1>12, <2>1, <2>2 DEF Finalize, TypeOK, PumpAt
<1>13. CASE Seal
  <2>1. PumpAt("reapTurns") BY <1>0, <1>13, PumpGoto DEF Seal, Pcs
  <2>2. /\ core' \in [Epochs -> Cores]
        /\ \A x \in Epochs : core'[x].rows \cap core'[x].closed = {}
    BY <1>0, <1>1, <1>13, SealFacts
  <2> QED BY <1>1, <1>13, <2>1, <2>2 DEF Seal, TypeOK, PumpAt
<1>14. CASE ReapTurns
  <2>1. PumpAt("reapPending") BY <1>0, <1>14, PumpGoto DEF ReapTurns, Pcs
  <2> QED BY <1>1, <1>14, <2>1 DEF ReapTurns, Forgotten, TypeOK, PumpAt
<1>15. CASE ReapPending
  <2>1. PumpAt("dead") BY <1>0, <1>15, PumpGoto DEF ReapPending, Pcs
  <2> QED BY <1>1, <1>15, <2>1 DEF ReapPending, Forgotten, TypeOK, PumpAt
<1>16. CASE Reap
  <2>1. PumpAt("off") BY <1>0, <1>16, PumpGoto DEF Reap, Pcs
  <2> QED BY <1>1, <1>16, <2>1 DEF Reap, TypeOK, PumpAt
<1>17. CASE Spawn
  <2>1. Pump.epoch + 1 \in 0..MaxEpoch BY <1>0, <1>17, SpawnFacts DEF Epochs
  <2> QED BY <1>0, <1>1, <1>17, <2>1, SpawnFacts DEF TypeOK
<1>18. CASE SweepStep
  <2>1. UNCHANGED <<turns, pend, core, thread, session, mail>>
    BY <1>18 DEF SweepStep, SweepRead, SweepSwap, SweepWake
  <2>2. RunningTurn \subseteq Epochs \X Nat
    BY <1>1 DEF RunningTurn, TurnEntries
  <2>3. ASSUME NEW aged, SweepRead(aged) PROVE TypeOK'
    BY <1>1, <2>1, <2>2, <2>3 DEF SweepRead, TypeOK
  <2>4. ASSUME SweepSwap PROVE TypeOK'
    BY <1>1, <2>1, <2>4 DEF SweepSwap, TypeOK
  <2>5. ASSUME SweepWake PROVE TypeOK'
    BY <1>1, <2>1, <2>5 DEF SweepWake, TypeOK
  <2> QED BY <1>18, <2>3, <2>4, <2>5 DEF SweepStep
<1> QED
  BY <1>2, <1>3, <1>4, <1>5, <1>6, <1>7, <1>8, <1>9, <1>10, <1>11, <1>12, <1>13, <1>14,
     <1>15, <1>16, <1>17, <1>18, Steps
(* The record of a thread that has just emitted.                           *)
LEMMA EmittedThread ==
  ASSUME TypeOK, NEW t \in Threads, NEW kind, NEW next \in Pcs \ Emitting, Emitted(t, kind, next)
  PROVE  LET e == thread[t].epoch
             n == core'[e].seq
             drained == core[e].rows # {} /\ core'[e].rows = {}
             sig == Classify(kind)
             new == thread'[t]
         IN  /\ new.pc = IF sig # "none" THEN "observe" ELSE IF drained THEN "drain" ELSE next
             /\ new.epoch = IF sig = "none" /\ ~drained /\ next \in {"off", "done"} THEN 0 ELSE e
             /\ new.next = next /\ new.signal = sig
             /\ new.pc = "observe" => new.seq = n
             /\ new.drain = IF drained THEN n ELSE 0
             /\ new.saw.pending = FALSE /\ new.saw.seq = 0 /\ new.saw.fact = NoEntry
<1> DEFINE e == thread[t].epoch
           n == core'[e].seq
           drained == core[e].rows # {} /\ core'[e].rows = {}
           sig == Classify(kind)
           new == thread'[t]
<1>1. e \in Epochs /\ n \in Nat /\ sig \in Signals BY DEF Emitted
<1>2. Blind.pending = FALSE /\ Blind.seq = 0 /\ Blind.fact = NoEntry BY DEF Blind
<1>3. e \in 0..MaxEpoch /\ 0 \in 0..MaxEpoch BY <1>1, GateAssumption DEF Epochs
<1>4. CASE sig = "none" /\ ~drained
  <2>1. new = At(next, IF next \in {"off", "done"} THEN 0 ELSE e) BY <1>4 DEF Emitted
  <2>2. next # "observe" BY DEF Emitting
  <2>3. /\ new.pc = next /\ new.epoch = IF next \in {"off", "done"} THEN 0 ELSE e
        /\ new.next = next /\ new.signal = "none" /\ new.drain = 0 /\ new.saw = Blind
    BY <2>1 DEF At
  <2> QED BY <1>2, <1>4, <2>2, <2>3
<1>5. CASE ~(sig = "none" /\ ~drained)
  <2> DEFINE pc == IF sig = "none" THEN "drain" ELSE "observe"
             dr == IF drained THEN n ELSE 0
  <2>1. new = Posted(pc, e, next, n, sig, dr) BY <1>5 DEF Emitted
  <2>2. pc \in Pcs /\ dr \in Nat BY <1>1 DEF Pcs
  <2> HIDE DEF pc, dr, e, n, sig, new
  <2>3. LET p == Posted(pc, e, next, n, sig, dr) IN
        /\ p.pc = pc /\ p.epoch = e /\ p.next = next /\ p.seq = n /\ p.signal = sig
        /\ p.drain = dr /\ p.saw = Blind
    BY ONLY next \in Pcs \ Emitting, <1>1, <1>3, <2>2, PostedType
  <2>4. /\ new.pc = pc /\ new.epoch = e /\ new.next = next /\ new.seq = n /\ new.signal = sig
        /\ new.drain = dr /\ new.saw = Blind
    BY ONLY <2>1, <2>3
  <2> QED BY <1>2, <1>5, <2>4 DEF pc, dr, e, n, sig, new
<1> QED BY <1>4, <1>5
(* Places of the threads.                                                  *)
LEMMA PlacesStep ==
  ASSUME GateInv, Next
  PROVE  Places'
<1> USE GateAssumption, NoEntryAssumption
<1>0. TypeOK /\ Places /\ Numbers /\ Incarnations BY DEF GateInv
<1>1. /\ thread \in [Threads -> Calls] /\ "pump" \in Threads /\ "lane" \in Threads
      /\ \A i \in Inputs : i \in Threads /\ i # "pump" /\ i # "lane"
      /\ \A t \in Threads : t \in Inputs \/ t = "pump" \/ t = "lane"
      /\ Pump = thread["pump"] /\ Lane = thread["lane"]
      /\ Pump' = thread'["pump"] /\ Lane' = thread'["lane"]
      /\ \A t \in Threads : thread[t].epoch \in Nat
      /\ session \in Nat
  BY <1>0 DEF TypeOK, Threads, Pump, Lane, Calls
<1>2. ASSUME NEW t, NEW kind, NEW i, NEW next, EmitStep(t, kind, i, next)
      PROVE  Places'
  <2>1. t \in Threads /\ next \in Pcs \ Emitting /\ Emitted(t, kind, next) BY <1>0, <1>2, EmitFacts
  <2> DEFINE e == thread[t].epoch
             drained == core[e].rows # {} /\ core'[e].rows = {}
             sig == Classify(kind)
             new == thread'[t]
  <2>2. /\ new.pc = IF sig # "none" THEN "observe" ELSE IF drained THEN "drain" ELSE next
        /\ new.epoch = IF sig = "none" /\ ~drained /\ next \in {"off", "done"} THEN 0 ELSE e
        /\ new.next = next /\ new.signal = sig
        /\ new.saw.pending = FALSE /\ new.saw.seq = 0 /\ new.saw.fact = NoEntry
    BY <1>0, <2>1, EmittedThread, ZenonT(60)
  <2>3. e \in Epochs /\ e \in Nat /\ e # 0 /\ (\A s \in Threads : s # t => thread'[s] = thread[s])
    BY <2>1, SMTT(30) DEF Emitted, Epochs
  <2>4. MayEmit(t, kind, i, next) BY <1>2 DEF EmitStep
  <2> HIDE DEF drained
  <2>5. CASE t = "pump"
    <3>1. /\ next \in {"read", "result"} /\ (sig = "Failed" => next = "result")
      BY <1>1, <2>4, <2>5 DEF MayEmit, Classify
    <3>2. /\ new.pc \in {"observe", "drain", "read", "result"} /\ new.epoch = e
          /\ sig # "none" => new.pc = "observe"
      BY <2>2, <3>1
    <3>3. Pump'.epoch = Pump.epoch BY <1>1, <2>5, <3>2
    <3> HIDE DEF new, e
    <3>4. sig = "Failed" => sig # "none" OBVIOUS
    <3>5. IsEnd(sig) => sig # "none" BY DEF IsEnd
    <3> QED
      BY <1>0, <1>1, <2>2, <2>3, <2>5, <3>1, <3>2, <3>3, <3>4, <3>5
      DEF Places, Emitting, new, e
  <2>6. CASE t \in Inputs
    <3>1. next \in {"done", "writeQueued"} /\ sig \in {"none", "Progress"}
          /\ thread[t].pc \notin {"off", "done"}
      BY <1>1, <2>4, <2>6 DEF MayEmit, Classify
    <3>2. /\ new.pc \in {"observe", "drain", "done", "writeQueued"}
          /\ new.epoch = 0 <=> new.pc \in {"off", "done"}
          /\ new.epoch \in {0, e}
      BY <2>2, <2>3, <3>1
    <3>3. Pump' = Pump /\ Lane' = Lane BY <1>1, <2>3, <2>6
    <3> HIDE DEF new, e, sig
    <3> QED
      BY <1>0, <1>1, <2>2, <2>3, <2>6, <3>1, <3>2, <3>3
      DEF Places, Emitting, new, e
  <2>7. CASE t = "lane"
    <3>1. next = "off" /\ sig = "Progress"
      BY <1>1, <2>4, <2>7 DEF MayEmit, Classify
    <3>2. new.pc = "observe" /\ new.epoch = e
      BY <2>2, <2>3, <3>1
    <3>3. Pump' = Pump BY <1>1, <2>3, <2>7
    <3> HIDE DEF new, e, sig
    <3> QED
      BY <1>0, <1>1, <2>2, <2>3, <2>7, <3>1, <3>2, <3>3
      DEF Places, Emitting, new, e
  <2> QED BY <1>1, <2>1, <2>5, <2>6, <2>7
<1>3. ASSUME NEW t \in Threads, Observe(t)
      PROVE  Places'
  <2>1. /\ thread[t].pc = "observe" /\ \A s \in Threads : s # t => thread'[s] = thread[s]
        /\ thread'[t].pc = "recheck" /\ thread'[t].epoch = thread[t].epoch
        /\ thread'[t].next = thread[t].next
        /\ thread'[t].signal = thread[t].signal
        /\ thread'[t].saw = thread[t].saw
    BY <1>0, <1>3, ObserveFacts
  <2>2. \A s \in Threads : thread'[s].epoch = thread[s].epoch BY <2>1
  <2> QED BY <1>0, <1>1, <2>1, <2>2 DEF Places, Emitting
<1>4. ASSUME NEW t \in Threads, Recheck(t)
      PROVE  Places'
  <2>1. /\ thread[t].pc = "recheck" /\ \A s \in Threads : s # t => thread'[s] = thread[s]
        /\ \/ /\ thread'[t].pc = "drain"
              /\ thread'[t].epoch = thread[t].epoch /\ thread'[t].next = thread[t].next
              /\ thread'[t].signal = thread[t].signal
              /\ thread'[t].saw = thread[t].saw
           \/ /\ thread'[t].pc = thread[t].next
              /\ thread'[t].epoch = IF thread[t].next \in {"off", "done"} THEN 0
                                    ELSE thread[t].epoch
              /\ thread'[t].signal = "none"
              /\ thread'[t].saw.pending = FALSE
              /\ thread'[t].saw.fact = NoEntry
    BY <1>0, <1>4, RecheckFacts
  <2>2. Pump'.epoch = Pump.epoch /\ thread[t].pc \in Emitting
    BY <1>0, <1>1, <2>1 DEF Places, Emitting
  <2>3. /\ \A s \in Threads : thread'[s].epoch \in {thread[s].epoch, 0}
        /\ ~IsEnd("none")
    BY <2>1 DEF IsEnd
  <2>4. CASE t = "pump"
    <3>1. Pump.next \in {"read", "result"} BY <1>0, <1>1, <2>2, <2>4 DEF Places
    <3>2. /\ Pump'.pc \in {"drain", "read", "result"}
          /\ Pump'.pc = "drain" => Pump'.next = Pump.next /\ Pump'.signal = Pump.signal
          /\ Pump'.pc # "drain" => Pump'.signal = "none"
          /\ Pump'.saw.fact # NoEntry => Pump.saw.fact # NoEntry /\ Pump'.saw = Pump.saw
      BY <1>1, <2>1, <2>4, <3>1
    <3>3. Lane' = Lane /\ (\A i \in Inputs : thread'[i] = thread[i]) BY <1>1, <2>1, <2>4
    <3>4. Pump.epoch # 0 /\ (Pump.signal = "Failed" => Pump.next = "result")
      BY <1>0, <1>1, <2>1, <2>4 DEF Places
    <3>5. \A s \in Threads : /\ thread'[s].epoch <= Pump'.epoch
                             /\ s # "pump" => thread'[s].signal \in {"none", "Progress"}
                             /\ s # "pump" /\ thread'[s].saw.fact # NoEntry =>
                                  /\ thread'[s].epoch # 0
                                  /\ thread'[s].pc \notin {"readPending", "readTurn"}
      BY <1>0, <1>1, <2>1, <2>2, <2>3, <2>4 DEF Places
    <3>7. \A s \in Threads : thread'[s].saw.fact # NoEntry =>
                                  /\ thread'[s].epoch # 0
                                  /\ thread'[s].pc \notin {"readPending", "readTurn"}
      BY <1>1, <2>2, <3>2, <3>4, <3>5
    <3>8. /\ Pump'.pc \in {"read", "result", "judge"} \cup Emitting \cup Finished
          /\ Pump'.pc \in Emitting => Pump'.next \in {"read", "result"}
          /\ Pump'.signal = "Failed" => Pump'.pc \in Emitting /\ Pump'.next = "result"
          /\ IsEnd(Pump'.signal) => Pump'.pc \in Emitting
          /\ Pump'.pc # "off" => Pump'.epoch # 0
      BY <2>2, <2>3, <3>1, <3>2, <3>4 DEF Emitting
    <3>9. /\ Lane'.pc \in {"off", "readPending", "readTurn", "judge", "inject", "echo"} \cup Emitting
          /\ Lane'.pc \in Emitting => Lane'.next = "off"
          /\ Lane'.epoch = 0 <=> Lane'.pc = "off"
      BY <1>0, <3>3 DEF Places
    <3>6. \A i \in Inputs :
            /\ thread'[i].pc \in {"off", "readPending", "readTurn", "write", "writeIdle", "echo",
                                  "queue", "list", "writeQueued", "reject", "done"} \cup Emitting
            /\ thread'[i].pc \in Emitting => thread'[i].next \in {"done", "writeQueued"}
            /\ thread'[i].epoch = 0 <=> thread'[i].pc \in {"off", "done"}
            /\ thread'[i].saw.pending = FALSE
      BY <1>0, <3>3 DEF Places
    <3> QED BY <3>5, <3>6, <3>7, <3>8, <3>9 DEF Places
  <2>5. CASE t \in Inputs
    <3>1. thread[t].next \in {"done", "writeQueued"} BY <1>0, <1>1, <2>2, <2>5 DEF Places
    <3> QED BY <1>0, <1>1, <2>1, <2>2, <2>3, <2>5, <3>1 DEF Places, Emitting
  <2>6. CASE t = "lane"
    <3>1. Lane.next = "off" BY <1>0, <1>1, <2>2, <2>6 DEF Places
    <3>2. /\ Lane'.pc \in {"drain", "off"}
          /\ Lane'.pc = "drain" => Lane'.next = "off" /\ Lane'.epoch = Lane.epoch
          /\ Lane'.pc # "drain" => Lane'.epoch = 0
      BY <1>1, <2>1, <2>6, <3>1
    <3>3. Pump' = Pump /\ (\A i \in Inputs : thread'[i] = thread[i]) BY <1>1, <2>1, <2>6
    <3>4. Lane.epoch # 0 BY <1>0, <1>1, <2>1, <2>6 DEF Places
    <3>5. \A s \in Threads : /\ thread'[s].epoch <= Pump'.epoch
                             /\ s # "pump" => thread'[s].signal \in {"none", "Progress"}
                             /\ thread'[s].saw.fact # NoEntry =>
                                  /\ thread'[s].epoch # 0
                                  /\ thread'[s].pc \notin {"readPending", "readTurn"}
      BY <1>0, <1>1, <2>1, <2>2, <2>3, <2>6, <3>1 DEF Places
    <3> QED BY <1>0, <1>1, <2>2, <2>3, <3>2, <3>3, <3>4, <3>5 DEF Places, Emitting
  <2> QED BY <1>1, <2>4, <2>5, <2>6
<1>5. ASSUME NEW t \in Threads, WriteDrained(t)
      PROVE  Places'
  <2>1. /\ thread[t].pc = "drain" /\ \A s \in Threads : s # t => thread'[s] = thread[s]
        /\ thread'[t].pc = "drained" /\ thread'[t].epoch = thread[t].epoch
        /\ thread'[t].next = thread[t].next
        /\ thread'[t].signal = thread[t].signal
        /\ thread'[t].saw = thread[t].saw
    BY <1>0, <1>5, WriteDrainedFacts
  <2>2. \A s \in Threads : thread'[s].epoch = thread[s].epoch BY <2>1
  <2> QED BY <1>0, <1>1, <2>1, <2>2 DEF Places, Emitting
<1>6. ASSUME NEW t \in Threads, InputsDrained(t)
      PROVE  Places'
  <2>1. /\ thread[t].pc = "drained" /\ \A s \in Threads : s # t => thread'[s] = thread[s]
        /\ thread'[t].pc = thread[t].next
        /\ thread'[t].epoch = IF thread[t].next \in {"off", "done"} THEN 0
                              ELSE thread[t].epoch
        /\ thread'[t].signal = "none"
        /\ thread'[t].saw.pending = FALSE
        /\ thread'[t].saw.fact = NoEntry
    BY <1>0, <1>6, InputsDrainedFacts
  <2>2. Pump'.epoch = Pump.epoch /\ thread[t].pc \in Emitting
    BY <1>0, <1>1, <2>1 DEF Places, Emitting
  <2>3. /\ \A s \in Threads : thread'[s].epoch \in {thread[s].epoch, 0}
        /\ ~IsEnd("none")
    BY <2>1 DEF IsEnd
  <2>4. CASE t = "pump"
    <3>1. Pump.next \in {"read", "result"} BY <1>0, <1>1, <2>2, <2>4 DEF Places
    <3>2. /\ Pump'.pc \in {"drain", "read", "result"}
          /\ Pump'.pc = "drain" => Pump'.next = Pump.next /\ Pump'.signal = Pump.signal
          /\ Pump'.pc # "drain" => Pump'.signal = "none"
          /\ Pump'.saw.fact # NoEntry => Pump.saw.fact # NoEntry /\ Pump'.saw = Pump.saw
      BY <1>1, <2>1, <2>4, <3>1
    <3>3. Lane' = Lane /\ (\A i \in Inputs : thread'[i] = thread[i]) BY <1>1, <2>1, <2>4
    <3>4. Pump.epoch # 0 /\ (Pump.signal = "Failed" => Pump.next = "result")
      BY <1>0, <1>1, <2>1, <2>4 DEF Places
    <3>5. \A s \in Threads : /\ thread'[s].epoch <= Pump'.epoch
                             /\ s # "pump" => thread'[s].signal \in {"none", "Progress"}
                             /\ s # "pump" /\ thread'[s].saw.fact # NoEntry =>
                                  /\ thread'[s].epoch # 0
                                  /\ thread'[s].pc \notin {"readPending", "readTurn"}
      BY <1>0, <1>1, <2>1, <2>2, <2>3, <2>4 DEF Places
    <3>7. \A s \in Threads : thread'[s].saw.fact # NoEntry =>
                                  /\ thread'[s].epoch # 0
                                  /\ thread'[s].pc \notin {"readPending", "readTurn"}
      BY <1>1, <2>2, <3>2, <3>4, <3>5
    <3>8. /\ Pump'.pc \in {"read", "result", "judge"} \cup Emitting \cup Finished
          /\ Pump'.pc \in Emitting => Pump'.next \in {"read", "result"}
          /\ Pump'.signal = "Failed" => Pump'.pc \in Emitting /\ Pump'.next = "result"
          /\ IsEnd(Pump'.signal) => Pump'.pc \in Emitting
          /\ Pump'.pc # "off" => Pump'.epoch # 0
      BY <2>2, <2>3, <3>1, <3>2, <3>4 DEF Emitting
    <3>9. /\ Lane'.pc \in {"off", "readPending", "readTurn", "judge", "inject", "echo"} \cup Emitting
          /\ Lane'.pc \in Emitting => Lane'.next = "off"
          /\ Lane'.epoch = 0 <=> Lane'.pc = "off"
      BY <1>0, <3>3 DEF Places
    <3>6. \A i \in Inputs :
            /\ thread'[i].pc \in {"off", "readPending", "readTurn", "write", "writeIdle", "echo",
                                  "queue", "list", "writeQueued", "reject", "done"} \cup Emitting
            /\ thread'[i].pc \in Emitting => thread'[i].next \in {"done", "writeQueued"}
            /\ thread'[i].epoch = 0 <=> thread'[i].pc \in {"off", "done"}
            /\ thread'[i].saw.pending = FALSE
      BY <1>0, <3>3 DEF Places
    <3> QED BY <3>5, <3>6, <3>7, <3>8, <3>9 DEF Places
  <2>5. CASE t \in Inputs
    <3>1. thread[t].next \in {"done", "writeQueued"} BY <1>0, <1>1, <2>2, <2>5 DEF Places
    <3> QED BY <1>0, <1>1, <2>1, <2>2, <2>3, <2>5, <3>1 DEF Places, Emitting
  <2>6. CASE t = "lane"
    <3>1. Lane.next = "off" BY <1>0, <1>1, <2>2, <2>6 DEF Places
    <3>2. /\ Lane'.pc \in {"drain", "off"}
          /\ Lane'.pc = "drain" => Lane'.next = "off" /\ Lane'.epoch = Lane.epoch
          /\ Lane'.pc # "drain" => Lane'.epoch = 0
      BY <1>1, <2>1, <2>6, <3>1
    <3>3. Pump' = Pump /\ (\A i \in Inputs : thread'[i] = thread[i]) BY <1>1, <2>1, <2>6
    <3>4. Lane.epoch # 0 BY <1>0, <1>1, <2>1, <2>6 DEF Places
    <3>5. \A s \in Threads : /\ thread'[s].epoch <= Pump'.epoch
                             /\ s # "pump" => thread'[s].signal \in {"none", "Progress"}
                             /\ thread'[s].saw.fact # NoEntry =>
                                  /\ thread'[s].epoch # 0
                                  /\ thread'[s].pc \notin {"readPending", "readTurn"}
      BY <1>0, <1>1, <2>1, <2>2, <2>3, <2>6, <3>1 DEF Places
    <3> QED BY <1>0, <1>1, <2>2, <2>3, <3>2, <3>3, <3>4, <3>5 DEF Places, Emitting
  <2> QED BY <1>1, <2>4, <2>5, <2>6
<1>7. ASSUME NEW i \in Inputs, InputMove(i)
      PROVE  Places'
  <2>1. InputMoved(i) BY <1>0, <1>7, InputMoveFacts
  <2>2. /\ \A s \in Threads : s # i => thread'[s] = thread[s]
        /\ thread'[i].signal \in {thread[i].signal, "none"}
    BY <2>1 DEF InputMoved, Moved
  <2>3. Pump' = Pump /\ Lane' = Lane BY <1>1, <2>2
  <2>4. Blind.pending = FALSE /\ Blind.fact = NoEntry BY DEF Blind
  <2>5. session <= Pump.epoch BY <1>0, <1>1 DEF Incarnations
  <2>6. /\ thread'[i].pc \in {"readPending", "readTurn", "write", "writeIdle", "echo",
                              "queue", "list", "reject", "done"}
        /\ thread'[i].epoch = 0 <=> thread'[i].pc \in {"off", "done"}
        /\ thread'[i].saw.pending = FALSE
        /\ thread'[i].epoch <= Pump.epoch
        /\ thread'[i].saw.fact # NoEntry => thread'[i].epoch # 0
                                            /\ thread'[i].pc \notin {"readPending", "readTurn"}
    BY <1>0, <1>1, <2>1, <2>4, <2>5 DEF Places, InputMoved
  <2> QED BY <1>0, <1>1, <2>2, <2>3, <2>6 DEF Places, Emitting
<1>8. CASE LaneMove
  <2>1. LaneMoved BY <1>0, <1>8, LaneMoveFacts
  <2>2. /\ \A s \in Threads : s # "lane" => thread'[s] = thread[s]
        /\ thread'["lane"].signal \in {thread["lane"].signal, "none"}
    BY <2>1 DEF LaneMoved, Moved
  <2>3. Pump' = Pump BY <1>1, <2>2
  <2>4. Blind.pending = FALSE /\ Blind.fact = NoEntry BY DEF Blind
  <2>5. session <= Pump.epoch BY <1>0, <1>1 DEF Incarnations
  <2>6. /\ Lane'.pc \in {"off", "readPending", "readTurn", "judge", "inject", "echo"}
        /\ Lane'.epoch = 0 <=> Lane'.pc = "off"
        /\ Lane'.epoch <= Pump.epoch
        /\ Lane'.saw.fact # NoEntry => Lane'.epoch # 0
                                       /\ Lane'.pc \notin {"readPending", "readTurn"}
    BY <1>0, <1>1, <2>1, <2>4, <2>5 DEF Places, LaneMoved
  <2> QED BY <1>0, <1>1, <2>2, <2>3, <2>6 DEF Places, Emitting
<1>9. CASE UNCHANGED thread
  BY <1>0, <1>9 DEF Places, Pump, Lane
<1>10. CASE MailArrives \/ PumpAckAvailable \/ SweepStep
  BY <1>9, <1>10 DEF MailArrives, PumpAckAvailable, SweepStep, SweepRead, SweepSwap, SweepWake
<1>11. ASSUME NEW pc \in {"judge"} \cup Finished, Pump.pc \notin Emitting, Pump.pc # "off",
              PumpAt(pc)
       PROVE  Places'
  <2>1. \A s \in Threads : thread'[s].epoch = thread[s].epoch BY <1>1, <1>11 DEF PumpAt
  <2> QED BY <1>0, <1>1, <1>11, <2>1 DEF Places, PumpAt, Emitting, Finished
<1>12. CASE PumpJudges
  <2>1. PumpAt("judge") /\ Pump.pc = "read" BY <1>0, <1>12, PumpGoto DEF PumpJudges, Pcs, Reading
  <2> QED BY <1>11, <2>1 DEF Emitting
<1>13. CASE Finalize
  <2>1. PumpAt("seal") /\ Pump.pc = "read" BY <1>0, <1>13, PumpGoto DEF Finalize, Pcs, Reading
  <2> QED BY <1>11, <2>1 DEF Emitting, Finished
<1>14. CASE Seal
  <2>1. PumpAt("reapTurns") /\ Pump.pc = "seal" BY <1>0, <1>14, PumpGoto DEF Seal, Pcs
  <2> QED BY <1>11, <2>1 DEF Emitting, Finished
<1>15. CASE ReapTurns
  <2>1. PumpAt("reapPending") /\ Pump.pc = "reapTurns" BY <1>0, <1>15, PumpGoto DEF ReapTurns, Pcs
  <2> QED BY <1>11, <2>1 DEF Emitting, Finished
<1>16. CASE ReapPending
  <2>1. PumpAt("dead") /\ Pump.pc = "reapPending" BY <1>0, <1>16, PumpGoto DEF ReapPending, Pcs
  <2> QED BY <1>11, <2>1 DEF Emitting, Finished
<1>17. CASE Reap
  <2>1. PumpAt("off") /\ Pump.pc = "dead" BY <1>0, <1>17, PumpGoto DEF Reap, Pcs
  <2> QED BY <1>11, <2>1 DEF Emitting, Finished
<1>18. CASE Spawn
  <2>1. /\ \A s \in Threads : s # "pump" => thread'[s] = thread[s]
        /\ Pump'.pc = "read" /\ Pump'.epoch = Pump.epoch + 1
        /\ Pump'.signal = "none" /\ Pump'.saw.fact = NoEntry
    BY <1>0, <1>1, <1>18, SpawnFacts
  <2>2. ~IsEnd("none") BY DEF IsEnd
  <2>3. \A s \in Threads : thread'[s].epoch <= Pump'.epoch
    BY <1>0, <1>1, <2>1 DEF Places
  <2> QED BY <1>0, <1>1, <2>1, <2>2, <2>3 DEF Places, Emitting
<1> QED
  BY <1>2, <1>3, <1>4, <1>5, <1>6, <1>7, <1>8, <1>10, <1>12, <1>13, <1>14, <1>15, <1>16,
     <1>17, <1>18, Steps

(* Every thread is the pump, an input or the lane, and has a record of the *)
(* right shape.                                                            *)
LEMMA Cast ==
  ASSUME TypeOK, Places
  PROVE  /\ thread \in [Threads -> Calls] /\ "pump" \in Threads /\ "lane" \in Threads
         /\ \A i \in Inputs : i \in Threads /\ i # "pump" /\ i # "lane"
         /\ \A t \in Threads : t \in Inputs \/ t = "pump" \/ t = "lane"
         /\ Pump = thread["pump"] /\ Lane = thread["lane"]
         /\ Pump' = thread'["pump"] /\ Lane' = thread'["lane"]
         /\ \A t \in Threads : /\ thread[t].epoch \in Nat /\ thread[t].seq \in Nat
                               /\ thread[t].drain \in Nat /\ thread[t].saw.seq \in Nat
                               /\ thread[t].epoch <= Pump.epoch
                               /\ thread[t].epoch # 0 => thread[t].epoch \in Epochs
                               /\ thread[t].pc \in Emitting =>
                                    /\ thread[t].epoch \in Epochs
                                    /\ thread[t].next \notin Emitting
                                    /\ thread[t].next \in {"read", "result", "done",
                                                          "writeQueued", "off"}
         /\ Pump.epoch \in Nat /\ Pump.epoch \in 0..MaxEpoch
         /\ Pump.pc \notin {"off"} => Pump.epoch \in Epochs
         /\ \A e \in Epochs : e \in Nat /\ e # 0 /\ core[e] \in Cores /\ core[e].seq \in Nat
                              /\ core[e].started \in Nat
         /\ turns # NoEntry => /\ turns \in TurnEntries /\ turns.epoch \in Epochs
                               /\ turns.lastSeq \in Nat /\ turns.lastEnd \in Nat
                               /\ turns.errorSeq \in Nat
         /\ pend # NoEntry => /\ pend \in PendEntries /\ pend.epoch \in Epochs
                              /\ pend.lastSeq \in Nat
<1> USE GateAssumption
<1>1. /\ thread \in [Threads -> Calls] /\ "pump" \in Threads /\ "lane" \in Threads
      /\ \A i \in Inputs : i \in Threads /\ i # "pump" /\ i # "lane"
      /\ \A t \in Threads : t \in Inputs \/ t = "pump" \/ t = "lane"
      /\ Pump = thread["pump"] /\ Lane = thread["lane"]
      /\ Pump' = thread'["pump"] /\ Lane' = thread'["lane"]
  BY DEF TypeOK, Threads, Pump, Lane
<1>2. \A t \in Threads : /\ thread[t].epoch \in 0..MaxEpoch /\ thread[t].seq \in Nat
                         /\ thread[t].drain \in Nat /\ thread[t].saw.seq \in Nat
                         /\ thread[t].epoch \in Nat
                         /\ thread[t].epoch # 0 => thread[t].epoch \in Epochs
  BY <1>1 DEF Calls, Epochs
<1>3. \A e \in Epochs : e \in Nat /\ e # 0 /\ core[e] \in Cores /\ core[e].seq \in Nat
                        /\ core[e].started \in Nat
  BY DEF TypeOK, Cores, Epochs
<1>4. /\ turns # NoEntry => /\ turns \in TurnEntries /\ turns.epoch \in Epochs
                            /\ turns.lastSeq \in Nat /\ turns.lastEnd \in Nat
                            /\ turns.errorSeq \in Nat
      /\ pend # NoEntry => /\ pend \in PendEntries /\ pend.epoch \in Epochs
                           /\ pend.lastSeq \in Nat
  BY DEF TypeOK, TurnEntries, PendEntries
<1>5. ASSUME NEW t \in Threads
      PROVE  /\ thread[t].epoch <= Pump.epoch
             /\ thread[t].pc \in Emitting =>
                  /\ thread[t].epoch # 0
                  /\ thread[t].next \notin Emitting
                  /\ thread[t].next \in {"read", "result", "done", "writeQueued", "off"}
  <2>1. CASE t = "pump" BY <1>1, <2>1 DEF Places, Emitting
  <2>2. CASE t \in Inputs BY <1>1, <2>2 DEF Places, Emitting
  <2>3. CASE t = "lane" BY <1>1, <2>3 DEF Places, Emitting
  <2> QED BY <1>1, <2>1, <2>2, <2>3
<1>6. Pump.pc # "off" => Pump.epoch # 0 BY DEF Places
<1> QED BY <1>1, <1>2, <1>3, <1>4, <1>5, <1>6

(* No thread begins, ends or moves on in an emission. *)
Quiet ==
  \A t \in Threads :
    thread[t].pc \in Emitting \/ thread'[t].pc \in Emitting => thread'[t] = thread[t]

(* Nothing happens to the pump's incarnation, nor to the finish of one. *)
Steady ==
  /\ Pump'.epoch = Pump.epoch /\ session' = session
  /\ Pump.pc \in Finished \/ Pump'.pc \in Finished => Pump'.pc = Pump.pc
  /\ \A e \in Epochs :
       /\ core'[e].finalized = core[e].finalized /\ core'[e].sealed = core[e].sealed
       /\ core'[e].seq \in Nat /\ core'[e].seq >= core[e].seq
       /\ core[e].sealed => core'[e].rows \subseteq core[e].rows
       /\ e > Pump.epoch => core'[e] = core[e]

(* Moves that leave the tables and the output alone. *)
PlainMove ==
  \/ \E i \in Inputs : InputMove(i)
  \/ LaneMove \/ MailArrives \/ PumpAckAvailable \/ PumpJudges

Plain ==
  /\ Quiet /\ Steady /\ SameOutput /\ core' \in [Epochs -> Cores]
  /\ UNCHANGED <<turns, pend, stale, sweeper>>
  /\ Pump' = Pump \/ (Pump.pc = "read" /\ PumpAt("judge"))

(* They do.                                                                *)
LEMMA PlainFacts ==
  ASSUME GateInv, PlainMove
  PROVE  Plain
<1> USE GateAssumption
<1>0. TypeOK /\ Places BY DEF GateInv
<1>1. /\ thread \in [Threads -> Calls] /\ "pump" \in Threads /\ "lane" \in Threads
      /\ \A i \in Inputs : i \in Threads /\ i # "pump" /\ i # "lane"
      /\ Pump = thread["pump"] /\ Pump' = thread'["pump"]
      /\ \A e \in Epochs : core[e].seq \in Nat
  BY <1>0, Cast
<1>2. UNCHANGED core => SameOutput /\ core' \in [Epochs -> Cores]
  BY <1>0 DEF SameOutput, TypeOK
<1>3. ASSUME SameOutput, session' = session, Pump' = Pump \/ (Pump.pc = "read" /\ PumpAt("judge"))
      PROVE  Steady
  BY <1>1, <1>3 DEF Steady, SameOutput, PumpAt, Finished
<1>4. ASSUME NEW t \in Threads, t # "pump", Moved(t), SameOutput, core' \in [Epochs -> Cores]
      PROVE  Plain
  <2>1. Quiet BY <1>4 DEF Quiet, Moved
  <2>2. Pump' = Pump BY <1>1, <1>4 DEF Moved
  <2>3. Steady BY <1>3, <1>4, <2>2 DEF Moved
  <2> QED BY <1>4, <2>1, <2>2, <2>3 DEF Plain, Moved
<1>5. CASE \E i \in Inputs : InputMove(i)
  <2>1. PICK i \in Inputs : InputMove(i) BY <1>5
  <2>2. InputMoved(i) BY <1>0, <2>1, InputMoveFacts
  <2> QED BY <1>1, <1>4, <2>2 DEF InputMoved
<1>6. CASE LaneMove
  <2>1. LaneMoved BY <1>0, <1>6, LaneMoveFacts
  <2> QED BY <1>1, <1>2, <1>4, <2>1 DEF LaneMoved
<1>7. ASSUME UNCHANGED thread PROVE Quiet /\ Pump' = Pump
  BY <1>1, <1>7 DEF Quiet
<1>8. CASE MailArrives
  <2>1. UNCHANGED <<turns, pend, core, thread, session, stale, sweeper>> BY <1>8 DEF MailArrives
  <2> QED BY <1>2, <1>3, <1>7, <2>1 DEF Plain
<1>9. CASE PumpAckAvailable
  <2>1. UNCHANGED <<turns, pend, thread, session, stale, sweeper>> BY <1>9 DEF PumpAckAvailable
  <2>2. SameOutput /\ core' \in [Epochs -> Cores] BY <1>0, <1>9, AckFacts
  <2> QED BY <1>3, <1>7, <2>1, <2>2 DEF Plain
<1>10. CASE PumpJudges
  <2>1. UNCHANGED <<turns, pend, session, stale, sweeper>> /\ Pump.pc = "read" /\ PumpAt("judge")
    BY <1>0, <1>10, PumpGoto DEF PumpJudges, Reading, Pcs
  <2>2. SameOutput /\ core' \in [Epochs -> Cores] BY <1>0, <1>10, AckFacts
  <2>3. Quiet BY <1>1, <2>1 DEF Quiet, PumpAt, Emitting
  <2> QED BY <1>3, <2>1, <2>2, <2>3 DEF Plain
<1> QED BY <1>5, <1>6, <1>8, <1>9, <1>10 DEF PlainMove

(* The steps of the end of an incarnation and of the next one, and the     *)
(* sweep, are quiet.                                                       *)
LEMMA QuietFacts ==
  ASSUME GateInv
  PROVE  /\ Finalize => Quiet /\ Pump.pc = "read" /\ PumpAt("seal")
         /\ Seal => Quiet /\ Pump.pc = "seal" /\ PumpAt("reapTurns")
         /\ ReapTurns => Quiet /\ Pump.pc = "reapTurns" /\ PumpAt("reapPending")
         /\ ReapPending => Quiet /\ Pump.pc = "reapPending" /\ PumpAt("dead")
         /\ Reap => Quiet /\ Pump.pc = "dead" /\ PumpAt("off")
         /\ Spawn => Quiet
         /\ SweepStep => Quiet /\ Steady /\ UNCHANGED <<turns, pend, core, thread, session, mail>>
<1>0. TypeOK /\ Places BY DEF GateInv
<1>1. /\ "pump" \in Threads /\ Pump = thread["pump"] /\ Pump' = thread'["pump"]
      /\ \A e \in Epochs : core[e].seq \in Nat
  BY <1>0, Cast
<1>2. ASSUME NEW pc \in Finished, PumpAt(pc), Pump.pc \notin Emitting PROVE Quiet
  BY <1>1, <1>2 DEF Quiet, PumpAt, Finished, Emitting
<1>3. Finalize => Quiet /\ Pump.pc = "read" /\ PumpAt("seal")
  BY <1>0, <1>2, PumpGoto DEF Finalize, Reading, Pcs, Finished, Emitting
<1>4. Seal => Quiet /\ Pump.pc = "seal" /\ PumpAt("reapTurns")
  BY <1>0, <1>2, PumpGoto DEF Seal, Pcs, Finished, Emitting
<1>5. ReapTurns => Quiet /\ Pump.pc = "reapTurns" /\ PumpAt("reapPending")
  BY <1>0, <1>2, PumpGoto DEF ReapTurns, Pcs, Finished, Emitting
<1>6. ReapPending => Quiet /\ Pump.pc = "reapPending" /\ PumpAt("dead")
  BY <1>0, <1>2, PumpGoto DEF ReapPending, Pcs, Finished, Emitting
<1>7. Reap => Quiet /\ Pump.pc = "dead" /\ PumpAt("off")
  BY <1>0, <1>2, PumpGoto DEF Reap, Pcs, Finished, Emitting
<1>8. Spawn => Quiet
  BY <1>0, <1>1, SpawnFacts DEF Quiet, Emitting
<1>9. SweepStep => Quiet /\ Steady /\ UNCHANGED <<turns, pend, core, thread, session, mail>>
  <2>1. SweepStep => UNCHANGED <<turns, pend, core, thread, session, mail>>
    BY DEF SweepStep, SweepRead, SweepSwap, SweepWake
  <2> QED BY <1>1, <2>1 DEF Quiet, Steady
<1> QED BY <1>3, <1>4, <1>5, <1>6, <1>7, <1>8, <1>9

(* Every step is an emission, one of its continuations, a plain move, a    *)
(* step of the end of an incarnation, the next one, or the sweep.          *)
LEMMA StepKinds ==
  ASSUME Next
  PROVE  \/ \E t, kind, i, next : EmitStep(t, kind, i, next)
         \/ \E t \in Threads : Observe(t)
         \/ \E t \in Threads : Recheck(t)
         \/ \E t \in Threads : WriteDrained(t)
         \/ \E t \in Threads : InputsDrained(t)
         \/ PlainMove
         \/ Finalize \/ Seal \/ ReapTurns \/ ReapPending \/ Reap \/ Spawn
         \/ SweepStep
BY Steps DEF PlainMove

(* Nor does an emission touch the incarnation of the pump.                 *)
LEMMA EmissionIsSteady ==
  ASSUME GateInv,
         \/ \E t, kind, i, next : EmitStep(t, kind, i, next)
         \/ \E t \in Threads : Observe(t) \/ Recheck(t) \/ WriteDrained(t) \/ InputsDrained(t)
  PROVE  Steady
<1>0. TypeOK /\ Places /\ Numbers BY DEF GateInv
<1>1. /\ "pump" \in Threads /\ Pump = thread["pump"] /\ Pump' = thread'["pump"]
      /\ \A e \in Epochs : core[e].seq \in Nat
      /\ \A t \in Threads : thread[t].epoch \in Nat /\ thread[t].epoch <= Pump.epoch
      /\ \A t \in Threads : thread[t].pc \in Emitting => thread[t].epoch \in Epochs
      /\ Pump.epoch \in Nat /\ (\A e \in Epochs : e \in Nat)
  BY <1>0, Cast
<1>2. ASSUME NEW t, NEW kind, NEW i, NEW next, EmitStep(t, kind, i, next)
      PROVE  Steady
  <2>1. t \in Threads /\ next \in Pcs \ Emitting /\ Emitted(t, kind, next)
    BY <1>0, <1>2, EmitFacts
  <2>2. session' = session /\ MayEmit(t, kind, i, next) BY <1>2 DEF EmitStep
  <2> DEFINE e == thread[t].epoch
             drained == core[e].rows # {} /\ core'[e].rows = {}
  <2>3. /\ e \in Epochs /\ \A s \in Threads : s # t => thread'[s] = thread[s]
        /\ \A x \in Epochs : x # e => core'[x] = core[x]
        /\ core'[e].seq \in Nat /\ core'[e].seq > core[e].seq
        /\ core'[e].finalized = core[e].finalized /\ core'[e].sealed = core[e].sealed
        /\ core[e].sealed => core'[e].rows \subseteq core[e].rows
    BY <2>1 DEF Emitted
  <2>4. /\ thread'[t].pc = IF Classify(kind) # "none" THEN "observe"
                           ELSE IF drained THEN "drain" ELSE next
        /\ thread'[t].epoch = IF Classify(kind) = "none" /\ ~drained /\ next \in {"off", "done"}
                              THEN 0 ELSE e
    BY <1>0, <2>1, EmittedThread, ZenonT(60)
  <2> HIDE DEF drained
  <2>5. /\ Pump'.epoch = Pump.epoch
        /\ Pump.pc \in Finished \/ Pump'.pc \in Finished => Pump'.pc = Pump.pc
    <3>1. CASE t = "pump"
      <4>1. next \in {"read", "result"} /\ Pump.pc \in {"read", "result", "judge"}
        BY <2>2, <3>1, GateAssumption DEF MayEmit, Reading
      <4> QED BY <1>1, <2>4, <3>1, <4>1 DEF Finished
    <3>2. CASE t # "pump" BY <1>1, <2>3, <3>2
    <3> QED BY <3>1, <3>2
  <2>6. \A x \in Epochs : x > Pump.epoch => x # e BY <1>1, <2>1
  <2>7. \A x \in Epochs : core'[x].seq \in Nat /\ core'[x].seq >= core[x].seq BY <1>1, <2>3
  <2> QED BY <1>1, <2>2, <2>3, <2>5, <2>6, <2>7 DEF Steady
<1>3. ASSUME NEW t \in Threads, UNCHANGED <<core, session>>,
             \A s \in Threads : s # t => thread'[s] = thread[s],
             thread[t].pc \in Emitting,
             \/ thread'[t].epoch = thread[t].epoch /\ thread'[t].pc \in Emitting
             \/ /\ thread'[t].pc = thread[t].next
                /\ thread'[t].epoch = IF thread[t].next \in {"off", "done"} THEN 0
                                      ELSE thread[t].epoch
      PROVE  Steady
  <2>1. /\ Pump'.epoch = Pump.epoch
        /\ Pump.pc \in Finished \/ Pump'.pc \in Finished => Pump'.pc = Pump.pc
    BY <1>0, <1>1, <1>3 DEF Places, Finished, Emitting
  <2> QED BY <1>1, <1>3, <2>1 DEF Steady
<1>4. ASSUME NEW t \in Threads, Observe(t) PROVE Steady
  BY <1>0, <1>3, <1>4, ObserveFacts DEF Emitting
<1>5. ASSUME NEW t \in Threads, Recheck(t) PROVE Steady
  BY <1>0, <1>3, <1>5, RecheckFacts DEF Emitting, Recheck
<1>6. ASSUME NEW t \in Threads, WriteDrained(t) PROVE Steady
  BY <1>0, <1>3, <1>6, WriteDrainedFacts DEF Emitting
<1>7. ASSUME NEW t \in Threads, InputsDrained(t) PROVE Steady
  BY <1>0, <1>3, <1>7, InputsDrainedFacts DEF Emitting
<1> QED BY <1>2, <1>4, <1>5, <1>6, <1>7

(* The places of the pump and the state of the incarnations.               *)
LEMMA IncarnationsStep ==
  ASSUME GateInv, Next
  PROVE  Incarnations'
<1>0. TypeOK /\ Places /\ Incarnations BY DEF GateInv
<1>1. /\ Pump = thread["pump"] /\ Pump' = thread'["pump"] /\ Pump.epoch \in Nat
      /\ \A e \in Epochs : e \in Nat
  BY <1>0, Cast
<1>2. CASE Steady
  <2>1. /\ Pump'.pc \in Finished <=> Pump.pc \in Finished
        /\ Pump'.pc \in Closed <=> Pump.pc \in Closed
        /\ Pump'.pc = "off" <=> Pump.pc = "off"
    BY <1>2 DEF Steady, Finished, Closed
  <2> QED BY <1>0, <1>2, <2>1 DEF Incarnations, Steady
<1>3. CASE \/ \E t, kind, i, next : EmitStep(t, kind, i, next)
           \/ \E t \in Threads : Observe(t) \/ Recheck(t) \/ WriteDrained(t) \/ InputsDrained(t)
  BY <1>2, <1>3, EmissionIsSteady
<1>4. CASE PlainMove \/ SweepStep
  BY <1>2, <1>4, PlainFacts, QuietFacts DEF Plain
<1>5. CASE Finalize
  <2>1. PumpAt("seal") /\ Pump.pc = "read" /\ session' = session
    BY <1>5, QuietFacts DEF Finalize
  <2>2. LET e == Pump.epoch IN
        /\ e \in Epochs /\ \A x \in Epochs : x # e => core'[x] = core[x]
        /\ core'[e].finalized = TRUE /\ core'[e].sealed = core[e].sealed
        /\ core'[e].rows = core[e].rows
    BY <1>0, <1>5, FinalizeFacts
  <2> QED BY <1>0, <1>1, <2>1, <2>2 DEF Incarnations, PumpAt, Finished, Closed
<1>6. CASE Seal
  <2>1. PumpAt("reapTurns") /\ Pump.pc = "seal" /\ session' = session
    BY <1>6, QuietFacts DEF Seal
  <2>2. LET e == Pump.epoch IN
        /\ e \in Epochs /\ \A x \in Epochs : x # e => core'[x] = core[x]
        /\ core'[e].sealed = TRUE /\ core'[e].finalized = core[e].finalized
        /\ core'[e].rows = {}
    BY <1>0, <1>6, SealFacts
  <2> QED BY <1>0, <1>1, <2>1, <2>2 DEF Incarnations, PumpAt, Finished, Closed
<1>7. CASE ReapTurns \/ ReapPending
  <2>1. ASSUME NEW pc \in {"reapPending", "dead"}, Pump.pc \in {"reapTurns", "reapPending"},
               PumpAt(pc), session' = session, core' = core
        PROVE  Incarnations'
    BY <1>0, <1>1, <2>1 DEF Incarnations, PumpAt, Finished, Closed
  <2>2. CASE ReapTurns BY <2>1, <2>2, QuietFacts DEF ReapTurns
  <2>3. CASE ReapPending BY <2>1, <2>3, QuietFacts DEF ReapPending
  <2> QED BY <1>7, <2>2, <2>3
<1>8. CASE Reap
  <2>1. PumpAt("off") /\ Pump.pc = "dead" /\ session' = 0 /\ core' = core
    BY <1>8, QuietFacts DEF Reap
  <2> QED BY <1>0, <1>1, <2>1 DEF Incarnations, PumpAt, Finished, Closed
<1>9. CASE Spawn
  <2>1. /\ Pump.pc = "off" /\ Pump'.pc = "read" /\ Pump'.epoch = Pump.epoch + 1
        /\ session' = Pump.epoch + 1 /\ core' = core
    BY <1>0, <1>1, <1>9, SpawnFacts
  <2>2. /\ NewCore.finalized = FALSE /\ NewCore.sealed = FALSE BY DEF NewCore
  <2> QED BY <1>0, <1>1, <2>1, <2>2 DEF Incarnations, Finished, Closed
<1> QED BY <1>3, <1>4, <1>5, <1>6, <1>7, <1>8, <1>9, StepKinds

(* Owners of the turn table.                                               *)
LEMMA TurnOwnerStep ==
  ASSUME GateInv, Next
  PROVE  TurnOwner'
<1>0. TypeOK /\ Places /\ Incarnations /\ TurnOwner /\ Numbers BY DEF GateInv
<1>1. /\ "pump" \in Threads /\ Pump = thread["pump"] /\ Pump' = thread'["pump"]
      /\ Pump.epoch \in Nat /\ \A e \in Epochs : e \in Nat
      /\ \A t \in Threads : /\ thread[t].epoch \in Nat /\ thread[t].epoch <= Pump.epoch
                            /\ thread[t].pc \in Emitting => thread[t].epoch \in Epochs
  BY <1>0, Cast
<1> DEFINE Stays == \A t \in Threads : thread[t].pc = "recheck" =>
                      thread'[t].pc = "recheck" /\ thread'[t].epoch = thread[t].epoch
<1>2. Quiet => Stays BY DEF Quiet, Emitting
<1>3. ASSUME Stays, turns' = turns, Steady
      PROVE  TurnOwner'
  <2>1. /\ Pump'.pc \in Finished <=> Pump.pc \in Finished
        /\ Pump'.pc \in Reaped <=> Pump.pc \in Reaped
    BY <1>3 DEF Steady, Finished, Reaped
  <2> QED BY <1>0, <1>3, <2>1 DEF TurnOwner, Steady
<1>4. ASSUME NEW t, NEW kind, NEW i, NEW next, EmitStep(t, kind, i, next)
      PROVE  TurnOwner'
  <2>1. Stays BY <1>0, <1>4, EmitFacts DEF Emitted, Emitting
  <2> QED BY <1>3, <1>4, <2>1, EmissionIsSteady DEF EmitStep
<1>5. ASSUME NEW t \in Threads, Observe(t)
      PROVE  TurnOwner'
  <2>1. Steady BY <1>5, EmissionIsSteady
  <2>2. /\ thread[t].pc = "observe" /\ \A s \in Threads : s # t => thread'[s] = thread[s]
        /\ thread'[t].pc = "recheck" /\ thread'[t].epoch = thread[t].epoch
        /\ turns' # NoEntry
        /\ turns # NoEntry => turns'.epoch = turns.epoch
        /\ turns = NoEntry => turns'.epoch = thread[t].epoch
    BY <1>0, <1>5, ObserveFacts
  <2>3. Stays BY <2>2
  <2>4. /\ Pump'.pc \in Finished <=> Pump.pc \in Finished
        /\ Pump'.pc \in Reaped <=> Pump.pc \in Reaped
    BY <2>1 DEF Steady, Finished, Reaped
  <2> QED BY <1>0, <2>1, <2>2, <2>3, <2>4 DEF TurnOwner, Steady
<1>6. ASSUME NEW t \in Threads, Recheck(t)
      PROVE  TurnOwner'
  <2>1. Steady BY <1>6, EmissionIsSteady
  <2>2. /\ thread[t].pc = "recheck" /\ \A s \in Threads : s # t => thread'[s] = thread[s]
    BY <1>0, <1>6, RecheckFacts
  <2> DEFINE e == thread[t].epoch
  <2>3. turns' = IF core[e].finalized THEN Forgotten(turns, e) ELSE turns BY <1>6 DEF Recheck
  <2>4. e \in Epochs /\ e <= Pump.epoch BY <1>1, <2>2 DEF Emitting
  <2>5. /\ turns' \in {turns, NoEntry}
        /\ turns' # NoEntry /\ turns.epoch = e => ~core[e].finalized
        /\ turns' = NoEntry /\ turns # NoEntry => core[e].finalized /\ turns.epoch = e
    BY <2>3 DEF Forgotten
  <2>6. /\ ~core[e].finalized => e = Pump.epoch /\ Pump.pc \notin Finished
        /\ core[e].finalized /\ e = Pump.epoch => Pump.pc \in Finished
    BY <1>0, <1>1, <2>4 DEF Incarnations
  <2>7. /\ Pump'.pc \in Finished <=> Pump.pc \in Finished
        /\ Pump'.pc \in Reaped <=> Pump.pc \in Reaped
        /\ Pump.pc \in Reaped => Pump.pc \in Finished
    BY <2>1 DEF Steady, Finished, Reaped
  <2> HIDE DEF e
  <2>8. ASSUME Pump'.pc \notin Finished PROVE turns' # NoEntry /\ turns'.epoch = Pump'.epoch
    BY <1>0, <2>1, <2>5, <2>6, <2>7, <2>8 DEF TurnOwner, Steady
  <2>9. ASSUME turns' # NoEntry
        PROVE  \/ turns'.epoch = Pump'.epoch /\ Pump'.pc \notin Reaped
               \/ \E s \in Threads : thread'[s].pc = "recheck" /\ thread'[s].epoch = turns'.epoch
    <3>1. turns' = turns BY <2>5, <2>9
    <3>2. CASE turns.epoch = e
      BY <2>1, <2>5, <2>6, <2>7, <2>9, <3>1, <3>2 DEF Steady
    <3>3. CASE turns.epoch # e
      BY <1>0, <2>1, <2>2, <2>7, <2>9, <3>1, <3>3 DEF TurnOwner, Steady, e
    <3> QED BY <3>2, <3>3
  <2> QED BY <2>8, <2>9 DEF TurnOwner
<1>7. ASSUME NEW t \in Threads, WriteDrained(t) \/ InputsDrained(t)
      PROVE  TurnOwner'
  <2>1. Stays /\ turns' = turns
    BY <1>0, <1>7, WriteDrainedFacts, InputsDrainedFacts
  <2> QED BY <1>3, <1>7, <2>1, EmissionIsSteady
<1>8. CASE PlainMove \/ SweepStep
  BY <1>2, <1>3, <1>8, PlainFacts, QuietFacts DEF Plain
<1>9. ASSUME Stays, turns' = turns, Pump'.pc \in Finished, Pump'.epoch = Pump.epoch,
             Pump'.pc \in Reaped => Pump.pc \in Reaped
      PROVE  TurnOwner'
  BY <1>0, <1>9 DEF TurnOwner
<1>10. CASE Finalize
  <2>1. Quiet /\ PumpAt("seal") /\ turns' = turns BY <1>10, QuietFacts DEF Finalize
  <2> QED BY <1>1, <1>2, <1>9, <2>1 DEF PumpAt, Finished, Reaped
<1>11. CASE Seal
  <2>1. Quiet /\ PumpAt("reapTurns") /\ turns' = turns BY <1>11, QuietFacts DEF Seal
  <2> QED BY <1>1, <1>2, <1>9, <2>1 DEF PumpAt, Finished, Reaped
<1>12. CASE ReapTurns
  <2>1. Quiet /\ PumpAt("reapPending") /\ turns' = Forgotten(turns, Pump.epoch)
    BY <1>12, QuietFacts DEF ReapTurns
  <2>2. Stays BY <1>2, <2>1
  <2>3. turns' # NoEntry => turns' = turns /\ turns.epoch # Pump.epoch
    BY <2>1 DEF Forgotten
  <2>4. Pump'.pc \in Finished BY <1>1, <2>1 DEF PumpAt, Finished
  <2> QED BY <1>0, <2>2, <2>3, <2>4 DEF TurnOwner
<1>13. CASE ReapPending
  <2>1. Quiet /\ PumpAt("dead") /\ Pump.pc = "reapPending" /\ turns' = turns
    BY <1>13, QuietFacts DEF ReapPending
  <2> QED BY <1>1, <1>2, <1>9, <2>1 DEF PumpAt, Finished, Reaped
<1>14. CASE Reap
  <2>1. Quiet /\ PumpAt("off") /\ Pump.pc = "dead" /\ turns' = turns
    BY <1>14, QuietFacts DEF Reap
  <2> QED BY <1>1, <1>2, <1>9, <2>1 DEF PumpAt, Finished, Reaped
<1>15. CASE Spawn
  <2>1. /\ turns' # NoEntry /\ turns'.epoch = Pump.epoch + 1
        /\ Pump'.epoch = Pump.epoch + 1 /\ Pump'.pc = "read"
    BY <1>0, <1>1, <1>15, SpawnFacts
  <2> QED BY <2>1 DEF TurnOwner, Reaped
<1> QED
  BY <1>4, <1>5, <1>6, <1>7, <1>8, <1>10, <1>11, <1>12, <1>13, <1>14, <1>15, StepKinds

(* Owners of the pending table.                                            *)
LEMMA PendOwnerStep ==
  ASSUME GateInv, Next
  PROVE  PendOwner'
<1>0. TypeOK /\ Places /\ PendOwner /\ Numbers BY DEF GateInv
<1>1. /\ Pump = thread["pump"] /\ Pump' = thread'["pump"]
      /\ \A t \in Threads : /\ thread[t].drain \in Nat
                            /\ thread[t].pc \in Emitting => thread[t].epoch \in Epochs
      /\ pend \in PendEntries \cup {NoEntry}
  BY <1>0, Cast DEF TypeOK
<1>2. ASSUME Steady, (pend' = NoEntry) <=> (pend = NoEntry),
             pend # NoEntry => pend'.epoch = pend.epoch
      PROVE  PendOwner'
  BY <1>0, <1>2 DEF PendOwner, Steady, Finished
<1>3. ASSUME NEW t, NEW kind, NEW i, NEW next, EmitStep(t, kind, i, next)
      PROVE  PendOwner'
  <2> DEFINE e == thread[t].epoch
             n == core'[e].seq
  <2>1. /\ e \in Epochs /\ n \in Nat /\ pend' \in {PendingSet(pend, e, n, TRUE), pend}
    BY <1>0, <1>3, EmitFacts DEF Emitted
  <2> HIDE DEF e, n
  <2>2. LET r == PendingSet(pend, e, n, TRUE) IN
        (r = NoEntry <=> pend = NoEntry) /\ (pend # NoEntry => r.epoch = pend.epoch)
    BY <1>1, <2>1, PendingSetFacts, ZenonT(60)
  <2>3. Steady BY <1>3, EmissionIsSteady
  <2> QED BY <1>2, <2>1, <2>2, <2>3
<1>4. ASSUME NEW t \in Threads, Observe(t) \/ Recheck(t) \/ InputsDrained(t)
      PROVE  PendOwner'
  BY <1>2, <1>4, EmissionIsSteady DEF Observe, Recheck, InputsDrained
<1>5. ASSUME NEW t \in Threads, WriteDrained(t)
      PROVE  PendOwner'
  <2> DEFINE e == thread[t].epoch
             d == thread[t].drain
  <2>1. thread[t].pc = "drain" /\ pend' = PendingSet(pend, e, d, FALSE) BY <1>5 DEF WriteDrained
  <2>2. e \in Epochs /\ d \in Nat BY <1>1, <2>1 DEF Emitting
  <2> HIDE DEF e, d
  <2>3. LET r == PendingSet(pend, e, d, FALSE) IN
        (r = NoEntry <=> pend = NoEntry) /\ (pend # NoEntry => r.epoch = pend.epoch)
    BY <1>1, <2>2, PendingSetFacts
  <2> QED BY <1>2, <1>5, <2>1, <2>3, EmissionIsSteady
<1>6. CASE PlainMove \/ SweepStep
  BY <1>2, <1>6, PlainFacts, QuietFacts DEF Plain
<1>7. CASE Finalize
  <2>1. PumpAt("seal") /\ Pump.pc = "read" /\ pend' = pend BY <1>7, QuietFacts DEF Finalize
  <2> QED BY <1>0, <1>1, <2>1 DEF PendOwner, PumpAt
<1>8. CASE Seal
  <2>1. PumpAt("reapTurns") /\ Pump.pc = "seal" /\ pend' = pend BY <1>8, QuietFacts DEF Seal
  <2> QED BY <1>0, <1>1, <2>1 DEF PendOwner, PumpAt
<1>9. CASE ReapTurns
  <2>1. PumpAt("reapPending") /\ Pump.pc = "reapTurns" /\ pend' = pend
    BY <1>9, QuietFacts DEF ReapTurns
  <2> QED BY <1>0, <1>1, <2>1 DEF PendOwner, PumpAt
<1>10. CASE ReapPending
  <2>1. PumpAt("dead") /\ pend' = Forgotten(pend, Pump.epoch)
    BY <1>10, QuietFacts DEF ReapPending
  <2>2. pend' = NoEntry BY <1>0, <2>1 DEF PendOwner, Forgotten
  <2> QED BY <1>1, <2>1, <2>2 DEF PendOwner, PumpAt
<1>11. CASE Reap
  <2>1. PumpAt("off") /\ Pump.pc = "dead" /\ pend' = pend BY <1>11, QuietFacts DEF Reap
  <2> QED BY <1>0, <1>1, <2>1 DEF PendOwner, PumpAt
<1>12. CASE Spawn
  BY <1>0, <1>1, <1>12, SpawnFacts DEF PendOwner
<1> QED
  BY <1>3, <1>4, <1>5, <1>6, <1>7, <1>8, <1>9, <1>10, <1>11, <1>12, StepKinds

(* The pending table follows the list.                                     *)
LEMMA PendFollowsStep ==
  ASSUME GateInv, Next
  PROVE  PendFollows'
<1>0. TypeOK /\ Places /\ Incarnations /\ PendOwner /\ PendFollows /\ Numbers BY DEF GateInv
<1>1. /\ Pump = thread["pump"] /\ Pump' = thread'["pump"] /\ "pump" \in Threads
      /\ \A t \in Threads : /\ thread[t].drain \in Nat
                            /\ thread[t].epoch \in Nat
                            /\ thread[t].pc \in Emitting => thread[t].epoch \in Epochs
                            /\ thread[t].pc \in Emitting => thread[t].next \notin Emitting
      /\ pend \in PendEntries \cup {NoEntry}
      /\ pend # NoEntry => pend.epoch \in Epochs /\ pend.lastSeq \in Nat /\ pend.epoch # 0
      /\ \A e \in Epochs : core[e].seq \in Nat /\ e # 0
  BY <1>0, Cast DEF TypeOK
<1>2. \A t \in Threads : thread[t].epoch \in Epochs =>
                           thread[t].drain <= core[thread[t].epoch].seq
  BY <1>0, <1>1 DEF Numbers
<1> DEFINE Drains(t, e) == Draining(t) /\ thread[t].epoch = e
<1>3. ASSUME pend' = pend,
             \A t \in Threads : Draining(t) /\ thread[t].drain # 0 =>
               Draining(t)' /\ thread'[t].epoch = thread[t].epoch
                            /\ thread'[t].drain = thread[t].drain,
             \A t \in Threads : Draining(t)' =>
               Draining(t) /\ thread'[t].epoch = thread[t].epoch
                           /\ thread'[t].drain = thread[t].drain,
             \A e \in Epochs : /\ core'[e].seq \in Nat /\ core'[e].seq >= core[e].seq
                               /\ core'[e].rows = core[e].rows
                               /\ core[e].finalized => core'[e].finalized
      PROVE  PendFollows'
  <2> SUFFICES ASSUME pend # NoEntry
               PROVE  LET e == pend.epoch IN
                 /\ pend.lastSeq <= core'[e].seq /\ (pend.pending => pend.lastSeq > 0)
                 /\ core'[e].rows # {} =>
                      /\ pend.pending
                      /\ \A t \in Threads : thread'[t].epoch = e /\ Draining(t)' =>
                                              thread'[t].drain < pend.lastSeq
                 /\ pend.pending /\ core'[e].rows = {} /\ ~core'[e].finalized =>
                      \E t \in Threads : /\ thread'[t].epoch = e /\ Draining(t)'
                                         /\ thread'[t].drain >= pend.lastSeq
    BY <1>3 DEF PendFollows
  <2>1. pend.epoch \in Epochs /\ pend.lastSeq \in Nat BY <1>1
  <2>2. pend.lastSeq <= core'[pend.epoch].seq /\ (pend.pending => pend.lastSeq > 0)
    BY <1>0, <1>1, <1>3, <2>1 DEF PendFollows
  <2>3. core'[pend.epoch].rows # {} =>
                      /\ pend.pending
                      /\ \A t \in Threads : thread'[t].epoch = pend.epoch /\ Draining(t)' =>
                                              thread'[t].drain < pend.lastSeq
    BY <1>0, <1>3, <2>1 DEF PendFollows
  <2>4. ASSUME pend.pending, core'[pend.epoch].rows = {}, ~core'[pend.epoch].finalized
        PROVE  \E t \in Threads : /\ thread'[t].epoch = pend.epoch /\ Draining(t)'
                                         /\ thread'[t].drain >= pend.lastSeq
    <3>1. PICK t \in Threads : /\ thread[t].epoch = pend.epoch /\ Draining(t)
                               /\ thread[t].drain >= pend.lastSeq
      BY <1>0, <1>3, <2>1, <2>4 DEF PendFollows
    <3>2. thread[t].drain # 0 BY <1>1, <2>1, <2>2, <2>4, <3>1
    <3> QED BY <1>3, <3>1, <3>2
  <2> QED BY <2>2, <2>3, <2>4
<1>4. ASSUME Quiet
      PROVE  \A t \in Threads :
               /\ Draining(t) => Draining(t)' /\ thread'[t].epoch = thread[t].epoch
                                 /\ thread'[t].drain = thread[t].drain
               /\ Draining(t)' => Draining(t) /\ thread'[t].epoch = thread[t].epoch
                                  /\ thread'[t].drain = thread[t].drain
  BY <1>4 DEF Quiet, Draining, Emitting
<1>5. ASSUME NEW t, NEW kind, NEW i, NEW next, EmitStep(t, kind, i, next)
      PROVE  PendFollows'
  <2> DEFINE e == thread[t].epoch
             n == core'[e].seq
             drained == core[e].rows # {} /\ core'[e].rows = {}
             filled == core[e].rows = {} /\ core'[e].rows # {}
             new == thread'[t]
  <2>1. t \in Threads /\ next \in Pcs \ Emitting /\ Emitted(t, kind, next)
    BY <1>0, <1>5, EmitFacts
  <2>2. /\ e \in Epochs /\ thread[t].pc \notin Emitting
        /\ \A x \in Epochs : x # e => core'[x] = core[x]
        /\ n \in Nat /\ n > core[e].seq
        /\ core'[e].finalized = core[e].finalized
        /\ pend' = IF filled THEN PendingSet(pend, e, n, TRUE) ELSE pend
        /\ \A s \in Threads : s # t => thread'[s] = thread[s]
    BY <2>1 DEF Emitted
  <2>3. /\ drained => new.pc \in {"observe", "drain"} /\ new.drain = n /\ new.epoch = e
        /\ ~drained => new.drain = 0
        /\ new.epoch \in {e, 0}
    BY <1>0, <2>1, EmittedThread
  <2>4. ~Draining(t) BY <2>2 DEF Draining, Emitting
  <2>5. drained => Draining(t)' BY <2>3 DEF Draining
  <2>6. \A s \in Threads : s # t => (Draining(s)' <=> Draining(s)) BY <2>2 DEF Draining
  <2> HIDE DEF n, drained, filled, new
  <2>7. CASE pend = NoEntry
    <3>1. pend' = NoEntry BY <2>2, <2>7 DEF PendingSet
    <3> QED BY <3>1 DEF PendFollows
  <2>8. CASE pend # NoEntry /\ pend.epoch # e
    <3>1. pend' = pend BY <2>2, <2>8 DEF PendingSet
    <3>2. core'[pend.epoch] = core[pend.epoch] BY <1>1, <2>2, <2>8
    <3>3. new.epoch # pend.epoch BY <1>1, <2>3, <2>8
    <3> HIDE DEF e
    <3> QED BY <1>0, <2>2, <2>4, <2>6, <2>8, <3>1, <3>2, <3>3 DEF PendFollows, new
  <2>9. CASE pend # NoEntry /\ pend.epoch = e
    <3>0. /\ pend.lastSeq \in Nat /\ pend.lastSeq <= core[e].seq /\ core[e].seq \in Nat
          /\ (pend.pending => pend.lastSeq > 0)
      BY <1>0, <1>1, <2>9 DEF PendFollows
    <3>1. pend.lastSeq < n /\ n > 0 /\ pend.lastSeq <= n BY <2>2, <3>0 DEF n
    <3>2. CASE filled
      <4>1. pend' = PendingSet(pend, e, n, TRUE) BY <2>2, <3>2
      <4>2. pend' # NoEntry /\ pend'.epoch = e /\ pend'.pending = TRUE /\ pend'.lastSeq = n
        <5>1. n >= pend.lastSeq BY <2>2, <3>0, <3>1
        <5> HIDE DEF e
        <5>2. LET r == PendingSet(pend, e, n, TRUE) IN
              /\ r = NoEntry <=> pend = NoEntry
              /\ pend # NoEntry => r.epoch = pend.epoch
              /\ pend # NoEntry /\ pend.epoch = e /\ n >= pend.lastSeq =>
                   r.pending = TRUE /\ r.lastSeq = n
          BY <1>1, <2>2, NoEntryAssumption DEF PendingSet, PendEntries
        <5> QED BY <2>9, <4>1, <5>1, <5>2
      <4>3. core'[e].rows # {} /\ ~drained BY <3>2 DEF filled, drained
      <4>4. \A s \in Threads : thread'[s].epoch = e /\ Draining(s)' => thread'[s].drain < n
        <5>1. new.drain = 0 BY <2>3, <4>3
        <5>2. \A s \in Threads : s # t /\ thread[s].epoch = e => thread[s].drain < n
          BY <1>1, <1>2, <2>2, <3>0 DEF n
        <5> QED BY <2>2, <3>1, <5>1, <5>2 DEF new
      <4>5. n <= core'[e].seq BY <2>2 DEF n
      <4> HIDE DEF e
      <4> QED BY <3>1, <4>2, <4>3, <4>4, <4>5 DEF PendFollows
    <3>3. CASE ~filled /\ ~drained
      <4>1. pend' = pend /\ core'[e].rows = {} <=> core[e].rows = {}
        BY <2>2, <3>3 DEF filled, drained
      <4>2. pend' = pend BY <2>2, <3>3
      <4>3. new.drain = 0 BY <2>3, <3>3
      <4>5. pend.lastSeq <= core'[e].seq BY <3>1 DEF n
      <4>6. (core'[e].rows = {}) <=> (core[e].rows = {}) BY <3>3 DEF filled, drained
      <4> HIDE DEF e
      <4> QED BY <1>0, <2>2, <2>4, <2>6, <2>9, <3>0, <4>2, <4>3, <4>5, <4>6 DEF PendFollows, new
    <3>4. CASE drained
      <4>1. pend' = pend /\ core'[e].rows = {} BY <2>2, <3>4 DEF filled, drained
      <4>2. new.drain >= pend.lastSeq /\ new.epoch = e BY <2>2, <2>3, <3>0, <3>1, <3>4
      <4>5. pend.lastSeq <= core'[e].seq BY <3>1 DEF n
      <4> HIDE DEF e
      <4> QED BY <2>1, <2>5, <2>9, <3>0, <3>4, <4>1, <4>2, <4>5 DEF PendFollows, new
    <3> QED BY <3>2, <3>3, <3>4
  <2> QED BY <2>7, <2>8, <2>9
<1>6. \A e \in Epochs : UNCHANGED core =>
        /\ core'[e].seq \in Nat /\ core'[e].seq >= core[e].seq
        /\ core'[e].rows = core[e].rows /\ (core[e].finalized => core'[e].finalized)
  BY <1>1
<1>7. ASSUME NEW t \in Threads, Observe(t)
      PROVE  PendFollows'
  <2>1. /\ thread[t].pc = "observe" /\ \A s \in Threads : s # t => thread'[s] = thread[s]
        /\ thread'[t].pc = "recheck" /\ thread'[t].epoch = thread[t].epoch
        /\ thread'[t].drain = thread[t].drain /\ UNCHANGED <<pend, core>>
    BY <1>0, <1>7, ObserveFacts
  <2> QED BY <1>3, <1>6, <2>1 DEF Draining
<1>8. ASSUME NEW t \in Threads, Recheck(t)
      PROVE  PendFollows'
  <2>1. /\ thread[t].pc = "recheck" /\ \A s \in Threads : s # t => thread'[s] = thread[s]
        /\ UNCHANGED <<pend, core>>
        /\ \/ /\ thread[t].drain # 0 /\ thread'[t].pc = "drain"
              /\ thread'[t].epoch = thread[t].epoch
              /\ thread'[t].drain = thread[t].drain
           \/ thread[t].drain = 0 /\ thread'[t].pc = thread[t].next
    BY <1>0, <1>8, RecheckFacts DEF Recheck
  <2>2. thread[t].next \notin Emitting BY <1>1, <2>1 DEF Emitting
  <2> QED BY <1>3, <1>6, <2>1, <2>2 DEF Draining, Emitting
<1>9. ASSUME NEW t \in Threads, WriteDrained(t)
      PROVE  PendFollows'
  <2> DEFINE e == thread[t].epoch
             d == thread[t].drain
             hit == pend # NoEntry /\ pend.epoch = e /\ d >= pend.lastSeq
  <2>1. /\ thread[t].pc = "drain" /\ \A s \in Threads : s # t => thread'[s] = thread[s]
        /\ thread'[t].pc = "drained" /\ pend' = PendingSet(pend, e, d, FALSE)
        /\ core' = core
    BY <1>0, <1>9, WriteDrainedFacts
  <2>2. e \in Epochs /\ d \in Nat BY <1>1, <2>1 DEF Emitting
  <2>3. /\ ~Draining(t)' /\ Draining(t)
        /\ \A s \in Threads : s # t => (Draining(s)' <=> Draining(s))
    BY <2>1 DEF Draining
  <2>4. CASE hit
    <3>1. pend' # NoEntry /\ pend'.epoch = e /\ pend'.pending = FALSE /\ pend'.lastSeq = d
      <4> HIDE DEF e, d
      <4>1. LET r == PendingSet(pend, e, d, FALSE) IN
            /\ r = NoEntry <=> pend = NoEntry
            /\ pend # NoEntry => r.epoch = pend.epoch
            /\ pend # NoEntry /\ pend.epoch = e /\ d >= pend.lastSeq =>
                 r.pending = FALSE /\ r.lastSeq = d
        BY <1>1, <2>2, NoEntryAssumption DEF PendingSet, PendEntries
      <4> QED BY <2>1, <2>4, <4>1
    <3>2. core[e].rows = {} BY <1>0, <1>1, <2>2, <2>3, <2>4 DEF PendFollows
    <3>3. d <= core[e].seq BY <1>2, <2>2
    <3> QED BY <2>1, <3>1, <3>2, <3>3 DEF PendFollows
  <2>5. CASE ~hit
    <3>1. pend' = pend BY <2>1, <2>5 DEF PendingSet
    <3>2. pend # NoEntry => ~(thread[t].epoch = pend.epoch /\ thread[t].drain >= pend.lastSeq)
      BY <2>5
    <3> HIDE DEF hit
    <3> QED BY <1>0, <2>1, <2>3, <3>1, <3>2 DEF PendFollows
  <2> QED BY <2>4, <2>5
<1>10. ASSUME NEW t \in Threads, InputsDrained(t)
      PROVE  PendFollows'
  <2>1. /\ thread[t].pc = "drained" /\ \A s \in Threads : s # t => thread'[s] = thread[s]
        /\ UNCHANGED <<pend, core>> /\ thread'[t].pc = thread[t].next
    BY <1>0, <1>10, InputsDrainedFacts
  <2>2. thread[t].next \notin Emitting BY <1>1, <2>1 DEF Emitting
  <2> QED BY <1>3, <1>6, <2>1, <2>2 DEF Draining, Emitting
<1>11. CASE PlainMove
  <2>1. Plain BY <1>11, PlainFacts
  <2>2. \A e \in Epochs : /\ core'[e].seq \in Nat /\ core'[e].seq >= core[e].seq
                          /\ core'[e].rows = core[e].rows
                          /\ core[e].finalized => core'[e].finalized
    BY <2>1 DEF Plain, Steady, SameOutput
  <2> QED BY <1>3, <1>4, <2>1, <2>2 DEF Plain
<1>12. CASE SweepStep \/ ReapTurns
  <2>1. Quiet /\ UNCHANGED <<pend, core>> BY <1>12, QuietFacts DEF ReapTurns
  <2> QED BY <1>3, <1>4, <1>6, <2>1
<1>13. CASE Finalize
  <2>1. \A e \in Epochs : /\ core'[e].seq \in Nat /\ core'[e].seq >= core[e].seq
                          /\ core'[e].rows = core[e].rows
                          /\ core[e].finalized => core'[e].finalized
    <3> DEFINE x == Pump.epoch
    <3>1. /\ \A e \in Epochs : e # x => core'[e] = core[e]
          /\ core'[x].finalized = TRUE /\ core'[x].seq = core[x].seq
          /\ core'[x].rows = core[x].rows
      BY <1>0, <1>13, FinalizeFacts
    <3> HIDE DEF x
    <3> QED BY <1>1, <3>1
  <2> QED BY <1>3, <1>4, <1>13, <2>1, QuietFacts DEF Finalize
<1>14. CASE Seal
  <2> DEFINE e == Pump.epoch
  <2>1. /\ e \in Epochs /\ core'[e].seq >= core[e].seq /\ core'[e].rows = {}
        /\ core'[e].finalized = core[e].finalized /\ core' \in [Epochs -> Cores]
    BY <1>0, <1>14, SealFacts
  <2>2. Pump.pc = "seal" /\ pend' = pend BY <1>14, QuietFacts DEF Seal
  <2>3. core[e].finalized BY <1>0, <2>1, <2>2 DEF Incarnations, Finished
  <2>4. core'[e].seq \in Nat BY <2>1 DEF Cores
  <2>5. pend # NoEntry => pend.epoch = e BY <1>0 DEF PendOwner
  <2> HIDE DEF e
  <2>6. pend # NoEntry => pend.lastSeq <= core'[e].seq /\ (pend.pending => pend.lastSeq > 0)
    BY <1>0, <1>1, <2>1, <2>4, <2>5 DEF PendFollows
  <2> QED BY <2>1, <2>2, <2>3, <2>5, <2>6 DEF PendFollows
<1>15. CASE ReapPending \/ Reap
  <2>1. pend' = NoEntry
    <3>1. CASE ReapPending
      <4>1. pend' = Forgotten(pend, Pump.epoch) BY <3>1 DEF ReapPending
      <4> QED BY <1>0, <4>1 DEF PendOwner, Forgotten
    <3>2. CASE Reap
      <4>1. pend' = pend /\ Pump.pc = "dead" BY <3>2 DEF Reap
      <4> QED BY <1>0, <4>1 DEF PendOwner
    <3> QED BY <1>15, <3>1, <3>2
  <2> QED BY <2>1 DEF PendFollows
<1>16. CASE Spawn
  <2> DEFINE e == Pump.epoch + 1
  <2>1. /\ e \in Epochs /\ pend'.epoch = e /\ pend'.pending = FALSE /\ pend'.lastSeq = 0
        /\ core' = core
    BY <1>0, <1>16, SpawnFacts
  <2>2. core[e] = NewCore
    <3>1. Pump.epoch \in Nat BY <1>0, Cast
    <3>2. e > Pump.epoch BY <3>1
    <3> QED BY <1>0, <2>1, <3>2 DEF Incarnations
  <2>3. core[e].rows = {} /\ 0 <= core[e].seq BY <2>2 DEF NewCore
  <2> HIDE DEF e
  <2> QED BY <2>1, <2>3 DEF PendFollows
<1> QED
  BY <1>5, <1>7, <1>8, <1>9, <1>10, <1>11, <1>12, <1>13, <1>14, <1>15, <1>16, StepKinds

(* A list that is not read as pending is empty: the entry says so, or the  *)
(* incarnation is sealed.                                                  *)
LEMMA NothingPending ==
  ASSUME GateInv, NEW e \in Epochs, e <= Pump.epoch, ~PendingRead(e)
  PROVE  core[e].rows = {}
<1>0. TypeOK /\ Places /\ Incarnations /\ PendOwner /\ PendFollows BY DEF GateInv
<1>1. Pump.epoch \in Nat /\ e \in Nat BY <1>0, Cast
<1>2. CASE pend # NoEntry /\ pend.epoch = e
  BY <1>0, <1>2 DEF PendingRead, Lookup, PendFollows
<1>3. CASE ~(pend # NoEntry /\ pend.epoch = e)
  <2>1. e < Pump.epoch \/ (e = Pump.epoch /\ Pump.pc \in {"dead", "off"})
    BY <1>0, <1>1, <1>3 DEF PendOwner
  <2>2. core[e].sealed BY <1>0, <2>1 DEF Incarnations, Closed
  <2> QED BY <1>0, <2>2 DEF Incarnations
<1> QED BY <1>2, <1>3

(* One input at a time, and the list before an idle one is empty.          *)
LEMMA InputOrderStep ==
  ASSUME GateInv, Next
  PROVE  InputOrder'
<1>0. TypeOK /\ Places /\ InputOrder /\ Numbers BY DEF GateInv
<1>1. /\ "pump" \in Threads /\ "lane" \in Threads
      /\ \A i \in Inputs : i \in Threads /\ i # "pump" /\ i # "lane"
      /\ \A t \in Threads : /\ thread[t].epoch <= Pump.epoch
                            /\ thread[t].epoch # 0 => thread[t].epoch \in Epochs
                            /\ thread[t].pc \in Emitting =>
                                 thread[t].next \in {"read", "result", "done", "writeQueued", "off"}
      /\ \A i \in Inputs : thread[i].epoch = 0 <=> thread[i].pc \in {"off", "done"}
  BY <1>0, Cast DEF Places
<1>2. ASSUME \A i \in Inputs : /\ thread'[i].epoch \in {thread[i].epoch, 0}
                               /\ thread'[i].pc \in {"readTurn", "writeIdle"} =>
                                    thread'[i] = thread[i],
             \A i \in Inputs : thread[i].pc \in {"readTurn", "writeIdle"}
                               /\ thread'[i] = thread[i] /\ core[thread[i].epoch].rows = {} =>
               core'[thread[i].epoch].rows = {}
      PROVE  InputOrder'
  <2>1. ASSUME NEW i \in Inputs, NEW j \in Inputs, thread'[i].epoch = thread'[j].epoch,
               thread'[i].epoch # 0
        PROVE  i = j
    <3>1. thread'[i].epoch = thread[i].epoch /\ thread'[j].epoch = thread[j].epoch
      BY <1>2, <2>1
    <3> QED BY <1>0, <2>1, <3>1 DEF InputOrder
  <2>2. ASSUME NEW i \in Inputs, thread'[i].pc \in {"readTurn", "writeIdle"}
        PROVE  core'[thread'[i].epoch].rows = {}
    <3>1. thread'[i] = thread[i] BY <1>2, <2>2
    <3> QED BY <1>0, <1>2, <2>2, <3>1 DEF InputOrder
  <2> QED BY <2>1, <2>2 DEF InputOrder
<1>3. ASSUME NEW t, NEW kind, NEW i, NEW next, EmitStep(t, kind, i, next)
      PROVE  InputOrder'
  <2> DEFINE e == thread[t].epoch
  <2>1. t \in Threads /\ next \in Pcs \ Emitting /\ Emitted(t, kind, next) /\ MayEmit(t, kind, i, next)
    BY <1>0, <1>3, EmitFacts DEF EmitStep
  <2>2. /\ e \in Epochs /\ \A x \in Epochs : x # e => core'[x] = core[x]
        /\ kind # "Queued" => core'[e].rows \subseteq core[e].rows
        /\ \A s \in Threads : s # t => thread'[s] = thread[s]
    BY <2>1 DEF Emitted
  <2>3. thread'[t].epoch \in {e, 0} /\ thread'[t].pc \in {"observe", "drain", next}
    BY <1>0, <2>1, EmittedThread
  <2>4. next \in {"read", "result", "done", "writeQueued", "off"} BY <2>1 DEF MayEmit
  <2>5. \A j \in Inputs : /\ thread'[j].epoch \in {thread[j].epoch, 0}
                          /\ thread'[j].pc \in {"readTurn", "writeIdle"} => thread'[j] = thread[j]
    BY <1>1, <2>2, <2>3, <2>4
  <2>6. ASSUME NEW j \in Inputs, thread[j].pc \in {"readTurn", "writeIdle"},
               thread'[j] = thread[j], core[thread[j].epoch].rows = {}
        PROVE  core'[thread[j].epoch].rows = {}
    <3>1. thread[j].epoch \in Epochs BY <1>1, <2>6
    <3>2. CASE kind # "Queued" BY <2>2, <2>6, <3>1, <3>2
    <3>3. CASE kind = "Queued"
      <4>1. t \in Inputs BY <2>1, <3>3 DEF MayEmit
      <4>2. j # t BY <2>3, <2>4, <2>6
      <4>3. thread[j].epoch # e BY <1>0, <1>1, <2>2, <2>6, <3>1, <4>1, <4>2 DEF InputOrder
      <4> QED BY <2>2, <2>6, <3>1, <4>3
    <3> QED BY <3>2, <3>3
  <2> QED BY <1>2, <2>5, <2>6
<1>4. ASSUME NEW t \in Threads, core' = core, \A s \in Threads : s # t => thread'[s] = thread[s],
             thread[t].pc \in Emitting, thread'[t].epoch \in {thread[t].epoch, 0},
             thread'[t].pc \in {"recheck", "drain", "drained", thread[t].next}
      PROVE  InputOrder'
  <2>1. \A j \in Inputs : /\ thread'[j].epoch \in {thread[j].epoch, 0}
                          /\ thread'[j].pc \in {"readTurn", "writeIdle"} => thread'[j] = thread[j]
    BY <1>1, <1>4
  <2> QED BY <1>2, <1>4, <2>1
<1>5. ASSUME NEW t \in Threads, Observe(t) PROVE InputOrder'
  BY <1>0, <1>4, <1>5, ObserveFacts DEF Emitting
<1>6. ASSUME NEW t \in Threads, Recheck(t) PROVE InputOrder'
  BY <1>0, <1>4, <1>6, RecheckFacts DEF Emitting, Recheck
<1>7. ASSUME NEW t \in Threads, WriteDrained(t) PROVE InputOrder'
  BY <1>0, <1>4, <1>7, WriteDrainedFacts DEF Emitting
<1>8. ASSUME NEW t \in Threads, InputsDrained(t) PROVE InputOrder'
  BY <1>0, <1>4, <1>8, InputsDrainedFacts DEF Emitting
<1>9. ASSUME NEW i \in Inputs, InputMove(i)
      PROVE  InputOrder'
  <2>1. InputMoved(i) BY <1>0, <1>9, InputMoveFacts
  <2>2. /\ \A s \in Threads : s # i => thread'[s] = thread[s]
        /\ \A x \in Epochs : core'[x].rows = core[x].rows
    BY <2>1 DEF InputMoved, Moved, SameOutput
  <2> DEFINE old == thread[i]
             new == thread'[i]
  <2>3. /\ \/ old.pc = "off" /\ session # 0 /\ Writing(session) = {} /\ new.epoch = session
           \/ new.epoch \in {old.epoch, 0}
        /\ new.pc = "readTurn" => old.pc = "readPending" /\ new.epoch = old.epoch
                                  /\ ~PendingRead(old.epoch)
        /\ new.pc = "writeIdle" => old.pc = "readTurn" /\ new.epoch = old.epoch
    <3> HIDE DEF old, new
    <3> QED BY <2>1 DEF InputMoved, old, new
  <2> HIDE DEF old, new
  <2>4. \A j, k \in Inputs : thread'[j].epoch = thread'[k].epoch /\ thread'[j].epoch # 0 => j = k
    BY <1>0, <1>1, <2>2, <2>3 DEF InputOrder, Writing, old, new
  <2>5. ASSUME NEW j \in Inputs, thread'[j].pc \in {"readTurn", "writeIdle"}
        PROVE  core'[thread'[j].epoch].rows = {}
    <3>1. CASE j # i
      <4>1. thread'[j] = thread[j] /\ thread[j].epoch \in Epochs BY <1>1, <2>2, <2>5, <3>1
      <4> QED BY <1>0, <2>2, <2>5, <4>1 DEF InputOrder
    <3>2. CASE j = i /\ new.pc = "writeIdle"
      <4>1. old.pc = "readTurn" /\ new.epoch = old.epoch BY <2>3, <3>2
      <4>2. old.epoch \in Epochs BY <1>1, <4>1 DEF old
      <4> QED BY <1>0, <2>2, <3>2, <4>1, <4>2 DEF InputOrder, old, new
    <3>3. CASE j = i /\ new.pc = "readTurn"
      <4>1. old.pc = "readPending" /\ new.epoch = old.epoch /\ ~PendingRead(old.epoch)
        BY <2>3, <3>3
      <4>2. old.epoch \in Epochs /\ old.epoch <= Pump.epoch BY <1>1, <4>1 DEF old
      <4>3. core[old.epoch].rows = {} BY <4>1, <4>2, NothingPending
      <4> QED BY <2>2, <3>3, <4>1, <4>2, <4>3 DEF new
    <3> QED BY <2>5, <3>1, <3>2, <3>3 DEF new
  <2> QED BY <2>4, <2>5 DEF InputOrder
<1>10. ASSUME \A i \in Inputs : thread'[i] = thread[i],
              \A e \in Epochs : core[e].rows = {} => core'[e].rows = {}
       PROVE  InputOrder'
  <2>1. \A i \in Inputs : thread[i].pc \in {"readTurn", "writeIdle"} => thread[i].epoch \in Epochs
    BY <1>1
  <2> QED BY <1>2, <1>10, <2>1
<1>11. CASE LaneMove
  <2>1. LaneMoved BY <1>0, <1>11, LaneMoveFacts
  <2> QED BY <1>1, <1>10, <2>1 DEF LaneMoved, Moved
<1>12. CASE MailArrives \/ PumpAckAvailable \/ PumpJudges
  <2>1. Plain BY <1>12, PlainFacts DEF PlainMove
  <2>2. \A e \in Epochs : core'[e].rows = core[e].rows BY <2>1 DEF Plain, SameOutput
  <2>3. \A i \in Inputs : thread'[i] = thread[i]
    <3>1. CASE MailArrives \/ PumpAckAvailable BY <3>1 DEF MailArrives, PumpAckAvailable
    <3>2. CASE PumpJudges
      <4>1. PumpAt("judge") BY <1>0, <3>2, PumpGoto DEF PumpJudges, Pcs
      <4> QED BY <1>1, <4>1 DEF PumpAt
    <3> QED BY <1>12, <3>1, <3>2
  <2> QED BY <1>10, <2>2, <2>3
<1>13. CASE Finalize
  <2>1. \A e \in Epochs : core'[e].rows = core[e].rows BY <1>0, <1>13, FinalizeFacts
  <2> QED BY <1>1, <1>10, <1>13, <2>1, QuietFacts DEF PumpAt
<1>14. CASE Seal
  <2>1. \A e \in Epochs : core[e].rows = {} => core'[e].rows = {} BY <1>0, <1>14, SealFacts
  <2> QED BY <1>1, <1>10, <1>14, <2>1, QuietFacts DEF PumpAt
<1>15. CASE ReapTurns \/ ReapPending \/ Reap
  <2>1. core' = core BY <1>15 DEF ReapTurns, ReapPending, Reap
  <2> QED BY <1>1, <1>10, <1>15, <2>1, QuietFacts DEF PumpAt
<1>16. CASE Spawn
  BY <1>0, <1>1, <1>10, <1>16, SpawnFacts
<1>17. CASE SweepStep
  BY <1>10, <1>17, QuietFacts
<1> QED
  BY <1>3, <1>5, <1>6, <1>7, <1>8, <1>9, <1>11, <1>12, <1>13, <1>14, <1>15, <1>16, <1>17,
     StepKinds DEF PlainMove

(* Numbers are used once.                                                  *)
LEMMA NumbersStep ==
  ASSUME GateInv, Next
  PROVE  Numbers'
<1>0. TypeOK /\ Places /\ Incarnations /\ PendFollows /\ Numbers BY DEF GateInv
<1>1. /\ Pump = thread["pump"] /\ Pump' = thread'["pump"]
      /\ "pump" \in Threads /\ "lane" \in Threads /\ Lane = thread["lane"]
      /\ \A i \in Inputs : i \in Threads
      /\ \A t \in Threads : /\ thread[t].epoch \in Nat /\ thread[t].seq \in Nat
                            /\ thread[t].drain \in Nat /\ thread[t].saw.seq \in Nat
                            /\ thread[t].epoch # 0 => thread[t].epoch \in Epochs
                            /\ thread[t].pc \in Emitting => /\ thread[t].epoch \in Epochs
                                                            /\ thread[t].next \notin Emitting
      /\ \A e \in Epochs : core[e].seq \in Nat /\ e # 0
      /\ turns # NoEntry => turns.epoch \in Epochs /\ turns.lastSeq \in Nat /\ turns.lastEnd \in Nat
      /\ pend # NoEntry => pend.epoch \in Epochs /\ pend.lastSeq \in Nat
  BY <1>0, Cast
<1>2. \A p \in stale \cup sweeper.seen : p[1] \in Epochs /\ p[2] \in Nat
  BY <1>0 DEF TypeOK
<1>3. ASSUME
        \A t \in Threads :
             /\ thread'[t].epoch # 0 => /\ thread'[t].drain <= core'[thread'[t].epoch].seq
                                        /\ thread'[t].saw.seq <= core'[thread'[t].epoch].seq
             /\ thread'[t].pc = "observe" =>
                  /\ thread'[t].epoch # 0
                  /\ 0 < thread'[t].seq /\ thread'[t].seq <= core'[thread'[t].epoch].seq
                  /\ thread'[t].signal # "none",
        \A s, t \in Threads :
             thread'[s].pc = "observe" /\ thread'[t].pc = "observe"
               /\ thread'[s].epoch = thread'[t].epoch /\ thread'[s].seq = thread'[t].seq => s = t,
        turns' # NoEntry =>
             /\ turns'.lastSeq <= core'[turns'.epoch].seq
             /\ turns'.lastEnd <= turns'.lastSeq
             /\ \A t \in Threads : thread'[t].pc = "observe" /\ thread'[t].epoch = turns'.epoch =>
                                     thread'[t].seq # turns'.lastSeq,
        \A p \in stale' \cup sweeper'.seen :
             /\ p[2] <= core'[p[1]].seq
             /\ \A t \in Threads : thread'[t].pc = "observe" /\ thread'[t].epoch = p[1] =>
                                     thread'[t].seq # p[2]
      PROVE  Numbers'
  BY <1>3 DEF Numbers
<1> DEFINE Grows == \A e \in Epochs : core'[e].seq \in Nat /\ core'[e].seq >= core[e].seq
           Seen(t) == thread'[t].epoch # 0 =>
                        /\ thread'[t].drain <= core'[thread'[t].epoch].seq
                        /\ thread'[t].saw.seq <= core'[thread'[t].epoch].seq
<1>4. UNCHANGED core => Grows BY <1>1
<1>5. ASSUME Grows, NEW t \in Threads, thread'[t] = thread[t]
      PROVE  /\ Seen(t)
             /\ thread'[t].pc = "observe" =>
                  /\ thread'[t].epoch # 0
                  /\ 0 < thread'[t].seq /\ thread'[t].seq <= core'[thread'[t].epoch].seq
                  /\ thread'[t].signal # "none"
  <2>1. CASE thread[t].epoch = 0 BY <1>0, <1>5, <2>1 DEF Numbers
  <2>2. CASE thread[t].epoch # 0
    <3> DEFINE e == thread[t].epoch
    <3>1. e \in Epochs /\ core[e].seq \in Nat /\ core'[e].seq \in Nat /\ core'[e].seq >= core[e].seq
      BY <1>1, <1>5, <2>2
    <3>2. /\ thread[t].drain <= core[e].seq /\ thread[t].saw.seq <= core[e].seq
          /\ thread[t].pc = "observe" =>
               0 < thread[t].seq /\ thread[t].seq <= core[e].seq /\ thread[t].signal # "none"
      BY <1>0, <2>2 DEF Numbers
    <3>3. thread[t].drain \in Nat /\ thread[t].saw.seq \in Nat /\ thread[t].seq \in Nat BY <1>1
    <3>4. /\ thread[t].drain <= core'[e].seq /\ thread[t].saw.seq <= core'[e].seq
          /\ thread[t].pc = "observe" => thread[t].seq <= core'[e].seq
      BY <3>1, <3>2, <3>3
    <3> QED BY <1>5, <2>2, <3>2, <3>4
  <2> QED BY <2>1, <2>2
<1>6. ASSUME Grows, NEW t \in Threads, \A s \in Threads : s # t => thread'[s] = thread[s],
             thread'[t].pc # "observe", Seen(t)
      PROVE  /\ \A s \in Threads :
                  /\ Seen(s)
                  /\ thread'[s].pc = "observe" =>
                       /\ thread'[s].epoch # 0
                       /\ 0 < thread'[s].seq /\ thread'[s].seq <= core'[thread'[s].epoch].seq
                       /\ thread'[s].signal # "none"
             /\ \A s, r \in Threads :
                  thread'[s].pc = "observe" /\ thread'[r].pc = "observe"
                    /\ thread'[s].epoch = thread'[r].epoch /\ thread'[s].seq = thread'[r].seq
                  => s = r
             /\ \A s \in Threads : thread'[s].pc = "observe" =>
                                     thread[s].pc = "observe" /\ thread'[s] = thread[s]
  BY <1>0, <1>5, <1>6 DEF Numbers
<1>7. ASSUME Grows, turns' \in {turns, NoEntry},
             \A s \in Threads : thread'[s].pc = "observe" =>
                                  thread[s].pc = "observe" /\ thread'[s] = thread[s]
      PROVE  turns' # NoEntry =>
             /\ turns'.lastSeq <= core'[turns'.epoch].seq
             /\ turns'.lastEnd <= turns'.lastSeq
             /\ \A t \in Threads : thread'[t].pc = "observe" /\ thread'[t].epoch = turns'.epoch =>
                                     thread'[t].seq # turns'.lastSeq
  BY <1>0, <1>1, <1>7 DEF Numbers
<1>8. ASSUME Grows, stale' \cup sweeper'.seen \subseteq stale \cup sweeper.seen,
             \A s \in Threads : thread'[s].pc = "observe" =>
                                  thread[s].pc = "observe" /\ thread'[s] = thread[s]
      PROVE  \A p \in stale' \cup sweeper'.seen :
             /\ p[2] <= core'[p[1]].seq
             /\ \A t \in Threads : thread'[t].pc = "observe" /\ thread'[t].epoch = p[1] =>
                                     thread'[t].seq # p[2]
  <2> SUFFICES ASSUME NEW p \in stale \cup sweeper.seen
               PROVE  /\ p[2] <= core'[p[1]].seq
                      /\ \A t \in Threads : thread'[t].pc = "observe" /\ thread'[t].epoch = p[1] =>
                                     thread'[t].seq # p[2]
    BY <1>8
  <2>1. /\ p[2] <= core[p[1]].seq
        /\ \A t \in Threads : thread[t].pc = "observe" /\ thread[t].epoch = p[1] =>
                                     thread[t].seq # p[2]
    BY <1>0 DEF Numbers
  <2>2. p[1] \in Epochs /\ p[2] \in Nat BY <1>2
  <2>3. core'[p[1]].seq \in Nat /\ core'[p[1]].seq >= core[p[1]].seq /\ core[p[1]].seq \in Nat
    BY <1>1, <1>8, <2>2
  <2>4. p[2] <= core'[p[1]].seq BY <2>1, <2>2, <2>3
  <2> QED BY <1>8, <2>1, <2>4
<1>9. ASSUME Grows, NEW t \in Threads, \A s \in Threads : s # t => thread'[s] = thread[s],
             thread'[t].pc # "observe", Seen(t), turns' \in {turns, NoEntry},
             UNCHANGED <<stale, sweeper>>
      PROVE  Numbers'
  <2> HIDE DEF Grows, Seen
  <2>1. \A s \in Threads : Seen(s) BY <1>6, <1>9
  <2>2. \A s \in Threads : thread'[s].pc = "observe" =>
                                     thread[s].pc = "observe" /\ thread'[s] = thread[s]
    BY <1>6, <1>9
  <2>3. stale' \cup sweeper'.seen \subseteq stale \cup sweeper.seen BY <1>9
  <2> USE DEF Seen
  <2> QED BY <1>6, <1>7, <1>8, <1>9, <2>1, <2>2, <2>3 DEF Numbers
<1>10. ASSUME NEW t, NEW kind, NEW i, NEW next, EmitStep(t, kind, i, next)
      PROVE  Numbers'
  <2> DEFINE e == thread[t].epoch
             n == core'[e].seq
             new == thread'[t]
  <2>1. t \in Threads /\ next \in Pcs \ Emitting /\ Emitted(t, kind, next)
    BY <1>0, <1>10, EmitFacts
  <2>2. /\ e \in Epochs /\ thread[t].pc \notin Emitting
        /\ \A x \in Epochs : x # e => core'[x] = core[x]
        /\ n \in Nat /\ n > core[e].seq
        /\ \A s \in Threads : s # t => thread'[s] = thread[s]
    BY <2>1 DEF Emitted
  <2>3. /\ new.epoch \in {e, 0} /\ new.saw.seq = 0 /\ new.drain \in {0, n}
        /\ new.pc = "observe" => new.epoch = e /\ new.seq = n /\ new.signal # "none"
    BY <1>0, <2>1, EmittedThread, ZenonT(60) DEF Emitting
  <2>4. UNCHANGED <<turns, stale, sweeper>> BY <1>10 DEF EmitStep
  <2>5. Grows BY <1>1, <2>2
  <2>6. core[e].seq \in Nat BY <1>1, <2>2
  <2>7. Seen(t) BY <2>2, <2>3
  <2>8. ASSUME NEW s \in Threads, s # t
        PROVE  /\ Seen(s)
               /\ thread'[s].pc = "observe" =>
                    /\ thread'[s].epoch # 0
                    /\ 0 < thread'[s].seq /\ thread'[s].seq <= core'[thread'[s].epoch].seq
                    /\ thread'[s].signal # "none"
               /\ thread'[s].pc = "observe" /\ thread'[s].epoch = e => thread'[s].seq < n
    <3>1. thread'[s] = thread[s] BY <2>2, <2>8
    <3>2. thread[s].pc = "observe" /\ thread[s].epoch = e => thread[s].seq < n
      BY <1>0, <1>1, <2>2, <2>6 DEF Numbers
    <3> HIDE DEF Grows
    <3> QED BY <1>5, <2>5, <3>1, <3>2
  <2>9. \A s \in Threads :
          /\ Seen(s)
          /\ thread'[s].pc = "observe" =>
               /\ thread'[s].epoch # 0
               /\ 0 < thread'[s].seq /\ thread'[s].seq <= core'[thread'[s].epoch].seq
               /\ thread'[s].signal # "none"
    <3>1. new.pc = "observe" => new.epoch # 0 /\ 0 < new.seq /\ new.seq <= core'[new.epoch].seq
                                /\ new.signal # "none"
      BY <1>1, <2>2, <2>3, <2>6
    <3> HIDE DEF Seen
    <3> QED BY <2>7, <2>8, <3>1
  <2>10. \A s, r \in Threads :
           thread'[s].pc = "observe" /\ thread'[r].pc = "observe"
             /\ thread'[s].epoch = thread'[r].epoch /\ thread'[s].seq = thread'[r].seq => s = r
    <3> SUFFICES ASSUME NEW s \in Threads, NEW r \in Threads, s # r,
                        thread'[s].pc = "observe", thread'[r].pc = "observe",
                        thread'[s].epoch = thread'[r].epoch, thread'[s].seq = thread'[r].seq
                 PROVE  FALSE
      OBVIOUS
    <3>1. CASE s = t
      <4>1. thread'[s].seq = n /\ thread'[s].epoch = e BY <2>3, <3>1
      <4>2. thread'[r].seq < n BY <2>8, <3>1, <4>1
      <4> QED BY <2>2, <4>1, <4>2
    <3>2. CASE r = t
      <4>1. thread'[r].seq = n /\ thread'[r].epoch = e BY <2>3, <3>2
      <4>2. thread'[s].seq < n BY <2>8, <3>2, <4>1
      <4> QED BY <2>2, <4>1, <4>2
    <3>3. CASE s # t /\ r # t BY <1>0, <2>2, <3>3 DEF Numbers
    <3> QED BY <3>1, <3>2, <3>3
  <2>11. ASSUME turns # NoEntry
         PROVE  /\ turns.lastSeq <= core'[turns.epoch].seq
                /\ turns.lastEnd <= turns.lastSeq
                /\ \A s \in Threads : thread'[s].pc = "observe" /\ thread'[s].epoch = turns.epoch =>
                                        thread'[s].seq # turns.lastSeq
    <3>1. turns.lastSeq <= core[turns.epoch].seq /\ turns.lastEnd <= turns.lastSeq
      BY <1>0, <2>11 DEF Numbers
    <3>2. turns.lastSeq <= core'[turns.epoch].seq BY <1>1, <2>5, <2>11, <3>1
    <3>3. turns.epoch = e => turns.lastSeq < n BY <1>1, <2>2, <2>6, <2>11, <3>1
    <3>4. new.pc = "observe" /\ new.epoch = turns.epoch => new.seq # turns.lastSeq
      BY <1>1, <2>2, <2>3, <2>11, <3>3
    <3> QED BY <1>0, <2>2, <2>11, <3>1, <3>2, <3>4 DEF Numbers
  <2>12. ASSUME NEW p \in stale \cup sweeper.seen
         PROVE  /\ p[2] <= core'[p[1]].seq
                /\ \A s \in Threads : thread'[s].pc = "observe" /\ thread'[s].epoch = p[1] =>
                                        thread'[s].seq # p[2]
    <3>1. p[2] <= core[p[1]].seq /\ p[1] \in Epochs /\ p[2] \in Nat
      BY <1>0, <1>2 DEF Numbers
    <3>2. p[2] <= core'[p[1]].seq BY <1>1, <2>5, <3>1
    <3>3. p[1] = e => p[2] < n BY <2>2, <2>6, <3>1
    <3>4. new.pc = "observe" /\ new.epoch = p[1] => new.seq # p[2]
      BY <2>2, <2>3, <3>1, <3>3
    <3> QED BY <1>0, <2>2, <3>2, <3>4 DEF Numbers
  <2> QED BY <1>3, <2>4, <2>9, <2>10, <2>11, <2>12
<1>11. ASSUME NEW t \in Threads, Observe(t)
      PROVE  Numbers'
  <2> DEFINE me == thread[t]
  <2>1. /\ me.pc = "observe" /\ me.epoch \in Epochs /\ me.seq \in Nat
        /\ turns' \in TurnEntries /\ turns' # NoEntry /\ turns'.lastEnd <= turns'.lastSeq
        /\ turns # NoEntry => turns'.epoch = turns.epoch
        /\ turns = NoEntry => /\ turns'.epoch = me.epoch
                              /\ AbsorbEffect(Fresh(me.epoch), me.seq, me.signal, turns')
        /\ turns # NoEntry /\ turns.epoch # me.epoch => turns' = turns
        /\ turns # NoEntry /\ turns.epoch = me.epoch =>
              AbsorbEffect(turns, me.seq, me.signal, turns')
        /\ \A s \in Threads : s # t => thread'[s] = thread[s]
        /\ thread'[t].pc = "recheck" /\ thread'[t].epoch = me.epoch
        /\ thread'[t].drain = me.drain /\ thread'[t].saw = me.saw
        /\ UNCHANGED <<core, stale, sweeper>>
    BY <1>0, <1>11, ObserveFacts
  <2>2. Grows BY <1>4, <2>1
  <2>3. Seen(t) BY <1>0, <2>1 DEF Numbers
  <2>4. me.seq <= core[me.epoch].seq /\ 0 < me.seq BY <1>0, <2>1 DEF Numbers
  <2>5. CASE turns # NoEntry /\ turns.epoch # me.epoch
    BY <1>9, <2>1, <2>2, <2>3, <2>5
  <2>6. CASE turns = NoEntry \/ turns.epoch = me.epoch
    <3>1. /\ turns'.epoch = me.epoch
          /\ turns'.lastSeq = me.seq \/ (turns # NoEntry /\ turns'.lastSeq = turns.lastSeq)
      <4>1. CASE turns = NoEntry
        <5>1. turns'.lastSeq = me.seq
          <6>1. Fresh(me.epoch).lastSeq = 0 BY <2>1, FreshFacts
          <6> QED BY <2>1, <4>1, <6>1 DEF AbsorbEffect
        <5> QED BY <2>1, <4>1, <5>1
      <4>2. CASE turns # NoEntry
        BY <2>1, <2>6, <4>2 DEF AbsorbEffect
      <4> QED BY <4>1, <4>2
    <3>2. turns'.lastSeq <= core[me.epoch].seq
      BY <1>0, <1>1, <2>4, <2>6, <3>1 DEF Numbers
    <3>3. ASSUME NEW s \in Threads, thread'[s].pc = "observe", thread'[s].epoch = turns'.epoch
          PROVE  thread'[s].seq # turns'.lastSeq
      <4>1. s # t /\ thread'[s] = thread[s] BY <2>1, <3>3
      <4>2. thread[s].seq # me.seq BY <1>0, <2>1, <3>1, <3>3, <4>1 DEF Numbers
      <4>3. turns # NoEntry => thread[s].seq # turns.lastSeq
        BY <1>0, <2>6, <3>1, <3>3, <4>1 DEF Numbers
      <4> QED BY <3>1, <4>1, <4>2, <4>3
    <3>4. /\ \A s \in Threads :
               /\ Seen(s)
               /\ thread'[s].pc = "observe" =>
                    /\ thread'[s].epoch # 0
                    /\ 0 < thread'[s].seq /\ thread'[s].seq <= core'[thread'[s].epoch].seq
                    /\ thread'[s].signal # "none"
          /\ \A s, r \in Threads :
               thread'[s].pc = "observe" /\ thread'[r].pc = "observe"
                 /\ thread'[s].epoch = thread'[r].epoch /\ thread'[s].seq = thread'[r].seq
               => s = r
          /\ \A s \in Threads : thread'[s].pc = "observe" =>
                                  thread[s].pc = "observe" /\ thread'[s] = thread[s]
      <4> HIDE DEF Seen, Grows
      <4> QED BY <1>6, <2>1, <2>2, <2>3
    <3>5. \A p \in stale' \cup sweeper'.seen :
             /\ p[2] <= core'[p[1]].seq
             /\ \A s \in Threads : thread'[s].pc = "observe" /\ thread'[s].epoch = p[1] =>
                                     thread'[s].seq # p[2]
      <4> HIDE DEF Grows
      <4> QED BY <1>8, <2>1, <2>2, <3>4
    <3> QED BY <1>3, <2>1, <3>1, <3>2, <3>3, <3>4, <3>5
  <2> QED BY <2>5, <2>6
<1>12. ASSUME NEW t \in Threads, Recheck(t)
      PROVE  Numbers'
  <2>1. /\ thread[t].pc = "recheck" /\ \A s \in Threads : s # t => thread'[s] = thread[s]
        /\ \/ /\ thread'[t].pc = "drain" /\ thread'[t].epoch = thread[t].epoch
              /\ thread'[t].drain = thread[t].drain /\ thread'[t].saw = thread[t].saw
           \/ /\ thread'[t].pc = thread[t].next
              /\ thread'[t].epoch \in {thread[t].epoch, 0}
              /\ thread'[t].drain = 0 /\ thread'[t].saw.seq = 0
    BY <1>0, <1>12, RecheckFacts
  <2>2. UNCHANGED <<core, stale, sweeper>> /\ turns' \in {turns, NoEntry}
    BY <1>12 DEF Recheck, Forgotten
  <2>3. thread'[t].pc # "observe" BY <1>1, <2>1 DEF Emitting
  <2>4. Seen(t) BY <1>0, <1>1, <2>1, <2>2 DEF Numbers, Emitting
  <2>5. Grows BY <1>4, <2>2
  <2> HIDE DEF Seen, Grows
  <2> QED BY <1>9, <2>1, <2>2, <2>3, <2>4, <2>5
<1>13. ASSUME NEW t \in Threads, WriteDrained(t)
      PROVE  Numbers'
  <2>1. /\ \A s \in Threads : s # t => thread'[s] = thread[s]
        /\ thread'[t].pc = "drained" /\ thread'[t].epoch = thread[t].epoch
        /\ thread'[t].drain = thread[t].drain /\ thread'[t].saw = thread[t].saw
        /\ UNCHANGED <<turns, core, stale, sweeper>>
    BY <1>0, <1>13, WriteDrainedFacts
  <2>2. Seen(t) BY <1>0, <2>1 DEF Numbers
  <2>3. Grows BY <1>4, <2>1
  <2> HIDE DEF Seen, Grows
  <2> QED BY <1>9, <2>1, <2>2, <2>3
<1>14. ASSUME NEW t \in Threads, InputsDrained(t)
      PROVE  Numbers'
  <2>1. /\ thread[t].pc = "drained" /\ \A s \in Threads : s # t => thread'[s] = thread[s]
        /\ thread'[t].pc = thread[t].next /\ thread'[t].epoch \in {thread[t].epoch, 0}
        /\ thread'[t].drain = 0 /\ thread'[t].saw.seq = 0
        /\ UNCHANGED <<turns, core, stale, sweeper>>
    BY <1>0, <1>14, InputsDrainedFacts
  <2>2. Seen(t) BY <1>1, <2>1 DEF Emitting
  <2>3. Grows BY <1>4, <2>1
  <2>4. thread'[t].pc # "observe" BY <1>1, <2>1 DEF Emitting
  <2> HIDE DEF Seen, Grows
  <2> QED BY <1>9, <2>1, <2>2, <2>3, <2>4
<1>15. ASSUME NEW e \in Epochs
       PROVE  LET p == Lookup(pend, e)
                  n == IF p = NoEntry THEN 0 ELSE p.lastSeq IN n \in Nat /\ n <= core[e].seq
  BY <1>0, <1>1 DEF Lookup, PendFollows
<1>16. ASSUME Plain, NEW t \in Threads, t # "pump", Moved(t), 
              \/ thread'[t].saw.seq = 0
              \/ thread'[t].epoch = thread[t].epoch /\ thread'[t].saw.seq = thread[t].saw.seq
              \/ /\ thread'[t].epoch = thread[t].epoch
                 /\ thread'[t].saw.seq = IF Lookup(pend, thread[t].epoch) = NoEntry THEN 0
                                         ELSE Lookup(pend, thread[t].epoch).lastSeq
       PROVE  Numbers'
  <2>1. Grows BY <1>16 DEF Plain, Steady
  <2>2. thread'[t].epoch # 0 => thread'[t].epoch \in Epochs
    BY <1>16, GateAssumption DEF Moved, Calls, Epochs
  <2>3. thread'[t].epoch # 0 => core'[thread'[t].epoch].seq = core[thread'[t].epoch].seq
    BY <1>16, <2>2 DEF Plain, SameOutput
  <2>4. thread'[t].epoch # 0 => thread'[t].drain <= core'[thread'[t].epoch].seq
    BY <1>0, <1>1, <1>16, <2>2, <2>3 DEF Moved, Numbers
  <2>5. thread'[t].epoch # 0 => thread'[t].saw.seq <= core'[thread'[t].epoch].seq
    BY <1>0, <1>1, <1>15, <1>16, <2>2, <2>3 DEF Numbers
  <2>6. Seen(t) BY <2>4, <2>5
  <2>7. thread'[t].pc # "observe" BY <1>16 DEF Moved, Emitting
  <2> HIDE DEF Seen, Grows
  <2> QED BY <1>9, <1>16, <2>1, <2>6, <2>7 DEF Plain, Moved
<1>17. ASSUME NEW i \in Inputs, InputMove(i)
       PROVE  Numbers'
  <2>1. InputMoved(i) BY <1>0, <1>17, InputMoveFacts
  <2>2. Blind.seq = 0 BY DEF Blind
  <2>3. \/ thread'[i].saw.seq = 0
        \/ thread'[i].epoch = thread[i].epoch /\ thread'[i].saw.seq = thread[i].saw.seq
        \/ /\ thread'[i].epoch = thread[i].epoch
           /\ thread'[i].saw.seq = IF Lookup(pend, thread[i].epoch) = NoEntry THEN 0
                                   ELSE Lookup(pend, thread[i].epoch).lastSeq
    BY <2>1, <2>2 DEF InputMoved
  <2>4. Plain BY <1>17, PlainFacts DEF PlainMove
  <2>5. Moved(i) /\ i \in Threads /\ i # "pump" BY <1>0, <2>1, Cast DEF InputMoved
  <2> QED BY <1>16, <2>3, <2>4, <2>5
<1>18. CASE LaneMove
  <2>1. LaneMoved BY <1>0, <1>18, LaneMoveFacts
  <2>2. Blind.seq = 0 BY DEF Blind
  <2>3. \/ thread'["lane"].saw.seq = 0
        \/ thread'["lane"].epoch = Lane.epoch /\ thread'["lane"].saw.seq = Lane.saw.seq
        \/ /\ thread'["lane"].epoch = Lane.epoch
           /\ thread'["lane"].saw.seq = IF Lookup(pend, Lane.epoch) = NoEntry THEN 0
                                        ELSE Lookup(pend, Lane.epoch).lastSeq
    BY <2>1, <2>2 DEF LaneMoved
  <2>4. Plain BY <1>18, PlainFacts DEF PlainMove
  <2>5. Moved("lane") BY <2>1 DEF LaneMoved
  <2> QED BY <1>1, <1>16, <2>3, <2>4, <2>5
<1>19. ASSUME Grows, \A s \in Threads : s # "pump" => thread'[s] = thread[s],
              Seen("pump"), Pump'.pc # "observe", turns' \in {turns, NoEntry},
              UNCHANGED <<stale, sweeper>>
       PROVE  Numbers'
  <2> HIDE DEF Seen, Grows
  <2> QED BY <1>1, <1>9, <1>19
<1>20. ASSUME Grows, NEW pc \in {"judge"} \cup Finished, PumpAt(pc), turns' \in {turns, NoEntry},
              UNCHANGED <<stale, sweeper>>, Pump.pc # "off"
       PROVE  Numbers'
  <2>1. Pump.epoch \in Epochs BY <1>0, <1>20, Cast
  <2>2. Seen("pump")
    <3> DEFINE e == Pump.epoch
    <3>1. core'[e].seq \in Nat /\ core'[e].seq >= core[e].seq /\ core[e].seq \in Nat
      BY <1>1, <1>20, <2>1
    <3>2. Pump.drain <= core[e].seq /\ Pump.saw.seq <= core[e].seq
      BY <1>0, <1>1, <2>1 DEF Numbers
    <3>3. Pump.drain \in Nat /\ Pump.saw.seq \in Nat BY <1>1
    <3>4. Pump.drain <= core'[e].seq /\ Pump.saw.seq <= core'[e].seq BY <3>1, <3>2, <3>3
    <3> QED BY <1>20, <3>4 DEF PumpAt
  <2> HIDE DEF Seen, Grows
  <2> QED BY <1>1, <1>19, <1>20, <2>2 DEF PumpAt, Finished
<1>21. CASE MailArrives \/ PumpAckAvailable \/ PumpJudges
  <2>1. Plain BY <1>21, PlainFacts DEF PlainMove
  <2>2. Grows BY <2>1 DEF Plain, Steady
  <2>3. CASE PumpJudges
    <3>1. PumpAt("judge") /\ Pump.pc = "read" BY <1>0, <2>3, PumpGoto DEF PumpJudges, Pcs, Reading
    <3> HIDE DEF Grows
    <3> QED BY <1>20, <2>1, <2>2, <3>1 DEF Plain
  <2>4. CASE MailArrives \/ PumpAckAvailable
    <3>1. UNCHANGED thread BY <2>4 DEF MailArrives, PumpAckAvailable
    <3>2. \A s \in Threads : thread'[s] = thread[s] BY <3>1
    <3>3. /\ \A s \in Threads : Seen(s)
          /\ \A s \in Threads : thread'[s].pc = "observe" =>
               /\ thread'[s].epoch # 0
               /\ 0 < thread'[s].seq /\ thread'[s].seq <= core'[thread'[s].epoch].seq
               /\ thread'[s].signal # "none"
      <4> HIDE DEF Grows
      <4> QED BY <1>5, <2>2, <3>2
    <3>4. \A s, r \in Threads :
             thread'[s].pc = "observe" /\ thread'[r].pc = "observe"
               /\ thread'[s].epoch = thread'[r].epoch /\ thread'[s].seq = thread'[r].seq
             => s = r
      BY <1>0, <3>2 DEF Numbers
    <3>5. UNCHANGED <<turns, stale, sweeper>> BY <2>1 DEF Plain
    <3>6. turns' # NoEntry =>
           /\ turns'.lastSeq <= core'[turns'.epoch].seq
           /\ turns'.lastEnd <= turns'.lastSeq
           /\ \A t \in Threads : thread'[t].pc = "observe" /\ thread'[t].epoch = turns'.epoch =>
                                   thread'[t].seq # turns'.lastSeq
      <4> HIDE DEF Grows
      <4> QED BY <1>7, <2>2, <3>2, <3>5
    <3>7. \A p \in stale' \cup sweeper'.seen :
           /\ p[2] <= core'[p[1]].seq
           /\ \A t \in Threads : thread'[t].pc = "observe" /\ thread'[t].epoch = p[1] =>
                                   thread'[t].seq # p[2]
      <4> HIDE DEF Grows
      <4> QED BY <1>8, <2>2, <3>2, <3>5
    <3> QED BY <1>3, <3>3, <3>4, <3>6, <3>7
  <2> QED BY <1>21, <2>3, <2>4
<1>22. CASE Finalize
  <2>1. Grows
    <3> DEFINE x == Pump.epoch
    <3>1. /\ \A e \in Epochs : e # x => core'[e] = core[e]
          /\ core'[x].seq = core[x].seq
      BY <1>0, <1>22, FinalizeFacts
    <3> HIDE DEF x
    <3> QED BY <1>1, <3>1
  <2>2. PumpAt("seal") /\ Pump.pc = "read" /\ UNCHANGED <<turns, stale, sweeper>>
    BY <1>22, QuietFacts DEF Finalize
  <2> HIDE DEF Grows
  <2> QED BY <1>20, <2>1, <2>2 DEF Finished
<1>23. CASE Seal
  <2>1. Grows
    <3> DEFINE x == Pump.epoch
    <3>1. /\ \A e \in Epochs : e # x => core'[e] = core[e]
          /\ core'[x].seq >= core[x].seq /\ core' \in [Epochs -> Cores]
      BY <1>0, <1>23, SealFacts
    <3>2. \A e \in Epochs : core'[e].seq \in Nat BY <3>1 DEF Cores
    <3> HIDE DEF x
    <3> QED BY <1>1, <3>1, <3>2
  <2>2. PumpAt("reapTurns") /\ Pump.pc = "seal" /\ UNCHANGED <<turns, stale, sweeper>>
    BY <1>23, QuietFacts DEF Seal
  <2> HIDE DEF Grows
  <2> QED BY <1>20, <2>1, <2>2 DEF Finished
<1>24. CASE ReapTurns
  <2>1. /\ PumpAt("reapPending") /\ Pump.pc = "reapTurns" /\ UNCHANGED <<core, stale, sweeper>>
        /\ turns' \in {turns, NoEntry}
    BY <1>24, QuietFacts DEF ReapTurns, Forgotten
  <2>2. Grows BY <1>4, <2>1
  <2> HIDE DEF Grows
  <2> QED BY <1>20, <2>1, <2>2 DEF Finished
<1>25. CASE ReapPending
  <2>1. PumpAt("dead") /\ Pump.pc = "reapPending" /\ UNCHANGED <<turns, core, stale, sweeper>>
    BY <1>25, QuietFacts DEF ReapPending
  <2>2. Grows BY <1>4, <2>1
  <2> HIDE DEF Grows
  <2> QED BY <1>20, <2>1, <2>2 DEF Finished
<1>26. CASE Reap
  <2>1. PumpAt("off") /\ Pump.pc = "dead" /\ UNCHANGED <<turns, core, stale, sweeper>>
    BY <1>26, QuietFacts DEF Reap
  <2>2. Grows BY <1>4, <2>1
  <2> HIDE DEF Grows
  <2> QED BY <1>20, <2>1, <2>2 DEF Finished
<1>27. CASE Spawn
  <2> DEFINE e == Pump.epoch + 1
  <2>1. /\ e \in Epochs /\ turns'.epoch = e /\ turns'.lastSeq = 0 /\ turns'.lastEnd = 0
        /\ \A s \in Threads : s # "pump" => thread'[s] = thread[s]
        /\ thread'["pump"].pc = "read" /\ thread'["pump"].epoch = e
        /\ thread'["pump"].drain = 0 /\ thread'["pump"].saw.seq = 0
        /\ UNCHANGED <<core, stale, sweeper>>
    BY <1>0, <1>27, SpawnFacts
  <2>2. Grows BY <1>4, <2>1
  <2> HIDE DEF e
  <2>3. Seen("pump") BY <1>1, <2>1
  <2>4. thread'["pump"].pc # "observe" BY <2>1
  <2>5. /\ \A s \in Threads :
               /\ Seen(s)
               /\ thread'[s].pc = "observe" =>
                    /\ thread'[s].epoch # 0
                    /\ 0 < thread'[s].seq /\ thread'[s].seq <= core'[thread'[s].epoch].seq
                    /\ thread'[s].signal # "none"
        /\ \A s, r \in Threads :
             thread'[s].pc = "observe" /\ thread'[r].pc = "observe"
               /\ thread'[s].epoch = thread'[r].epoch /\ thread'[s].seq = thread'[r].seq
             => s = r
        /\ \A s \in Threads : thread'[s].pc = "observe" =>
                                thread[s].pc = "observe" /\ thread'[s] = thread[s]
    <3> HIDE DEF Seen, Grows
    <3> QED BY <1>1, <1>6, <2>1, <2>2, <2>3, <2>4
  <2>6. \A p \in stale' \cup sweeper'.seen :
             /\ p[2] <= core'[p[1]].seq
             /\ \A s \in Threads : thread'[s].pc = "observe" /\ thread'[s].epoch = p[1] =>
                                     thread'[s].seq # p[2]
    <3> HIDE DEF Grows
    <3> QED BY <1>8, <2>1, <2>2, <2>5
  <2>7. turns'.lastSeq <= core'[turns'.epoch].seq /\ turns'.lastEnd <= turns'.lastSeq
    BY <1>1, <2>1
  <2>8. \A t \in Threads : thread'[t].pc = "observe" => thread'[t].seq # turns'.lastSeq
    BY <1>1, <2>1, <2>5
  <2> QED BY <1>3, <2>5, <2>6, <2>7, <2>8
<1>28. CASE SweepStep
  <2>1. UNCHANGED <<turns, core, thread>> BY <1>28, QuietFacts
  <2>2. stale' \cup sweeper'.seen \subseteq stale \cup sweeper.seen \cup RunningTurn
    <3>1. ASSUME NEW aged, SweepRead(aged), aged \in {{}, RunningTurn}
          PROVE  stale' = stale /\ sweeper'.seen \subseteq RunningTurn
      BY <3>1 DEF SweepRead
    <3>2. ASSUME SweepSwap PROVE stale' = sweeper.seen /\ sweeper'.seen = {}
      BY <3>2 DEF SweepSwap
    <3>3. ASSUME SweepWake PROVE stale' = stale /\ sweeper'.seen = sweeper.seen
      BY <1>0, <3>3 DEF SweepWake, TypeOK
    <3> QED BY <1>28, <3>1, <3>2, <3>3 DEF SweepStep
  <2>3. \A p \in RunningTurn :
          /\ p[2] <= core[p[1]].seq
          /\ \A t \in Threads : thread[t].pc = "observe" /\ thread[t].epoch = p[1] =>
                                  thread[t].seq # p[2]
    BY <1>0 DEF RunningTurn, Numbers
  <2> QED BY <1>0, <2>1, <2>2, <2>3 DEF Numbers
<1> QED
  BY <1>10, <1>11, <1>12, <1>13, <1>14, <1>17, <1>18, <1>21, <1>22, <1>23, <1>24, <1>25,
     <1>26, <1>27, <1>28, StepKinds DEF PlainMove

(* What one signal adds to what the output says.                           *)
LEMMA ToldFacts ==
  ASSUME NEW truth \in [inTurn : BOOLEAN, blamed : BOOLEAN, halted : BOOLEAN],
         NEW sig \in Signals
  PROVE  LET r == Told(truth, sig) IN
         /\ sig = "none" => r = truth
         /\ sig = "Progress" => /\ r.inTurn = TRUE /\ r.blamed = truth.blamed
                                /\ r.halted = truth.halted
         /\ sig = "Failed" => /\ r.inTurn = truth.inTurn /\ r.blamed = TRUE
                              /\ r.halted = truth.halted
         /\ IsEnd(sig) => /\ r.inTurn = FALSE /\ r.blamed = FALSE
                          /\ r.halted <=> \/ truth.blamed \/ sig = "Broken"
                                          \/ sig = "Other" /\ truth.halted
<1>1. CASE sig = "none" BY <1>1 DEF Told, IsEnd
<1>2. CASE sig = "Progress" BY <1>2 DEF Told, IsEnd
<1>3. CASE sig = "Failed" BY <1>3 DEF Told, IsEnd
<1>4. CASE IsEnd(sig)
  <2> DEFINE h == truth.blamed \/ sig = "Broken" \/ (sig = "Other" /\ truth.halted)
  <2>1. Told(truth, sig) = [inTurn |-> FALSE, blamed |-> FALSE, halted |-> h]
    BY <1>4 DEF Told, IsEnd
  <2>2. h <=> truth.blamed \/ sig = "Broken" \/ (sig = "Other" /\ truth.halted) OBVIOUS
  <2> HIDE DEF h
  <2>3. Told(truth, sig).inTurn = FALSE /\ Told(truth, sig).blamed = FALSE
        /\ Told(truth, sig).halted = h
    BY <2>1
  <2>4. sig # "none" /\ sig # "Progress" /\ sig # "Failed" BY <1>4 DEF IsEnd
  <2> QED BY <2>2, <2>3, <2>4
<1> QED BY <1>1, <1>2, <1>3, <1>4 DEF Signals, IsEnd

(* The entry of the incarnation that is up follows its output.             *)
LEMMA TurnFollowsStep ==
  ASSUME GateInv, Next
  PROVE  TurnFollows'
<1> DEFINE e == Pump.epoch
           up == Pump.pc \notin Finished
           truth == core[e].truth
           Raised == \E t \in Threads : Rising(t)
           Mid == MidResult(e)
<1>0. TypeOK /\ Places /\ Incarnations /\ TurnOwner /\ Numbers /\ TurnFollows BY DEF GateInv
<1>1. /\ "pump" \in Threads /\ Pump = thread["pump"] /\ Pump' = thread'["pump"]
      /\ \A t \in Threads : /\ thread[t].epoch \in Nat /\ thread[t].seq \in Nat
                            /\ thread[t].pc \in Emitting => thread[t].epoch \in Epochs
      /\ \A x \in Epochs : core[x].seq \in Nat /\ core[x] \in Cores /\ x # 0
      /\ \A t \in Threads : t # "pump" => thread[t].signal \in {"none", "Progress"}
      /\ Pump.signal = "Failed" => Pump.pc \in Emitting /\ Pump.next = "result"
      /\ IsEnd(Pump.signal) => Pump.pc \in Emitting
      /\ Pump.pc \in Emitting => Pump.next \in {"read", "result"}
      /\ ~IsEnd("none") /\ ~IsEnd("Failed") /\ ~IsEnd("Progress")
      /\ \A t \in Threads : thread[t].epoch <= e
      /\ e \in Nat
  BY <1>0, Cast DEF Places, IsEnd
<1>2. ASSUME up
      PROVE  /\ e \in Epochs /\ turns # NoEntry /\ turns.epoch = e /\ turns \in TurnEntries
             /\ turns.lastSeq \in Nat /\ turns.lastEnd \in Nat /\ turns.errorSeq \in Nat
             /\ turns.inTurn \in BOOLEAN /\ turns.lastEndFailed \in BOOLEAN
             /\ truth \in [inTurn : BOOLEAN, blamed : BOOLEAN, halted : BOOLEAN]
             /\ core[e].seq \in Nat /\ Pump.seq \in Nat
             /\ ~core[e].finalized
             /\ turns.lastEnd <= turns.lastSeq /\ turns.lastSeq <= core[e].seq
             /\ Observing => Pump.seq <= core[e].seq /\ 0 < Pump.seq
             /\ LastEnd \in Nat /\ LastEnd <= core[e].seq
  <2>1. Pump.pc # "off" BY <1>2 DEF Finished
  <2>2. e \in Epochs /\ turns # NoEntry /\ turns.epoch = e
    BY <1>0, <1>2, <2>1, Cast DEF TurnOwner
  <2>3. turns \in TurnEntries BY <1>0, <2>2 DEF TypeOK
  <2>4. /\ turns.lastSeq \in Nat /\ turns.lastEnd \in Nat /\ turns.errorSeq \in Nat
        /\ turns.inTurn \in BOOLEAN /\ turns.lastEndFailed \in BOOLEAN
    BY <2>3 DEF TurnEntries
  <2>5. truth \in [inTurn : BOOLEAN, blamed : BOOLEAN, halted : BOOLEAN]
        /\ core[e].seq \in Nat /\ Pump.seq \in Nat
    BY <1>1, <2>2 DEF Cores
  <2>6. ~core[e].finalized BY <1>0, <1>1, <1>2, <2>2 DEF Incarnations
  <2>7. turns.lastEnd <= turns.lastSeq /\ turns.lastSeq <= core[e].seq
    BY <1>0, <2>2 DEF Numbers
  <2>8. Observing => Pump.seq <= core[e].seq /\ 0 < Pump.seq
    BY <1>0, <1>1 DEF Numbers, Observing
  <2>9. LastEnd \in Nat /\ LastEnd <= core[e].seq
    BY <2>4, <2>5, <2>7, <2>8 DEF LastEnd, EndPending
  <2> QED BY <2>2, <2>3, <2>4, <2>5, <2>6, <2>7, <2>8, <2>9
<1>3. ASSUME up
      PROVE  /\ Observing => Pump.seq > turns.lastEnd /\ Pump.seq > turns.errorSeq
             /\ turns.errorSeq <= core[e].seq
             /\ EndPending =>
                  /\ truth.blamed = FALSE
                  /\ truth.halted <=> \/ Pump.signal = "Broken" \/ turns.errorSeq # 0
                                      \/ Pump.signal = "Other" /\ turns.lastEndFailed
             /\ ~EndPending =>
                  /\ truth.halted <=> turns.lastEndFailed
                  /\ truth.blamed <=> turns.errorSeq # 0 \/ (Observing /\ Pump.signal = "Failed")
             /\ ~truth.inTurn =>
                  /\ ~Raised
                  /\ turns.inTurn => EndPending /\ turns.lastSeq < Pump.seq
             /\ truth.inTurn =>
                  Mid \/ Raised \/ (turns.inTurn /\ (EndPending => turns.lastSeq > Pump.seq))
             /\ turns.lastSeq > LastEnd => turns.inTurn \/ Mid
  BY <1>0, <1>3 DEF TurnFollows
<1>4. ASSUME /\ Observing' => Pump'.seq > turns'.lastEnd /\ Pump'.seq > turns'.errorSeq
             /\ turns'.errorSeq <= core'[Pump'.epoch].seq,
             EndPending' =>
               /\ core'[Pump'.epoch].truth.blamed = FALSE
               /\ core'[Pump'.epoch].truth.halted <=>
                    \/ Pump'.signal = "Broken" \/ turns'.errorSeq # 0
                    \/ Pump'.signal = "Other" /\ turns'.lastEndFailed,
             ~EndPending' =>
               /\ core'[Pump'.epoch].truth.halted <=> turns'.lastEndFailed
               /\ core'[Pump'.epoch].truth.blamed <=>
                    turns'.errorSeq # 0 \/ (Observing' /\ Pump'.signal = "Failed"),
             ~core'[Pump'.epoch].truth.inTurn =>
               /\ ~Raised'
               /\ turns'.inTurn => EndPending' /\ turns'.lastSeq < Pump'.seq,
             core'[Pump'.epoch].truth.inTurn =>
               \/ MidResult(Pump.epoch)' \/ Raised'
               \/ turns'.inTurn /\ (EndPending' => turns'.lastSeq > Pump'.seq),
             turns'.lastSeq > LastEnd' => turns'.inTurn \/ MidResult(Pump.epoch)'
      PROVE  TurnFollows'
  BY <1>4 DEF TurnFollows
<1>5. ASSUME up, Pump'.epoch = e, turns' = turns, core'[e].truth = truth,
             core'[e].seq \in Nat, core'[e].seq >= core[e].seq,
             Observing' <=> Observing,
             Observing => Pump'.seq = Pump.seq /\ Pump'.signal = Pump.signal,
             Mid => MidResult(Pump.epoch)',
             \A t \in Threads : thread'[t].pc = "observe" /\ thread'[t].epoch = e =>
                                  thread'[t] = thread[t],
             \A t \in Threads : thread[t].pc = "observe" /\ thread[t].epoch = e =>
                                  thread'[t] = thread[t]
      PROVE  TurnFollows'
  <2>1. EndPending' <=> EndPending BY <1>5 DEF EndPending
  <2>2. LastEnd' = LastEnd BY <1>5, <2>1 DEF LastEnd, EndPending
  <2>3. \A t \in Threads : Rising(t)' <=> Rising(t) BY <1>5, <2>2 DEF Rising
  <2>4. Raised' <=> Raised BY <2>3
  <2>5. turns.errorSeq <= core'[e].seq
    <3>1. turns.errorSeq <= core[e].seq BY <1>3, <1>5
    <3>2. turns.errorSeq \in Nat /\ core[e].seq \in Nat BY <1>2, <1>5
    <3> HIDE DEF e
    <3> QED BY <1>5, <3>1, <3>2
  <2>6. EndPending => Observing BY DEF EndPending
  <2> HIDE DEF Raised, Mid, truth, up
  <2> QED BY <1>3, <1>4, <1>5, <2>1, <2>2, <2>4, <2>5, <2>6 DEF truth
<1>6. ASSUME Pump'.pc \in Finished PROVE TurnFollows'
  BY <1>6 DEF TurnFollows
<1>7. ASSUME Steady, ~up PROVE TurnFollows'
  BY <1>6, <1>7 DEF Steady
<1>8. ASSUME NEW t, NEW kind, NEW i, NEW next, EmitStep(t, kind, i, next), up
      PROVE  TurnFollows'
  <2> DEFINE x == thread[t].epoch
             n == core'[x].seq
             sig == Classify(kind)
             new == thread'[t]
  <2>1. t \in Threads /\ next \in Pcs \ Emitting /\ Emitted(t, kind, next)
    BY <1>0, <1>8, EmitFacts
  <2>2. /\ x \in Epochs /\ thread[t].pc \notin Emitting /\ sig \in Signals
        /\ \A y \in Epochs : y # x => core'[y] = core[y]
        /\ n \in Nat /\ n > core[x].seq
        /\ core'[x].truth = Told(core[x].truth, sig)
        /\ \A s \in Threads : s # t => thread'[s] = thread[s]
    BY <2>1 DEF Emitted
  <2>3. /\ new.epoch \in {x, 0} /\ new.signal = sig /\ new.next = next
        /\ sig # "none" => new.pc = "observe" /\ new.epoch = x
        /\ sig = "none" => new.pc \in {"drain", next}
        /\ new.pc = "observe" => sig # "none" /\ new.seq = n
    BY <1>0, <2>1, EmittedThread DEF Emitting
  <2>4. UNCHANGED turns /\ MayEmit(t, kind, i, next) BY <1>8 DEF EmitStep
  <2>5. /\ e \in Epochs /\ core[e].seq \in Nat /\ truth \in [inTurn : BOOLEAN, blamed : BOOLEAN, halted : BOOLEAN]
        /\ turns.lastSeq \in Nat /\ turns.lastEnd \in Nat /\ turns.errorSeq \in Nat
        /\ turns.lastEnd <= turns.lastSeq /\ turns.lastSeq <= core[e].seq
        /\ turns.errorSeq <= core[e].seq
        /\ LastEnd \in Nat /\ LastEnd <= core[e].seq
    BY <1>2, <1>3, <1>8
  <2>6. Steady BY <1>8, EmissionIsSteady
  <2>7. Pump'.epoch = e /\ core'[e].seq \in Nat /\ core'[e].seq >= core[e].seq
    BY <2>5, <2>6 DEF Steady
  <2>8. x = e => LET told == core'[e].truth IN
          /\ sig = "none" => told = truth
          /\ sig = "Progress" => /\ told.inTurn = TRUE /\ told.blamed = truth.blamed
                                 /\ told.halted = truth.halted
          /\ sig = "Failed" => /\ told.inTurn = truth.inTurn /\ told.blamed = TRUE
                               /\ told.halted = truth.halted
          /\ IsEnd(sig) => /\ told.inTurn = FALSE /\ told.blamed = FALSE
                           /\ told.halted <=> \/ truth.blamed \/ sig = "Broken"
                                              \/ sig = "Other" /\ truth.halted
    <3>1. x = e => core'[e].truth = Told(truth, sig) BY <2>2
    <3>2. sig \in Signals /\ truth \in [inTurn : BOOLEAN, blamed : BOOLEAN, halted : BOOLEAN]
      BY <2>2, <2>5
    <3> DEFINE r == Told(truth, sig)
    <3> HIDE DEF truth, sig, x, e
    <3>3. /\ sig = "none" => r = truth
          /\ sig = "Progress" => /\ r.inTurn = TRUE /\ r.blamed = truth.blamed
                                 /\ r.halted = truth.halted
          /\ sig = "Failed" => /\ r.inTurn = truth.inTurn /\ r.blamed = TRUE
                               /\ r.halted = truth.halted
          /\ IsEnd(sig) => /\ r.inTurn = FALSE /\ r.blamed = FALSE
                           /\ r.halted <=> \/ truth.blamed \/ sig = "Broken"
                                           \/ sig = "Other" /\ truth.halted
      BY <3>2, ToldFacts
    <3> HIDE DEF r
    <3> QED BY <3>1, <3>3 DEF r
  <2> HIDE DEF e, x, n, sig, new
  <2>9. CASE t # "pump"
    <3>1. Pump' = Pump BY <1>1, <2>2, <2>9
    <3>2. (Observing' <=> Observing) /\ (EndPending' <=> EndPending) /\ LastEnd' = LastEnd
      BY <2>4, <3>1 DEF Observing, EndPending, LastEnd
    <3>3. Mid => MidResult(Pump.epoch)' BY <3>1 DEF MidResult, e
    <3>4. sig \in {"none", "Progress"} BY <2>4, <2>9 DEF MayEmit, Classify, sig
    <3>5. CASE x # e \/ sig = "none"
      <4>1. core'[e].truth = truth BY <2>2, <2>5, <2>8, <3>5
      <4>2. \A s \in Threads : thread'[s].pc = "observe" /\ thread'[s].epoch = e =>
                                 thread'[s] = thread[s]
        BY <1>1, <2>2, <2>3, <2>5, <3>5 DEF new
      <4>3. \A s \in Threads : thread[s].pc = "observe" /\ thread[s].epoch = e =>
                                 thread'[s] = thread[s]
        BY <2>2 DEF Emitting
      <4> HIDE DEF truth, Mid, up
      <4> QED BY <1>5, <1>8, <2>4, <2>7, <3>1, <3>2, <3>3, <4>1, <4>2, <4>3
    <3>6. CASE x = e /\ sig = "Progress"
      <4>1. Rising(t)'
        <5>1. n > LastEnd BY <2>2, <2>5, <3>6
        <5> QED BY <2>3, <2>7, <3>2, <3>6, <5>1 DEF Rising, new
      <4>2. Raised' BY <2>1, <4>1
      <4>3. /\ core'[e].truth.inTurn = TRUE /\ core'[e].truth.blamed = truth.blamed
            /\ core'[e].truth.halted = truth.halted
        BY <2>8, <3>6
      <4>4. turns.errorSeq <= core'[e].seq BY <2>5, <2>7
      <4> HIDE DEF truth, Mid, Raised
      <4>5. Observing' => Pump'.seq > turns'.lastEnd /\ Pump'.seq > turns'.errorSeq
        BY <1>3, <1>8, <2>4, <3>1, <3>2
      <4>6. EndPending' =>
               /\ core'[Pump'.epoch].truth.blamed = FALSE
               /\ core'[Pump'.epoch].truth.halted <=>
                    \/ Pump'.signal = "Broken" \/ turns'.errorSeq # 0
                    \/ Pump'.signal = "Other" /\ turns'.lastEndFailed
        BY <1>3, <1>8, <2>4, <2>7, <3>1, <3>2, <4>3
      <4>7. ~EndPending' =>
               /\ core'[Pump'.epoch].truth.halted <=> turns'.lastEndFailed
               /\ core'[Pump'.epoch].truth.blamed <=>
                    turns'.errorSeq # 0 \/ (Observing' /\ Pump'.signal = "Failed")
        BY <1>3, <1>8, <2>4, <2>7, <3>1, <3>2, <4>3
      <4>8. turns'.lastSeq > LastEnd' => turns'.inTurn \/ MidResult(Pump.epoch)'
        BY <1>3, <1>8, <2>4, <3>2, <3>3
      <4> QED BY <1>4, <2>4, <2>7, <4>2, <4>3, <4>4, <4>5, <4>6, <4>7, <4>8
    <3> QED BY <3>4, <3>5, <3>6
  <2>10. CASE t = "pump"
    <3>1. x = e /\ new = Pump' BY <1>1, <2>10 DEF x, e, new
    <3>2. ~Observing /\ ~EndPending /\ LastEnd = turns.lastEnd /\ Pump.signal # "Failed"
      BY <1>1, <2>2, <2>10 DEF Observing, EndPending, LastEnd, Emitting
    <3>3. Mid <=> Pump.pc = "result" BY <1>1, <2>2, <2>10 DEF MidResult, e
    <3>4. \A s \in Threads : Rising(s) => s # t /\ thread'[s] = thread[s]
      BY <2>2 DEF Rising, Emitting
    <3>5. n = core'[e].seq /\ n > core[e].seq /\ n > turns.lastSeq /\ n > turns.lastEnd
          /\ n > turns.errorSeq /\ n > LastEnd
      BY <2>2, <2>5, <3>1 DEF n
    <3>6. CASE sig = "none"
      <4>1. Pump.pc \in {"read", "judge"} /\ next = "read"
        BY <2>4, <2>10, <3>6, GateAssumption DEF MayEmit, Reading, Classify, sig
      <4>2. core'[e].truth = truth BY <2>8, <3>1, <3>6
      <4>3. new.pc # "observe" BY <2>3, <3>6
      <4>4. ~Observing' BY <3>1, <4>3 DEF Observing
      <4>5. ~Mid BY <3>3, <4>1
      <4>6. \A s \in Threads : thread'[s].pc = "observe" /\ thread'[s].epoch = e =>
                                 thread'[s] = thread[s]
        BY <2>2, <4>3 DEF new
      <4>7. \A s \in Threads : thread[s].pc = "observe" /\ thread[s].epoch = e =>
                                 thread'[s] = thread[s]
        BY <2>2 DEF Emitting
      <4> HIDE DEF truth, Mid, up
      <4> QED BY <1>5, <1>8, <2>4, <2>7, <3>2, <4>2, <4>4, <4>5, <4>6, <4>7
    <3>7. CASE sig # "none"
      <4>1. /\ Pump'.pc = "observe" /\ Pump'.signal = sig /\ Pump'.seq = n /\ Pump'.epoch = e
        BY <2>3, <3>1, <3>7
      <4>2. Observing' /\ (EndPending' <=> IsEnd(sig)) BY <4>1 DEF Observing, EndPending
      <4>3. LastEnd' = IF IsEnd(sig) THEN n ELSE turns.lastEnd
        BY <2>4, <4>1, <4>2 DEF LastEnd
      <4>4. Observing' => Pump'.seq > turns'.lastEnd /\ Pump'.seq > turns'.errorSeq
        BY <2>4, <3>5, <4>1
      <4>5. turns'.errorSeq <= core'[Pump'.epoch].seq BY <2>4, <2>5, <2>7, <3>5
      <4>6. sig # "Progress" /\ ~IsEnd(sig) => sig = "Failed"
        BY <2>2, <3>7 DEF Signals, IsEnd
      <4>7. truth.halted <=> turns.lastEndFailed BY <1>3, <1>8, <3>2
      <4>8. truth.blamed <=> turns.errorSeq # 0 BY <1>3, <1>8, <3>2
      <4>9. CASE sig = "Progress"
        <5>1. ~IsEnd(sig) /\ ~EndPending' /\ LastEnd' = turns.lastEnd BY <1>1, <4>2, <4>3, <4>9
        <5>2. Rising(t)' BY <1>1, <2>10, <3>5, <4>1, <4>9, <5>1 DEF Rising
        <5>3. Raised' BY <2>1, <5>2
        <5>4. /\ core'[e].truth.inTurn = TRUE /\ core'[e].truth.blamed = truth.blamed
              /\ core'[e].truth.halted = truth.halted
          BY <2>8, <3>1, <4>9
        <5>5. ~Mid
          <6>1. Pump.pc # "result"
            BY <2>4, <2>10, <4>9, GateAssumption DEF MayEmit, Reading, Classify, sig
          <6> QED BY <3>3, <6>1
        <5>6. turns'.lastSeq > LastEnd' => turns'.inTurn
          BY <1>3, <1>8, <2>4, <3>2, <5>1, <5>5
        <5> HIDE DEF truth, Mid, Raised
        <5> QED BY <1>4, <2>4, <4>1, <4>4, <4>5, <4>7, <4>8, <4>9, <5>1, <5>3, <5>4, <5>6
      <4>10. CASE sig = "Failed"
        <5>1. ~IsEnd(sig) /\ ~EndPending' /\ LastEnd' = turns.lastEnd BY <1>1, <4>2, <4>3, <4>10
        <5>2. /\ core'[e].truth.inTurn = truth.inTurn /\ core'[e].truth.blamed = TRUE
              /\ core'[e].truth.halted = truth.halted
          BY <2>8, <3>1, <4>10
        <5>3. MidResult(Pump.epoch)' BY <4>1, <4>10 DEF MidResult
        <5>4. ~truth.inTurn => ~Raised /\ ~turns.inTurn BY <1>3, <1>8, <3>2
        <5>5. \A s \in Threads : Rising(s)' => Rising(s)
          BY <1>1, <2>2, <2>7, <2>10, <3>2, <4>1, <4>10, <5>1 DEF Rising, e
        <5>6. Raised' => Raised BY <5>5
        <5> HIDE DEF truth, Mid, Raised
        <5>7. ~core'[Pump'.epoch].truth.inTurn =>
               /\ ~Raised'
               /\ turns'.inTurn => EndPending' /\ turns'.lastSeq < Pump'.seq
          BY <2>4, <2>7, <5>2, <5>4, <5>6
        <5> QED BY <1>4, <2>4, <4>1, <4>2, <4>4, <4>5, <4>7, <4>10, <5>1, <5>2, <5>3, <5>7
      <4>11. CASE IsEnd(sig)
        <5>1. EndPending' /\ LastEnd' = n BY <4>2, <4>3, <4>11
        <5>2. /\ core'[e].truth.inTurn = FALSE /\ core'[e].truth.blamed = FALSE
              /\ core'[e].truth.halted <=> \/ truth.blamed \/ sig = "Broken"
                                           \/ sig = "Other" /\ truth.halted
          BY <2>8, <3>1, <4>11
        <5>3. \A s \in Threads : ~Rising(s)'
          <6> SUFFICES ASSUME NEW s \in Threads, Rising(s)' PROVE FALSE OBVIOUS
          <6>1. /\ thread'[s].pc = "observe" /\ thread'[s].epoch = e
                /\ thread'[s].signal = "Progress" /\ thread'[s].seq > n
            BY <2>7, <5>1 DEF Rising
          <6>2. s # t BY <1>1, <2>10, <4>1, <4>11, <6>1
          <6>3. thread'[s] = thread[s] BY <2>2, <6>2
          <6>4. thread[s].seq <= core[e].seq BY <1>0, <6>1, <6>3 DEF Numbers
          <6>5. thread[s].seq \in Nat BY <1>1
          <6> QED BY <2>2, <2>5, <3>5, <6>1, <6>3, <6>4, <6>5
        <5>4. ~Raised' BY <5>3
        <5>5. ~(turns'.lastSeq > LastEnd') BY <2>2, <2>4, <2>5, <3>5, <5>1
        <5>6. turns'.lastSeq < Pump'.seq BY <2>4, <3>5, <4>1
        <5> HIDE DEF truth, Mid, Raised
        <5> QED BY <1>4, <2>4, <4>1, <4>4, <4>5, <4>7, <4>8, <5>1, <5>2, <5>4, <5>5, <5>6
      <4> QED BY <4>6, <4>9, <4>10, <4>11
    <3> QED BY <3>6, <3>7
  <2> QED BY <2>9, <2>10
<1>9. ASSUME NEW t \in Threads, Observe(t), up
      PROVE  TurnFollows'
  <2> DEFINE n == thread[t].seq
             sig == thread[t].signal
  <2>1. /\ thread[t].pc = "observe" /\ n \in Nat /\ sig \in Signals \ {"none"}
        /\ \A s \in Threads : s # t => thread'[s] = thread[s]
        /\ thread'[t].pc = "recheck" /\ thread'[t].epoch = thread[t].epoch
        /\ thread'[t].next = thread[t].next /\ thread'[t].seq = n
        /\ thread'[t].signal = sig /\ core' = core
        /\ turns # NoEntry /\ turns.epoch # thread[t].epoch => turns' = turns
        /\ turns # NoEntry /\ turns.epoch = thread[t].epoch => AbsorbEffect(turns, n, sig, turns')
    BY <1>0, <1>9, ObserveFacts
  <2>2. Steady BY <1>9, EmissionIsSteady
  <2>3. Pump'.epoch = e /\ Pump'.seq = Pump.seq /\ Pump'.signal = Pump.signal
        /\ Pump'.next = Pump.next /\ (Pump'.pc = "result" <=> Pump.pc = "result")
    BY <1>1, <2>1, <2>2 DEF Steady
  <2>4. MidResult(Pump.epoch)' <=> Mid BY <2>3 DEF MidResult
  <2>5. Observing' <=> Observing /\ t # "pump"
    BY <1>1, <2>1 DEF Observing
  <2>6. t # "pump" => sig = "Progress" BY <1>1, <2>1
  <2>7. /\ e \in Epochs /\ turns # NoEntry /\ turns.epoch = e
        /\ turns.lastSeq \in Nat /\ turns.lastEnd \in Nat /\ turns.errorSeq \in Nat
        /\ turns.inTurn \in BOOLEAN /\ turns.lastEndFailed \in BOOLEAN
        /\ core[e].seq \in Nat /\ Pump.seq \in Nat
        /\ turns.lastEnd <= turns.lastSeq /\ LastEnd \in Nat
        /\ turns.errorSeq <= core[e].seq
        /\ truth.halted \in BOOLEAN /\ truth.blamed \in BOOLEAN
    BY <1>2, <1>3, <1>9
  <2>8. /\ n <= core[thread[t].epoch].seq /\ 0 < n
        /\ thread[t].epoch = e => n # turns.lastSeq
        /\ thread[t].epoch = e /\ Observing /\ t # "pump" => n # Pump.seq
    <3>1. n <= core[thread[t].epoch].seq /\ 0 < n BY <1>0, <2>1 DEF Numbers
    <3>2. thread[t].epoch = e => n # turns.lastSeq BY <1>0, <2>1, <2>7 DEF Numbers
    <3>3. thread[t].epoch = e /\ Observing /\ t # "pump" => n # Pump.seq
      BY <1>0, <1>1, <2>1 DEF Numbers, Observing
    <3> QED BY <3>1, <3>2, <3>3
  <2>9. CASE thread[t].epoch # e
    <3>1. t # "pump" BY <1>1, <2>9
    <3>2. turns' = turns BY <2>1, <2>7, <2>9
    <3>3. \A s \in Threads : thread'[s].pc = "observe" /\ thread'[s].epoch = e =>
                               thread'[s] = thread[s]
      BY <2>1, <2>9
    <3>4. \A s \in Threads : thread[s].pc = "observe" /\ thread[s].epoch = e =>
                               thread'[s] = thread[s]
      BY <2>1, <2>9
    <3>5. core'[e].seq \in Nat /\ core'[e].seq >= core[e].seq /\ core'[e].truth = truth
      BY <2>1, <2>7
    <3>6. (Observing' <=> Observing) /\ (Mid => MidResult(Pump.epoch)') BY <2>4, <2>5, <3>1
    <3> HIDE DEF truth, Mid, up, e
    <3> QED BY <1>5, <1>9, <2>3, <3>2, <3>3, <3>4, <3>5, <3>6
  <2>10. CASE thread[t].epoch = e
    <3> DEFINE r == turns'
    <3>1. AbsorbEffect(turns, n, sig, r) BY <2>1, <2>7, <2>10
    <3>2. r.lastSeq = (IF n >= turns.lastSeq THEN n ELSE turns.lastSeq) /\ r.inTurn \in BOOLEAN
      BY <3>1 DEF AbsorbEffect, TurnEntries
    <3>3. n <= core[e].seq /\ n # turns.lastSeq /\ 0 < n BY <2>8, <2>10
    <3>4. CASE sig = "Progress"
      <4>1. /\ r.inTurn <=> turns.inTurn \/ n >= turns.lastSeq
            /\ r.lastEnd = turns.lastEnd /\ r.errorSeq = turns.errorSeq
            /\ r.lastEndFailed = turns.lastEndFailed
        BY <3>1, <3>4 DEF AbsorbEffect
      <4>2. t = "pump" => Pump.signal = "Progress" /\ ~EndPending /\ ~EndPending'
        BY <1>1, <2>3, <3>4 DEF EndPending
      <4>3. EndPending' <=> EndPending BY <2>3, <2>5, <4>2 DEF EndPending
      <4>4. LastEnd' = LastEnd BY <2>3, <4>1, <4>3 DEF LastEnd
      <4>5. \A s \in Threads : Rising(s)' <=> s # t /\ Rising(s)
        BY <2>1, <2>3, <2>10, <4>4 DEF Rising, e
      <4>6. Rising(t) <=> n > LastEnd BY <2>1, <2>10, <3>4 DEF Rising, e
      <4>7. Raised' => Raised BY <4>5
      <4>8. Raised => Raised' \/ n > LastEnd BY <4>5, <4>6
      <4>9. n > LastEnd => Raised BY <4>6
      <4>10. /\ EndPending => LastEnd = Pump.seq /\ t # "pump" /\ n # Pump.seq
             /\ ~EndPending => LastEnd = turns.lastEnd
        BY <2>8, <2>10, <4>2 DEF LastEnd, EndPending
      <4>11. Observing /\ Pump.signal = "Failed" => Observing'
        BY <2>5, <4>2
      <4>12. Observing' => Observing BY <2>5
      <4> HIDE DEF truth, Mid, Raised, r, e, n
      <4>13. Observing' => Pump'.seq > r.lastEnd /\ Pump'.seq > r.errorSeq
        BY <1>3, <1>9, <2>3, <4>1, <4>12
      <4>14. r.errorSeq <= core'[Pump'.epoch].seq BY <2>1, <2>3, <2>7, <4>1
      <4>15. EndPending' =>
               /\ core'[Pump'.epoch].truth.blamed = FALSE
               /\ core'[Pump'.epoch].truth.halted <=>
                    \/ Pump'.signal = "Broken" \/ r.errorSeq # 0
                    \/ Pump'.signal = "Other" /\ r.lastEndFailed
        BY <1>3, <1>9, <2>1, <2>3, <4>1, <4>3 DEF truth
      <4>16. ~EndPending' =>
               /\ core'[Pump'.epoch].truth.halted <=> r.lastEndFailed
               /\ core'[Pump'.epoch].truth.blamed <=>
                    r.errorSeq # 0 \/ (Observing' /\ Pump'.signal = "Failed")
        BY <1>3, <1>9, <2>1, <2>3, <4>1, <4>3, <4>11, <4>12 DEF truth
      <4>17. ~truth.inTurn =>
               /\ ~Raised'
               /\ r.inTurn => EndPending' /\ r.lastSeq < Pump'.seq
        <5> SUFFICES ASSUME ~truth.inTurn
                     PROVE  ~Raised' /\ (r.inTurn => EndPending' /\ r.lastSeq < Pump'.seq)
          OBVIOUS
        <5>1. ~Raised /\ (turns.inTurn => EndPending /\ turns.lastSeq < Pump.seq)
          BY <1>3, <1>9
        <5>2. ~(n > LastEnd) BY <4>9, <5>1
        <5>3. CASE EndPending
          <6>1. n < Pump.seq BY <2>1, <2>7, <4>10, <5>2, <5>3
          <6> QED BY <2>1, <2>3, <2>7, <3>2, <4>1, <4>3, <4>7, <5>1, <5>3, <6>1
        <5>4. CASE ~EndPending
          <6>1. ~(n >= turns.lastSeq) BY <2>1, <2>7, <3>3, <4>10, <5>2, <5>4
          <6> QED BY <4>1, <4>7, <5>1, <5>4, <6>1
        <5> QED BY <5>3, <5>4
      <4>18. truth.inTurn =>
               \/ Mid \/ Raised'
               \/ r.inTurn /\ (EndPending' => r.lastSeq > Pump'.seq)
        <5> SUFFICES ASSUME truth.inTurn
                     PROVE  \/ Mid \/ Raised'
                            \/ r.inTurn /\ (EndPending' => r.lastSeq > Pump'.seq)
          OBVIOUS
        <5>1. Mid \/ Raised \/ (turns.inTurn /\ (EndPending => turns.lastSeq > Pump.seq))
          BY <1>3, <1>9
        <5>2. CASE turns.inTurn /\ (EndPending => turns.lastSeq > Pump.seq)
          BY <2>1, <2>3, <2>7, <3>2, <4>1, <4>3, <5>2
        <5>3. CASE n > LastEnd
          <6>1. r.lastSeq > LastEnd BY <2>1, <2>7, <3>2, <5>3
          <6>2. r.inTurn \/ Mid
            <7>1. CASE n >= turns.lastSeq BY <4>1, <7>1
            <7>2. CASE ~(n >= turns.lastSeq)
              <8>1. turns.lastSeq > LastEnd BY <2>1, <2>7, <5>3, <7>2
              <8> QED BY <1>3, <1>9, <4>1, <8>1
            <7> QED BY <7>1, <7>2
          <6> QED BY <2>3, <4>3, <4>10, <6>1, <6>2
        <5> QED BY <4>8, <5>1, <5>2, <5>3
      <4>19. r.lastSeq > LastEnd' => r.inTurn \/ Mid
        <5>1. CASE n >= turns.lastSeq BY <4>1, <5>1
        <5>2. CASE ~(n >= turns.lastSeq) BY <1>3, <1>9, <3>2, <4>1, <4>4, <5>2
        <5> QED BY <5>1, <5>2
      <4>20. core'[Pump'.epoch].truth = truth BY <2>1, <2>3 DEF truth
      <4> QED BY <1>4, <2>4, <4>13, <4>14, <4>15, <4>16, <4>17, <4>18, <4>19, <4>20 DEF r
    <3>5. CASE sig # "Progress"
      <4>1. t = "pump" /\ Observing /\ ~Observing' /\ ~EndPending' /\ Pump.seq = n
            /\ Pump.signal = sig
        BY <1>1, <2>1, <2>5, <2>6, <3>5 DEF Observing, EndPending
      <4>2. n > turns.lastEnd /\ n > turns.errorSeq BY <1>3, <1>9, <4>1
      <4>3. core'[Pump'.epoch].truth = truth /\ core'[Pump'.epoch].seq = core[e].seq
        BY <2>1, <2>3
      <4>4. ASSUME LastEnd' = LastEnd PROVE Raised' <=> Raised
        <5>1. \A s \in Threads : Rising(s)' <=> Rising(s)
          <6>1. \A s \in Threads : s # t => (Rising(s)' <=> Rising(s))
            BY <2>1, <2>3, <4>4 DEF Rising, e
          <6>2. ~Rising(t) /\ ~Rising(t)' BY <2>1, <3>5 DEF Rising
          <6> QED BY <6>1, <6>2
        <5> QED BY <5>1
      <4>5. CASE sig = "Failed"
        <5>1. /\ r.inTurn = turns.inTurn /\ r.lastEnd = turns.lastEnd
              /\ r.lastEndFailed = turns.lastEndFailed
              /\ r.errorSeq = IF turns.errorSeq = 0 \/ n < turns.errorSeq
                              THEN n ELSE turns.errorSeq
          BY <2>1, <2>7, <3>1, <4>2, <4>5 DEF AbsorbEffect
        <5>2. Mid /\ ~EndPending BY <1>1, <4>1, <4>5 DEF MidResult, EndPending
        <5>3. LastEnd' = LastEnd BY <4>1, <5>1, <5>2 DEF LastEnd
        <5>4. Raised' <=> Raised BY <4>4, <5>3
        <5>5. r.errorSeq # 0 /\ r.errorSeq <= core'[Pump'.epoch].seq
          BY <2>1, <2>7, <3>3, <4>3, <5>1
        <5> HIDE DEF truth, Mid, Raised, r, e
        <5> QED BY <1>3, <1>4, <1>9, <2>4, <4>1, <4>3, <4>5, <5>1, <5>2, <5>4, <5>5 DEF r
      <4>6. CASE IsEnd(sig)
        <5>0. n >= turns.lastEnd BY <2>1, <2>7, <4>2
        <5> HIDE DEF r, n, sig, e, truth, Mid, Raised
        <5>1. /\ r.lastEnd = n
              /\ r.inTurn = (IF n >= turns.lastSeq THEN FALSE ELSE turns.inTurn)
              /\ r.lastEndFailed <=> \/ sig = "Broken"
                                     \/ turns.errorSeq # 0 /\ turns.errorSeq < n
                                     \/ sig = "Other" /\ turns.lastEndFailed
              /\ r.errorSeq = IF turns.errorSeq # 0 /\ turns.errorSeq < n
                              THEN 0 ELSE turns.errorSeq
          BY <3>1, <4>6, <5>0 DEF AbsorbEffect
        <5>2. EndPending /\ ~Mid
          <6>1. EndPending BY <4>1, <4>6 DEF EndPending
          <6>2. Pump.pc # "result" /\ Pump.signal # "Failed"
            BY <4>1, <4>6 DEF Observing, IsEnd
          <6> QED BY <6>1, <6>2 DEF MidResult, Mid
        <5>3. LastEnd = n /\ LastEnd' = n BY <4>1, <5>1, <5>2 DEF LastEnd, r
        <5>4. Raised' <=> Raised BY <4>4, <5>3
        <5>5. r.errorSeq = 0 /\ r.errorSeq <= core'[Pump'.epoch].seq
          BY <2>1, <2>7, <4>2, <4>3, <5>1
        <5>6. truth.halted <=> r.lastEndFailed
          BY <1>3, <1>9, <2>7, <4>1, <4>2, <5>1, <5>2
        <5>7. truth.blamed = FALSE BY <1>3, <1>9, <5>2
        <5>8. /\ n >= turns.lastSeq => ~r.inTurn
              /\ ~(n >= turns.lastSeq) => r.inTurn = turns.inTurn
          BY <5>1
        <5>9. ~truth.inTurn => ~Raised' /\ ~r.inTurn
          <6>1. ~truth.inTurn => ~Raised /\ (turns.inTurn => turns.lastSeq < n)
            BY <1>3, <1>9, <4>1
          <6>2. turns.lastSeq < n => n >= turns.lastSeq BY <2>1, <2>7
          <6> QED BY <5>4, <5>8, <6>1, <6>2
        <5>10. truth.inTurn => Raised' \/ r.inTurn
          <6>1. truth.inTurn => Raised \/ (turns.inTurn /\ turns.lastSeq > n)
            BY <1>3, <1>9, <4>1, <5>2
          <6>2. turns.lastSeq > n => ~(n >= turns.lastSeq) BY <2>1, <2>7
          <6> QED BY <5>4, <5>8, <6>1, <6>2
        <5>11. r.lastSeq > LastEnd' => r.inTurn
          <6>1. r.lastSeq > LastEnd' => turns.lastSeq > n /\ ~(n >= turns.lastSeq)
            BY <2>1, <2>7, <3>2, <5>3
          <6>2. turns.lastSeq > n => turns.inTurn BY <1>3, <1>9, <5>2, <5>3
          <6> QED BY <5>8, <6>1, <6>2
        <5> QED BY <1>4, <4>1, <4>3, <5>5, <5>6, <5>7, <5>9, <5>10, <5>11 DEF r
      <4> QED BY <2>1, <3>5, <4>5, <4>6 DEF Signals, IsEnd
    <3> QED BY <3>4, <3>5
  <2> QED BY <2>9, <2>10
<1>10. ASSUME NEW t \in Threads, up, turns' = turns, core' = core, Steady,
              \A s \in Threads : s # t => thread'[s] = thread[s],
              thread[t].pc \in Emitting, thread[t].pc # "observe", thread'[t].pc # "observe",
              thread'[t].signal = thread[t].signal \/ thread'[t].pc = thread[t].next
       PROVE  TurnFollows'
  <2>1. Pump'.epoch = e BY <1>10 DEF Steady
  <2>2. e \in Epochs /\ core'[e].truth = truth /\ core'[e].seq \in Nat /\ core'[e].seq >= core[e].seq
    BY <1>2, <1>10
  <2>3. Observing' <=> Observing BY <1>1, <1>10 DEF Observing
  <2>4. Observing => Pump' = Pump BY <1>1, <1>10 DEF Observing
  <2>5. Mid => MidResult(Pump.epoch)'
    <3>1. CASE t # "pump" BY <1>1, <1>10, <3>1 DEF MidResult
    <3>2. CASE t = "pump"
      <4>1. Mid => Pump.signal = "Failed" BY <1>1, <1>10, <3>2 DEF MidResult, Emitting
      <4> QED BY <1>1, <1>10, <2>1, <3>2, <4>1 DEF MidResult
    <3> QED BY <3>1, <3>2
  <2>6. \A s \in Threads : thread'[s].pc = "observe" /\ thread'[s].epoch = e =>
                             thread'[s] = thread[s]
    BY <1>10
  <2>7. \A s \in Threads : thread[s].pc = "observe" /\ thread[s].epoch = e =>
                             thread'[s] = thread[s]
    BY <1>10
  <2> HIDE DEF truth, Mid, up, e
  <2> QED BY <1>5, <1>10, <2>1, <2>2, <2>3, <2>4, <2>5, <2>6, <2>7
<1>11. ASSUME NEW t \in Threads, Recheck(t), up PROVE TurnFollows'
  <2>1. /\ thread[t].pc = "recheck" /\ \A s \in Threads : s # t => thread'[s] = thread[s]
        /\ \/ thread'[t].pc = "drain" /\ thread'[t].signal = thread[t].signal
           \/ thread'[t].pc = thread[t].next
    BY <1>0, <1>11, RecheckFacts
  <2>2. thread[t].next \notin Emitting BY <1>0, <2>1, Cast DEF Emitting
  <2>3. turns' = turns /\ core' = core
    <3>1. /\ core' = core
          /\ turns' = IF core[thread[t].epoch].finalized THEN Forgotten(turns, thread[t].epoch)
                      ELSE turns
      BY <1>11 DEF Recheck
    <3>2. turns.epoch = e /\ ~core[e].finalized BY <1>2, <1>11
    <3> QED BY <3>1, <3>2 DEF Forgotten
  <2>4. Steady BY <1>11, EmissionIsSteady
  <2> HIDE DEF up
  <2> QED BY <1>10, <1>11, <2>1, <2>2, <2>3, <2>4 DEF Emitting
<1>12. ASSUME NEW t \in Threads, WriteDrained(t), up PROVE TurnFollows'
  <2>1. Steady BY <1>12, EmissionIsSteady
  <2> HIDE DEF up
  <2> QED BY <1>0, <1>10, <1>12, <2>1, WriteDrainedFacts DEF Emitting
<1>13. ASSUME NEW t \in Threads, InputsDrained(t), up PROVE TurnFollows'
  <2>1. Steady BY <1>13, EmissionIsSteady
  <2>2. thread[t].pc = "drained" BY <1>0, <1>13, InputsDrainedFacts
  <2>3. thread[t].next \notin Emitting BY <1>0, <2>2, Cast DEF Emitting
  <2> HIDE DEF up
  <2> QED BY <1>0, <1>10, <1>13, <2>1, <2>3, InputsDrainedFacts DEF Emitting
<1>14. CASE Plain /\ up
  <2>1. Quiet /\ Steady /\ SameOutput /\ turns' = turns
        /\ (Pump' = Pump \/ (Pump.pc = "read" /\ PumpAt("judge")))
    BY <1>14 DEF Plain
  <2>2. e \in Epochs BY <1>2, <1>14
  <2>3. Pump'.epoch = e /\ core'[e].truth = truth /\ core'[e].seq = core[e].seq
        /\ core'[e].seq \in Nat
    BY <2>1, <2>2 DEF Steady, SameOutput
  <2>4. (Observing' <=> Observing) /\ (Observing => Pump' = Pump)
    BY <1>1, <2>1 DEF Observing, PumpAt
  <2>5. Mid => MidResult(Pump.epoch)' BY <1>1, <2>1 DEF MidResult, PumpAt, Emitting
  <2>6. \A s \in Threads : thread'[s].pc = "observe" \/ thread[s].pc = "observe" =>
                             thread'[s] = thread[s]
    BY <2>1 DEF Quiet, Emitting
  <2>7. core'[e].seq >= core[e].seq BY <2>2, <2>3
  <2> HIDE DEF truth, Mid, up, e
  <2> QED BY <1>5, <1>14, <2>1, <2>3, <2>4, <2>5, <2>6, <2>7
<1>15. CASE SweepStep /\ up
  <2>1. UNCHANGED <<turns, core, thread>> BY <1>15, QuietFacts
  <2>2. e \in Epochs BY <1>2, <1>15
  <2>3. core'[e].seq \in Nat /\ core'[e].seq >= core[e].seq /\ core'[e].truth = truth
    BY <1>1, <2>1, <2>2
  <2>4. Pump' = Pump /\ (Observing' <=> Observing) /\ (Mid => MidResult(Pump.epoch)')
    BY <1>1, <2>1 DEF Observing, MidResult
  <2> HIDE DEF truth, Mid, up
  <2> QED BY <1>5, <1>15, <2>1, <2>3, <2>4
<1>16. CASE Finalize \/ Seal \/ ReapTurns \/ ReapPending \/ Reap
  BY <1>1, <1>6, <1>16, QuietFacts DEF PumpAt, Finished
<1>17. CASE Spawn
  <2> DEFINE x == Pump.epoch + 1
  <2>1. /\ x \in Epochs /\ turns'.inTurn = FALSE
        /\ turns'.lastSeq = 0 /\ turns'.lastEnd = 0 /\ turns'.errorSeq = 0
        /\ turns'.lastEndFailed = FALSE
        /\ \A s \in Threads : s # "pump" => thread'[s] = thread[s]
        /\ Pump'.pc = "read" /\ Pump'.epoch = x /\ Pump'.signal = "none" /\ core' = core
    BY <1>0, <1>1, <1>17, SpawnFacts
  <2>2. core'[x] = NewCore BY <1>0, <1>1, <2>1 DEF Incarnations
  <2>3. core'[x].truth.inTurn = FALSE /\ core'[x].truth.blamed = FALSE
        /\ core'[x].truth.halted = FALSE /\ core'[x].seq = 0
    BY <2>2 DEF NewCore
  <2>4. ~Observing' /\ ~EndPending' /\ LastEnd' = 0 BY <2>1 DEF Observing, EndPending, LastEnd
  <2>5. \A s \in Threads : ~Rising(s)'
    <3>1. ~Rising("pump")' BY <1>1, <2>1 DEF Rising
    <3>2. ASSUME NEW s \in Threads, s # "pump" PROVE thread'[s].epoch # x
      BY <1>1, <2>1, <3>2
    <3> QED BY <2>1, <3>1, <3>2 DEF Rising
  <2>6. ~Raised' BY <2>5
  <2> HIDE DEF x, Raised
  <2>7. turns'.errorSeq <= core'[Pump'.epoch].seq /\ ~(turns'.lastSeq > LastEnd')
    BY <2>1, <2>3, <2>4
  <2>8. /\ core'[Pump'.epoch].truth.inTurn = FALSE /\ core'[Pump'.epoch].truth.blamed = FALSE
        /\ core'[Pump'.epoch].truth.halted = FALSE
    BY <2>1, <2>3
  <2>9. /\ core'[Pump'.epoch].truth.halted <=> turns'.lastEndFailed
        /\ core'[Pump'.epoch].truth.blamed <=>
             turns'.errorSeq # 0 \/ (Observing' /\ Pump'.signal = "Failed")
        /\ ~turns'.inTurn
    BY <2>1, <2>4, <2>8
  <2> QED BY <1>4, <2>4, <2>6, <2>7, <2>8, <2>9
<1>18. CASE /\ ~up
            /\ \/ \E t, kind, i, next : EmitStep(t, kind, i, next)
               \/ \E t \in Threads : \/ Observe(t) \/ Recheck(t)
                                      \/ WriteDrained(t) \/ InputsDrained(t)
  BY <1>7, <1>18, EmissionIsSteady
<1>19. CASE ~up /\ (Plain \/ SweepStep)
  BY <1>7, <1>19, QuietFacts DEF Plain
<1>20. PlainMove => Plain BY PlainFacts
<1> HIDE DEF up
<1> QED
  BY <1>8, <1>9, <1>11, <1>12, <1>13, <1>14, <1>15, <1>16, <1>17, <1>18, <1>19, <1>20, StepKinds

(* PendingSet leaves the entry alone or gives it the number of the event.  *)
LEMMA PendingSetNumber ==
  ASSUME NEW table \in PendEntries \cup {NoEntry}, NEW e, NEW n, NEW value
  PROVE  LET r == PendingSet(table, e, n, value) IN r = table \/ (r.epoch = e /\ r.lastSeq = n)
BY NoEntryAssumption DEF PendingSet, PendEntries

(* Finished incarnations stay finished, and a start is only moved by the   *)
(* event that empties the list.                                            *)
LEMMA StartsStay ==
  ASSUME GateInv, Next,
         ~\E t, kind, i, next : EmitStep(t, kind, i, next)
  PROVE  \A e \in Epochs : /\ core'[e].started = core[e].started
                           /\ core[e].finalized => core'[e].finalized
                           /\ core'[e].seq >= core[e].seq
<1>0. TypeOK /\ Places /\ Numbers BY DEF GateInv
<1>1. \A e \in Epochs : core[e].seq \in Nat BY <1>0, Cast
<1>2. ASSUME UNCHANGED core
      PROVE  \A e \in Epochs : /\ core'[e].started = core[e].started
                               /\ core[e].finalized => core'[e].finalized
                               /\ core'[e].seq >= core[e].seq
  BY <1>1, <1>2
<1>3. ASSUME SameOutput
      PROVE  \A e \in Epochs : /\ core'[e].started = core[e].started
                               /\ core[e].finalized => core'[e].finalized
                               /\ core'[e].seq >= core[e].seq
  BY <1>1, <1>3 DEF SameOutput
<1>4. CASE \E t \in Threads : Observe(t) \/ Recheck(t) \/ WriteDrained(t) \/ InputsDrained(t)
  BY <1>2, <1>4 DEF Observe, Recheck, WriteDrained, InputsDrained
<1>5. CASE PlainMove BY <1>3, <1>5, PlainFacts DEF Plain
<1>6. CASE SweepStep BY <1>2, <1>6, QuietFacts
<1>7. CASE Finalize
  <2> DEFINE x == Pump.epoch
  <2>1. /\ \A e \in Epochs : e # x => core'[e] = core[e]
        /\ core'[x].finalized = TRUE /\ core'[x].seq = core[x].seq
        /\ core'[x].started = core[x].started
    BY <1>0, <1>7, FinalizeFacts
  <2> HIDE DEF x
  <2> QED BY <1>1, <2>1
<1>8. CASE Seal BY <1>0, <1>1, <1>8, SealFacts
<1>9. CASE ReapTurns \/ ReapPending \/ Reap \/ Spawn
  BY <1>2, <1>9 DEF ReapTurns, ReapPending, Reap, Spawn
<1> QED BY <1>4, <1>5, <1>6, <1>7, <1>8, <1>9, StepKinds

(* What the table shows of a start it goes on to show.                     *)
LEMMA SeenStays ==
  ASSUME GateInv, Next, NEW e \in Epochs, core'[e].started = core[e].started,
         SeesStart(e, Lookup(turns, e))
  PROVE  SeesStart(e, Lookup(turns, e))'
<1>0. TypeOK /\ Places /\ Incarnations /\ TurnOwner /\ Numbers /\ TypeOK' BY TypeStep DEF GateInv
<1>1. /\ "pump" \in Threads /\ Pump = thread["pump"]
      /\ core[e].started \in Nat /\ e \in Nat /\ Pump.epoch \in Nat
      /\ \A t \in Threads : t # "pump" => thread[t].signal \in {"none", "Progress"}
      /\ \A t \in Threads : thread[t].epoch \in Nat /\ thread[t].epoch <= Pump.epoch
      /\ turns # NoEntry => turns.lastSeq \in Nat
  BY <1>0, Cast DEF Places
<1>2. core[e].finalized => core'[e].finalized
  <2>1. CASE \E t, kind, i, next : EmitStep(t, kind, i, next)
    BY <2>1, EmissionIsSteady DEF Steady
  <2>2. CASE ~\E t, kind, i, next : EmitStep(t, kind, i, next)
    BY <2>2, StartsStay
  <2> QED BY <2>1, <2>2
<1>3. ASSUME turns' = turns \/ turns' = NoEntry PROVE SeesStart(e, Lookup(turns, e))'
  BY <1>2, <1>3 DEF SeesStart, Lookup
<1>4. ASSUME NEW t \in Threads, Observe(t) PROVE SeesStart(e, Lookup(turns, e))'
  <2> DEFINE n == thread[t].seq
             sig == thread[t].signal
             r == turns'
  <2>1. /\ thread[t].pc = "observe" /\ thread[t].epoch \in Epochs /\ n \in Nat
        /\ sig \in Signals \ {"none"} /\ core' = core
        /\ turns # NoEntry => r.epoch = turns.epoch
        /\ turns = NoEntry => r.epoch = thread[t].epoch
                              /\ AbsorbEffect(Fresh(thread[t].epoch), n, sig, r)
        /\ turns # NoEntry /\ turns.epoch # thread[t].epoch => r = turns
        /\ turns # NoEntry /\ turns.epoch = thread[t].epoch => AbsorbEffect(turns, n, sig, r)
    BY <1>0, <1>4, ObserveFacts
  <2>2. t # "pump" => sig = "Progress" BY <1>1, <2>1
  <2>3. CASE turns = NoEntry
    <3>1. Pump.pc \in Finished BY <1>0, <2>3 DEF TurnOwner
    <3>2. t # "pump" BY <1>1, <2>1, <3>1 DEF Finished
    <3>3. core[thread[t].epoch].finalized BY <1>0, <1>1, <2>1, <3>1 DEF Incarnations
    <3>4. r.inTurn
      <4> DEFINE f == Fresh(thread[t].epoch)
      <4>1. f.lastSeq = 0 BY <2>1, FreshFacts
      <4>2. AbsorbEffect(f, n, "Progress", r) BY <2>1, <2>2, <2>3, <3>2
      <4> HIDE DEF f, n, r
      <4> QED BY <2>1, <4>1, <4>2 DEF AbsorbEffect
    <3> QED BY <2>1, <2>3, <3>3, <3>4 DEF SeesStart, Lookup
  <2>4. CASE turns # NoEntry /\ turns.epoch # thread[t].epoch
    BY <1>3, <2>1, <2>4
  <2>5. CASE turns # NoEntry /\ turns.epoch = thread[t].epoch
    <3>1. AbsorbEffect(turns, n, sig, r) BY <2>1, <2>5
    <3>2. r.lastSeq >= turns.lastSeq /\ r.lastSeq \in Nat
      BY <1>1, <2>1, <2>5, <3>1 DEF AbsorbEffect, TurnEntries
    <3>3. CASE turns.epoch = e /\ ~(turns.lastSeq >= core[e].started)
      <4>1. core[e].finalized /\ turns.inTurn
        BY <2>5, <3>3 DEF SeesStart, Lookup
      <4>2. t # "pump"
        <5>1. Pump.epoch = e => Pump.pc \in Finished
          BY <1>0, <1>1, <4>1 DEF Incarnations
        <5> QED BY <1>1, <2>1, <2>5, <3>3, <5>1 DEF Finished
      <4>3. r.inTurn BY <2>2, <3>1, <4>1, <4>2 DEF AbsorbEffect
      <4> QED BY <2>1, <4>1, <4>3 DEF SeesStart, Lookup
    <3>4. CASE turns.epoch = e /\ turns.lastSeq >= core[e].started
      <4>1. r.lastSeq >= core'[e].started BY <1>1, <2>1, <2>5, <3>2, <3>4
      <4> QED BY <4>1 DEF SeesStart, Lookup
    <3>5. CASE turns.epoch # e BY <2>1, <2>5, <3>5 DEF SeesStart, Lookup
    <3> QED BY <3>3, <3>4, <3>5
  <2> QED BY <2>3, <2>4, <2>5
<1>5. CASE Spawn
  <2> DEFINE x == Pump.epoch + 1
  <2>1. turns'.epoch = x /\ turns'.lastSeq = 0 /\ core' = core BY <1>0, <1>5, SpawnFacts
  <2>2. CASE e = x
    <3>1. core[e] = NewCore BY <1>0, <1>1, <2>2 DEF Incarnations
    <3>2. core'[e].started = 0 BY <2>1, <3>1 DEF NewCore
    <3> QED BY <2>1, <3>2 DEF SeesStart, Lookup
  <2>3. CASE e # x BY <2>1, <2>3 DEF SeesStart, Lookup
  <2> QED BY <2>2, <2>3
<1>6. CASE \E t, kind, i, next : EmitStep(t, kind, i, next) BY <1>3, <1>6 DEF EmitStep
<1>7. CASE \E t \in Threads : Recheck(t) \/ WriteDrained(t) \/ InputsDrained(t)
  BY <1>3, <1>7 DEF Recheck, WriteDrained, InputsDrained, Forgotten
<1>8. CASE PlainMove \/ SweepStep BY <1>3, <1>8, PlainFacts, QuietFacts DEF Plain
<1>9. CASE Finalize \/ Seal \/ ReapTurns \/ ReapPending \/ Reap
  BY <1>3, <1>9 DEF Finalize, Seal, ReapTurns, ReapPending, Reap, Forgotten
<1> QED BY <1>4, <1>5, <1>6, <1>7, <1>8, <1>9, StepKinds

(* The list handed over to a turn.                                         *)
LEMMA HandoverStep ==
  ASSUME GateInv, Next
  PROVE  Handover'
<1>0. TypeOK /\ TypeOK' /\ Places /\ Incarnations /\ PendFollows /\ Numbers /\ Handover
  BY TypeStep DEF GateInv
<1>1. /\ "pump" \in Threads /\ Pump = thread["pump"] /\ Pump' = thread'["pump"]
      /\ \A i \in Inputs : i \in Threads
      /\ "lane" \in Threads /\ Lane = thread["lane"]
      /\ \A e \in Epochs : core[e].started \in Nat /\ core[e].seq \in Nat /\ e # 0
      /\ \A e \in Epochs : core'[e].started \in Nat /\ core'[e].seq \in Nat
      /\ \A t \in Threads : /\ thread[t].epoch \in Nat /\ thread[t].seq \in Nat
                            /\ thread[t].drain \in Nat /\ thread[t].saw.seq \in Nat
                            /\ thread[t].epoch # 0 => thread[t].epoch \in Epochs
                            /\ thread[t].pc \in Emitting => thread[t].next \notin Emitting
      /\ pend # NoEntry => pend.epoch \in Epochs /\ pend.lastSeq \in Nat
      /\ pend \in PendEntries \cup {NoEntry}
  <2>1. \A e \in Epochs : core'[e].started \in Nat /\ core'[e].seq \in Nat
    BY <1>0 DEF TypeOK, Cores
  <2>2. pend \in PendEntries \cup {NoEntry} BY <1>0 DEF TypeOK
  <2> QED BY <1>0, <2>1, <2>2, Cast
<1>2. ASSUME NEW e \in Epochs, core'[e].started = 0
      PROVE  SeesStart(e, Lookup(turns, e))' /\ SeesStart(e, NoEntry)'
  <2>1. turns' # NoEntry => turns'.lastSeq \in Nat BY <1>0 DEF TypeOK, TurnEntries
  <2> QED BY <1>2, <2>1 DEF SeesStart, Lookup
<1>3. ASSUME NEW e \in Epochs, core'[e].started = core[e].started, core[e].finalized => core'[e].finalized,
             NEW t \in Threads, thread[t].epoch = e, KnowsStart(t, e),
             \/ thread'[t] = thread[t]
             \/ /\ thread'[t].pc \notin {"observe", "recheck", "drain"}
                /\ thread'[t].saw = thread[t].saw
             \/ /\ thread[t].pc \in {"recheck", "drain"} /\ thread'[t].pc = "drain"
                /\ thread'[t].saw = thread[t].saw /\ thread'[t].drain = thread[t].drain
      PROVE  KnowsStart(t, e)'
  <2>1. SeesStart(e, Lookup(turns, e)) => SeesStart(e, Lookup(turns, e))'
    BY <1>3, SeenStays
  <2>2. SeesStart(e, thread[t].saw.fact) => SeesStart(e, thread[t].saw.fact)'
    BY <1>3 DEF SeesStart
  <2> QED BY <1>3, <2>1, <2>2 DEF KnowsStart
<1> DEFINE Kept == \A e \in Epochs : /\ core'[e].started = core[e].started
                                     /\ core[e].finalized => core'[e].finalized
                                     /\ core'[e].seq >= core[e].seq
           Listed(e) == pend' # NoEntry /\ pend'.epoch = e /\ pend'.lastSeq = core'[e].started =>
                          SeesStart(e, Lookup(turns, e))'
<1>4. ASSUME Kept, pend' = pend \/ pend' = NoEntry PROVE \A e \in Epochs : Listed(e)
  BY <1>0, <1>4, SeenStays DEF Handover
<1>5. ASSUME NEW t \in Threads, Kept, \A e \in Epochs : Listed(e),
             \A s \in Threads : s # t => thread'[s] = thread[s],
             \A e \in Epochs : thread'[t].epoch = e => KnowsStart(t, e)'
      PROVE  Handover'
  <2>1. ASSUME NEW e \in Epochs PROVE core'[e].started <= core'[e].seq
    BY <1>0, <1>1, <1>5 DEF Handover
  <2>2. ASSUME NEW e \in Epochs, NEW s \in Threads, thread'[s].epoch = e
        PROVE  KnowsStart(s, e)'
    <3>1. CASE s = t BY <1>5, <2>2, <3>1
    <3>2. CASE s # t
      <4>1. thread'[s] = thread[s] /\ thread[s].epoch = e BY <1>5, <2>2, <3>2
      <4>2. KnowsStart(s, e) BY <1>0, <4>1 DEF Handover
      <4> QED BY <1>3, <1>5, <4>1, <4>2
    <3> QED BY <3>1, <3>2
  <2> QED BY <1>5, <2>1, <2>2 DEF Handover
<1>6. ASSUME NEW t \in Threads, thread'[t].pc \notin {"observe", "recheck", "drain"},
             thread'[t].saw.seq = 0, thread'[t].saw.fact = NoEntry, NEW e \in Epochs
      PROVE  KnowsStart(t, e)'
  BY <1>2, <1>6 DEF KnowsStart
<1>7. Kept \/ \E t, kind, i, next : EmitStep(t, kind, i, next) BY StartsStay
<1>8. ASSUME NEW t \in Threads, Kept, pend' = pend \/ pend' = NoEntry,
             \A s \in Threads : s # t => thread'[s] = thread[s],
             \/ /\ thread'[t].pc \notin {"observe", "recheck", "drain"}
                /\ \/ thread'[t].saw.seq = 0 /\ thread'[t].saw.fact = NoEntry
                   \/ thread'[t].saw = thread[t].saw /\ thread'[t].epoch = thread[t].epoch
             \/ /\ thread[t].pc = "recheck" /\ thread'[t].pc = "drain"
                /\ thread'[t].saw = thread[t].saw /\ thread'[t].drain = thread[t].drain
                /\ thread'[t].epoch = thread[t].epoch
      PROVE  Handover'
  <2>1. \A e \in Epochs : Listed(e) BY <1>4, <1>8
  <2>2. ASSUME NEW e \in Epochs, thread'[t].epoch = e PROVE KnowsStart(t, e)'
    <3>1. thread[t].epoch = e => KnowsStart(t, e) BY <1>0 DEF Handover
    <3> QED BY <1>3, <1>6, <1>8, <2>2, <3>1
  <2> HIDE DEF Kept, Listed
  <2> QED BY <1>5, <1>8, <2>1, <2>2
<1>9. ASSUME NEW t \in Threads, Recheck(t), Kept PROVE Handover'
  <2>1. pend' = pend BY <1>9 DEF Recheck
  <2>2. thread[t].pc = "recheck" /\ thread[t].next \notin Emitting
    BY <1>0, <1>1, <1>9, RecheckFacts DEF Emitting
  <2> HIDE DEF Kept
  <2> QED BY <1>0, <1>8, <1>9, <2>1, <2>2, RecheckFacts DEF Emitting
<1>10. ASSUME NEW t \in Threads, InputsDrained(t), Kept PROVE Handover'
  <2>1. thread[t].pc = "drained" /\ thread[t].next \notin Emitting
    BY <1>0, <1>1, <1>10, InputsDrainedFacts DEF Emitting
  <2> HIDE DEF Kept
  <2> QED BY <1>0, <1>8, <1>10, <2>1, InputsDrainedFacts DEF Emitting
<1>11. ASSUME NEW t \in Threads, WriteDrained(t), Kept PROVE Handover'
  <2>1. /\ thread[t].pc = "drain" /\ pend' = PendingSet(pend, thread[t].epoch, thread[t].drain, FALSE)
        /\ \A s \in Threads : s # t => thread'[s] = thread[s]
        /\ thread'[t].pc = "drained" /\ thread'[t].epoch = thread[t].epoch
        /\ thread'[t].saw = thread[t].saw
    BY <1>0, <1>11, WriteDrainedFacts
  <2>2. thread[t].epoch \in Epochs /\ thread[t].drain \in Nat BY <1>0, <2>1, Cast DEF Emitting
  <2> DEFINE x == thread[t].epoch
             n == thread[t].drain
  <2>3. pend' = pend \/ (pend'.lastSeq = n /\ pend'.epoch = x)
    <3>1. pend' = PendingSet(pend, x, n, FALSE) BY <2>1
    <3>2. pend \in PendEntries \cup {NoEntry} BY <1>1
    <3> HIDE DEF x, n
    <3> QED BY <3>1, <3>2, PendingSetNumber, ZenonT(60)
  <2>4. ASSUME NEW e \in Epochs PROVE Listed(e)
    <3>1. CASE pend' = pend BY <1>4, <1>11, <3>1
    <3>2. CASE pend'.lastSeq = n /\ pend'.epoch = x
      <4>1. x = e /\ n = core[e].started => SeesStart(e, Lookup(turns, e))
        BY <1>0, <2>1 DEF Handover, KnowsStart
      <4>2. x = e /\ n = core[e].started => SeesStart(e, Lookup(turns, e))'
        BY <1>11, <4>1, SeenStays
      <4> QED BY <1>11, <3>2, <4>2
    <3> QED BY <2>3, <3>1, <3>2
  <2>5. ASSUME NEW e \in Epochs, thread'[t].epoch = e PROVE KnowsStart(t, e)'
    <3>1. thread[t].epoch = e BY <2>1, <2>5
    <3>2. KnowsStart(t, e) BY <1>0, <3>1 DEF Handover
    <3> QED BY <1>3, <1>11, <2>1, <3>1, <3>2
  <2> HIDE DEF Kept, Listed
  <2> QED BY <1>5, <1>11, <2>1, <2>4, <2>5
<1>12. ASSUME NEW t \in Threads, Observe(t), Kept PROVE Handover'
  <2> DEFINE n == thread[t].seq
             r == turns'
  <2>0. PICK x \in Epochs : x = thread[t].epoch BY <1>0, <1>12, ObserveFacts
  <2>1. /\ thread[t].pc = "observe" /\ n \in Nat /\ pend' = pend
        /\ turns # NoEntry => r.epoch = turns.epoch
        /\ turns = NoEntry => r.epoch = x /\ AbsorbEffect(Fresh(x), n, thread[t].signal, r)
        /\ turns # NoEntry /\ turns.epoch = x => AbsorbEffect(turns, n, thread[t].signal, r)
        /\ \A s \in Threads : s # t => thread'[s] = thread[s]
        /\ thread'[t].pc = "recheck" /\ thread'[t].epoch = x
        /\ thread'[t].drain = thread[t].drain /\ thread'[t].saw = thread[t].saw
    BY <1>0, <1>12, <2>0, ObserveFacts
  <2>2. KnowsStart(t, x) BY <1>0, <2>0 DEF Handover
  <2>3. Lookup(turns', x) # NoEntry => Lookup(turns', x).lastSeq >= n
    <3> DEFINE f == Fresh(x)
    <3>1. f.lastSeq \in Nat
      <4>1. f.lastSeq = 0 BY <2>0, FreshFacts
      <4> HIDE DEF f
      <4> QED BY <4>1
    <3>2. turns # NoEntry => turns.lastSeq \in Nat BY <1>0, Cast
    <3>3. ASSUME NEW entry, entry.lastSeq \in Nat, AbsorbEffect(entry, n, thread[t].signal, r)
          PROVE  r.lastSeq >= n
      BY <2>1, <3>3 DEF AbsorbEffect
    <3>4. turns = NoEntry \/ turns.epoch = x => r.lastSeq >= n
      <4> HIDE DEF f, n, r
      <4> QED BY <2>1, <3>1, <3>2, <3>3 DEF f
    <3> QED BY <2>1, <3>4 DEF Lookup
  <2>4. thread[t].drain = core'[x].started => SeesStart(x, Lookup(turns, x))'
    <3>1. CASE core'[x].started = 0 BY <1>2, <2>1, <3>1
    <3>2. CASE core'[x].started # 0
      <4>1. core'[x].started = core[x].started BY <1>12, <2>1
      <4>2. thread[t].drain = core'[x].started => n = core'[x].started
        BY <2>1, <2>2, <3>2, <4>1 DEF KnowsStart
      <4> QED BY <2>3, <4>2 DEF SeesStart
    <3> QED BY <3>1, <3>2
  <2>5. thread[t].saw.seq = core'[x].started => /\ SeesStart(x, Lookup(turns, x))'
                                                /\ SeesStart(x, thread[t].saw.fact)'
    <3>1. core'[x].started = core[x].started /\ (core[x].finalized => core'[x].finalized)
      BY <1>12, <2>1
    <3>2. thread[t].saw.seq = core[x].started => /\ SeesStart(x, Lookup(turns, x))
                                                 /\ SeesStart(x, thread[t].saw.fact)
      BY <2>2 DEF KnowsStart
    <3>3. SeesStart(x, thread[t].saw.fact) => SeesStart(x, thread[t].saw.fact)'
      BY <2>1, <3>1 DEF SeesStart
    <3> QED BY <2>1, <3>1, <3>2, <3>3, SeenStays
  <2>6. KnowsStart(t, x)' BY <2>1, <2>4, <2>5 DEF KnowsStart
  <2>7. \A e \in Epochs : Listed(e) BY <1>4, <1>12, <2>1
  <2> HIDE DEF Kept, Listed
  <2> QED BY <1>5, <1>12, <2>1, <2>6, <2>7
<1>13. ASSUME NEW t, NEW kind, NEW i, NEW next, EmitStep(t, kind, i, next)
       PROVE  Handover'
  <2>1. t \in Threads /\ next \in Pcs \ Emitting /\ Emitted(t, kind, next)
    BY <1>0, <1>13, EmitFacts
  <2>2. PICK x \in Epochs : x = thread[t].epoch BY <2>1 DEF Emitted
  <2> DEFINE n == core'[x].seq
             drained == core[x].rows # {} /\ core'[x].rows = {}
             sig == Classify(kind)
             new == thread'[t]
  <2>3. /\ thread[t].pc \notin Emitting
        /\ \A y \in Epochs : y # x => core'[y] = core[y]
        /\ n \in Nat /\ n > core[x].seq
        /\ core'[x].finalized = core[x].finalized
        /\ \/ core'[x].started = core[x].started
           \/ kind = "Delivered" /\ core'[x].started = n /\ drained
        /\ pend' = IF core[x].rows = {} /\ core'[x].rows # {}
                   THEN PendingSet(pend, x, n, TRUE) ELSE pend
        /\ \A s \in Threads : s # t => thread'[s] = thread[s]
    BY <2>1, <2>2 DEF Emitted
  <2>4. /\ new.pc = IF sig # "none" THEN "observe" ELSE IF drained THEN "drain" ELSE next
        /\ new.epoch = IF sig = "none" /\ ~drained /\ next \in {"off", "done"} THEN 0 ELSE x
        /\ new.signal = sig /\ new.drain = (IF drained THEN n ELSE 0)
        /\ new.pc = "observe" => new.seq = n
        /\ new.saw.seq = 0 /\ new.saw.fact = NoEntry
    BY <1>0, <2>1, <2>2, EmittedThread, ZenonT(60)
  <2> HIDE DEF n, drained, sig, new
  <2>5. core[x].started \in Nat /\ core[x].seq \in Nat /\ core[x].started <= core[x].seq
    BY <1>0, <1>1, <2>2 DEF Handover
  <2>6. CASE core'[x].started = core[x].started
    <3>1. Kept
      <4>1. ASSUME NEW e \in Epochs
            PROVE  /\ core'[e].started = core[e].started
                   /\ core[e].finalized => core'[e].finalized
                   /\ core'[e].seq >= core[e].seq
        <5>1. CASE e # x BY <1>1, <2>3, <5>1
        <5>2. CASE e = x BY <2>3, <2>5, <2>6, <5>2 DEF n
        <5> QED BY <5>1, <5>2
      <4> QED BY <4>1
    <3>2. pend' = pend \/ (pend'.epoch = x /\ pend'.lastSeq = n)
      <4>1. CASE pend' = PendingSet(pend, x, n, TRUE)
        BY <1>1, <4>1, PendingSetNumber
      <4> QED BY <2>3, <4>1
    <3>3. n # core'[x].started BY <2>3, <2>5, <2>6
    <3>4. \A e \in Epochs : Listed(e) BY <1>4, <3>1, <3>2, <3>3
    <3>5. ASSUME NEW e \in Epochs, thread'[t].epoch = e PROVE KnowsStart(t, e)'
      <4>1. e = x BY <1>1, <2>4, <3>5 DEF new
      <4>2. CASE core'[x].started # 0
        <5>1. new.drain # core'[x].started /\ new.saw.seq # core'[x].started
          BY <2>4, <3>3, <4>2
        <5> QED BY <4>1, <5>1 DEF KnowsStart, new
      <4>3. CASE core'[x].started = 0
        <5>1. SeesStart(x, Lookup(turns, x))' /\ SeesStart(x, NoEntry)' BY <1>2, <2>2, <4>3
        <5> QED BY <2>4, <4>1, <4>3, <5>1 DEF KnowsStart, new
      <4> QED BY <4>2, <4>3
    <3> HIDE DEF Kept, Listed
    <3> QED BY <1>5, <2>1, <2>3, <3>1, <3>4, <3>5
  <2>7. CASE kind = "Delivered" /\ core'[x].started = n /\ drained
    <3>1. pend' = pend BY <2>3, <2>7 DEF drained
    <3>2. sig = "Progress" BY <2>7 DEF sig, Classify
    <3>3. ASSUME NEW e \in Epochs, e # x
          PROVE  /\ core'[e].started <= core'[e].seq
                 /\ pend # NoEntry /\ pend.epoch = e /\ pend.lastSeq = core[e].started =>
                      SeesStart(e, Lookup(turns, e))'
                 /\ core'[e].started = core[e].started
                 /\ core[e].finalized => core'[e].finalized
      BY <1>0, <2>3, <3>3, SeenStays DEF Handover
    <3>4. pend # NoEntry /\ pend.epoch = x => pend.lastSeq # n
      <4>1. pend # NoEntry /\ pend.epoch = x => pend.lastSeq <= core[x].seq
        BY <1>0 DEF PendFollows
      <4> QED BY <1>1, <2>3, <2>5, <4>1
    <3>5. ASSUME NEW e \in Epochs, NEW s \in Threads, thread'[s].epoch = e
          PROVE  KnowsStart(s, e)'
      <4>1. CASE s = t
        <5>1. e = x /\ new.pc = "observe" /\ new.seq = n /\ new.signal = "Progress"
              /\ new.saw.seq = 0
          BY <2>4, <3>2, <3>5, <4>1 DEF new
        <5>2. n # 0 BY <2>3, <2>5
        <5> QED BY <2>7, <4>1, <5>1, <5>2 DEF KnowsStart, new
      <4>2. CASE s # t /\ e # x
        <5>1. thread'[s] = thread[s] /\ thread[s].epoch = e BY <2>3, <3>5, <4>2
        <5>2. KnowsStart(s, e) BY <1>0, <5>1 DEF Handover
        <5> QED BY <1>3, <3>3, <4>2, <5>1, <5>2
      <4>3. CASE s # t /\ e = x
        <5>1. thread'[s] = thread[s] /\ thread[s].epoch = x BY <2>3, <3>5, <4>3
        <5>2. x # 0 /\ thread[s].drain <= core[x].seq /\ thread[s].saw.seq <= core[x].seq
          BY <1>0, <1>1, <2>2, <5>1 DEF Numbers
        <5>3. thread[s].drain # n /\ thread[s].saw.seq # n
          BY <1>1, <2>3, <2>5, <5>2
        <5> QED BY <2>7, <4>3, <5>1, <5>3 DEF KnowsStart
      <4> QED BY <4>1, <4>2, <4>3
    <3>6. core'[x].started <= core'[x].seq BY <2>3, <2>7 DEF n
    <3> QED BY <2>7, <3>1, <3>3, <3>4, <3>5, <3>6 DEF Handover
  <2> QED BY <2>3, <2>6, <2>7
<1>14. ASSUME NEW t \in Threads, Kept, pend' = pend,
              \A s \in Threads : s # t => thread'[s] = thread[s],
              thread[t].epoch # 0, thread[t].pc = "readPending",
              thread'[t].pc \notin {"observe", "recheck", "drain"},
              thread'[t].epoch = thread[t].epoch, thread'[t].saw.fact = thread[t].saw.fact,
              thread'[t].saw.seq = IF Lookup(pend, thread[t].epoch) = NoEntry THEN 0
                                   ELSE Lookup(pend, thread[t].epoch).lastSeq
       PROVE  Handover'
  <2>1. PICK x \in Epochs : x = thread[t].epoch BY <1>1, <1>14
  <2>2. thread[t].saw.fact = NoEntry BY <1>0, <1>14 DEF Places
  <2>3. \A e \in Epochs : Listed(e) BY <1>4, <1>14
  <2>4. KnowsStart(t, x)'
    <3>1. thread'[t].saw.seq = core'[x].started => SeesStart(x, Lookup(turns, x))'
      <4>1. CASE Lookup(pend, x) = NoEntry BY <1>2, <1>14, <2>1, <4>1
      <4>2. CASE Lookup(pend, x) # NoEntry
        <5>1. pend # NoEntry /\ pend.epoch = x /\ Lookup(pend, x) = pend BY <4>2 DEF Lookup
        <5>2. Listed(x) BY <2>1, <2>3
        <5> QED BY <1>14, <2>1, <5>1, <5>2
      <4> QED BY <4>1, <4>2
    <3>2. SeesStart(x, thread[t].saw.fact)' BY <1>14, <2>2 DEF SeesStart
    <3> QED BY <1>14, <3>1, <3>2 DEF KnowsStart
  <2> HIDE DEF Kept, Listed
  <2> QED BY <1>5, <1>14, <2>1, <2>3, <2>4
<1>15. ASSUME NEW t \in Threads, Kept, pend' = pend, turns' = turns,
              \A s \in Threads : s # t => thread'[s] = thread[s],
              thread[t].epoch # 0, thread'[t].pc \notin {"observe", "recheck", "drain"},
              thread'[t].epoch = thread[t].epoch, thread'[t].saw.seq = thread[t].saw.seq,
              thread'[t].saw.fact = Lookup(turns, thread[t].epoch)
       PROVE  Handover'
  <2>1. PICK x \in Epochs : x = thread[t].epoch BY <1>1, <1>15
  <2>2. \A e \in Epochs : Listed(e) BY <1>4, <1>15
  <2>3. KnowsStart(t, x)'
    <3>1. KnowsStart(t, x) BY <1>0, <2>1 DEF Handover
    <3>2. thread'[t].saw.seq = core'[x].started => SeesStart(x, Lookup(turns, x))'
      BY <1>15, <2>1, <3>1, SeenStays DEF KnowsStart
    <3>3. SeesStart(x, Lookup(turns, x))' => SeesStart(x, thread[t].saw.fact)'
      BY <1>15, <2>1
    <3> QED BY <1>15, <3>2, <3>3 DEF KnowsStart
  <2> HIDE DEF Kept, Listed
  <2> QED BY <1>5, <1>15, <2>1, <2>2, <2>3
<1>16. ASSUME NEW i \in Inputs, InputMove(i), Kept PROVE Handover'
  <2>1. InputMoved(i) BY <1>0, <1>16, InputMoveFacts
  <2>2. i \in Threads /\ (thread[i].epoch = 0 <=> thread[i].pc \in {"off", "done"})
    BY <1>0, <1>1 DEF Places
  <2>3. /\ \A s \in Threads : s # i => thread'[s] = thread[s]
        /\ thread'[i].pc \notin Emitting /\ pend' = pend /\ turns' = turns
    BY <2>1 DEF InputMoved, Moved
  <2>4. thread'[i].pc \notin {"observe", "recheck", "drain"} BY <2>3 DEF Emitting
  <2>5. Blind.seq = 0 /\ Blind.fact = NoEntry BY DEF Blind
  <2> HIDE DEF Kept, Listed
  <2>6. CASE \/ thread'[i].saw = Blind
             \/ thread'[i].saw.seq = 0 /\ thread'[i].saw.fact = NoEntry
             \/ thread'[i].saw = thread[i].saw /\ thread'[i].epoch = thread[i].epoch
    BY <1>8, <1>16, <2>2, <2>3, <2>4, <2>5, <2>6
  <2>7. CASE /\ thread[i].pc = "readPending" /\ thread'[i].epoch = thread[i].epoch
             /\ thread'[i].saw.fact = thread[i].saw.fact
             /\ thread'[i].saw.seq = IF Lookup(pend, thread[i].epoch) = NoEntry THEN 0
                                     ELSE Lookup(pend, thread[i].epoch).lastSeq
    BY <1>14, <1>16, <2>2, <2>3, <2>4, <2>7
  <2>8. CASE /\ thread[i].pc = "readTurn" /\ thread'[i].epoch = thread[i].epoch
             /\ thread'[i].saw.seq = thread[i].saw.seq
             /\ thread'[i].saw.fact = Lookup(turns, thread[i].epoch)
    BY <1>15, <1>16, <2>2, <2>3, <2>4, <2>8
  <2> QED BY <2>1, <2>6, <2>7, <2>8 DEF InputMoved
<1>17. CASE LaneMove /\ Kept
  <2>1. LaneMoved BY <1>0, <1>17, LaneMoveFacts
  <2>2. thread["lane"].epoch = 0 <=> thread["lane"].pc = "off"
    BY <1>0, <1>1 DEF Places
  <2>3. /\ \A s \in Threads : s # "lane" => thread'[s] = thread[s]
        /\ thread'["lane"].pc \notin Emitting /\ pend' = pend /\ turns' = turns
    BY <2>1 DEF LaneMoved, Moved
  <2>4. thread'["lane"].pc \notin {"observe", "recheck", "drain"} BY <2>3 DEF Emitting
  <2>5. Blind.seq = 0 /\ Blind.fact = NoEntry BY DEF Blind
  <2> HIDE DEF Kept, Listed
  <2>6. CASE \/ thread'["lane"].saw = Blind
             \/ thread'["lane"] = Lane
             \/ thread'["lane"].saw = Lane.saw /\ thread'["lane"].epoch = Lane.epoch
    BY <1>1, <1>8, <1>17, <2>2, <2>3, <2>4, <2>5, <2>6
  <2>7. CASE /\ Lane.pc = "readPending" /\ thread'["lane"].epoch = Lane.epoch
             /\ thread'["lane"].saw.fact = Lane.saw.fact
             /\ thread'["lane"].saw.seq = IF Lookup(pend, Lane.epoch) = NoEntry THEN 0
                                          ELSE Lookup(pend, Lane.epoch).lastSeq
    BY <1>1, <1>14, <1>17, <2>2, <2>3, <2>4, <2>7
  <2>8. CASE /\ Lane.pc = "readTurn" /\ thread'["lane"].epoch = Lane.epoch
             /\ thread'["lane"].saw.seq = Lane.saw.seq
             /\ thread'["lane"].saw.fact = Lookup(turns, Lane.epoch)
    BY <1>1, <1>15, <1>17, <2>2, <2>3, <2>4, <2>8
  <2> QED BY <2>1, <2>6, <2>7, <2>8 DEF LaneMoved
<1>18. ASSUME UNCHANGED <<pend, thread>>, Kept PROVE Handover'
  <2>1. \A e \in Epochs : Listed(e) BY <1>4, <1>18
  <2>2. ASSUME NEW e \in Epochs, thread'["pump"].epoch = e PROVE KnowsStart("pump", e)'
    <3>1. KnowsStart("pump", e) BY <1>0, <1>1, <1>18, <2>2 DEF Handover
    <3> QED BY <1>1, <1>3, <1>18, <2>2, <3>1
  <2> HIDE DEF Kept, Listed
  <2> QED BY <1>1, <1>5, <1>18, <2>1, <2>2
<1>19. ASSUME NEW pc \in Pcs \ Emitting, PumpAt(pc), Kept, pend' = pend \/ pend' = NoEntry
       PROVE  Handover'
  <2> HIDE DEF Kept
  <2> QED BY <1>1, <1>8, <1>19 DEF PumpAt, Emitting
<1>20. CASE PumpAckAvailable /\ Kept BY <1>18, <1>20 DEF PumpAckAvailable
<1>21. CASE MailArrives /\ Kept BY <1>18, <1>21 DEF MailArrives
<1>22. CASE SweepStep /\ Kept BY <1>18, <1>22, QuietFacts
<1>23. CASE (PumpJudges \/ Finalize \/ Seal \/ ReapTurns \/ ReapPending \/ Reap) /\ Kept
  <2>1. \E pc \in Pcs \ Emitting : PumpAt(pc)
    BY <1>0, <1>23, PumpGoto, QuietFacts DEF PumpJudges, Pcs, Emitting
  <2>2. pend' = pend \/ pend' = NoEntry
    BY <1>23 DEF PumpJudges, Finalize, Seal, ReapTurns, ReapPending, Reap, Forgotten
  <2> HIDE DEF Kept
  <2> QED BY <1>19, <1>23, <2>1, <2>2
<1>24. CASE Spawn /\ Kept
  <2>1. /\ pend'.lastSeq = 0 /\ turns'.lastSeq = 0 /\ turns' # NoEntry
        /\ \A s \in Threads : s # "pump" => thread'[s] = thread[s]
        /\ thread'["pump"].pc = "read" /\ thread'["pump"].saw.seq = 0
        /\ thread'["pump"].saw.fact = NoEntry
    BY <1>0, <1>24, SpawnFacts
  <2>2. \A e \in Epochs : Listed(e)
    BY <1>2, <2>1
  <2>3. \A e \in Epochs : KnowsStart("pump", e)' BY <1>1, <1>6, <2>1
  <2> HIDE DEF Kept, Listed
  <2> QED BY <1>1, <1>5, <1>24, <2>1, <2>2, <2>3
<1> HIDE DEF Kept
<1> QED
  BY <1>7, <1>9, <1>10, <1>11, <1>12, <1>13, <1>16, <1>17, <1>20, <1>21, <1>22, <1>23,
     <1>24, StepKinds DEF PlainMove

(* The session is in the map and finish has not begun. *)
Alive == session # 0 /\ ~core[session].finalized

(* What mail is told of the turn of the session. *)
TurnHolds == \/ turns.lastEndFailed
             \/ turns.inTurn /\ <<session, turns.lastSeq>> \notin stale

(* A session that is alive owns both entries, and they are the verdict.    *)
LEMMA AliveFacts ==
  ASSUME GateInv, Alive
  PROVE  /\ Pump.pc \notin Finished /\ session = Pump.epoch /\ session \in Epochs
         /\ turns # NoEntry /\ turns.epoch = session
         /\ pend # NoEntry /\ pend.epoch = session
         /\ BusyNow(session) <=> TurnHolds \/ pend.pending
         /\ RunningTurn = IF turns.inTurn THEN {<<session, turns.lastSeq>>} ELSE {}
<1>0. TypeOK /\ Places /\ Incarnations /\ TurnOwner /\ PendOwner BY DEF GateInv
<1>1. session = Pump.epoch /\ session \in Epochs /\ Pump.pc # "off"
  <2>1. Pump.pc # "off" /\ session = Pump.epoch BY <1>0 DEF Incarnations, Alive
  <2> QED BY <1>0, <2>1, Cast
<1>2. Pump.pc \notin Finished
  BY <1>0, <1>1 DEF Incarnations, Alive
<1>3. /\ turns # NoEntry /\ turns.epoch = session /\ pend # NoEntry /\ pend.epoch = session
  BY <1>0, <1>1, <1>2 DEF TurnOwner, PendOwner, Finished
<1>4. BusyNow(session) <=> TurnHolds \/ pend.pending
  BY <1>3 DEF BusyNow, BusyReason, TurnHolds, Lookup, PendingRead
<1>5. RunningTurn = IF turns.inTurn THEN {<<session, turns.lastSeq>>} ELSE {}
  BY <1>3 DEF RunningTurn
<1> QED BY <1>1, <1>2, <1>3, <1>4, <1>5

(* A bell that is on its way stays so until the lane answers it.           *)
LEMMA RingingStays ==
  ASSUME GateInv, Next, ~LaneLook
  PROVE  (bell => bell') /\ (Ringing => Ringing')
<1>0. TypeOK /\ Places /\ Numbers BY DEF GateInv
<1>1. bell \in BOOLEAN BY <1>0 DEF TypeOK
<1>2. ASSUME bell => bell', UNCHANGED sweeper,
             \A t \in Threads : \/ thread'[t] = thread[t] \/ bell'
                                \/ thread[t].pc \notin {"recheck", "drained"}
      PROVE  (bell => bell') /\ (Ringing => Ringing')
  BY <1>2 DEF Ringing
<1>3. ASSUME Quiet
      PROVE  \A t \in Threads : \/ thread'[t] = thread[t] \/ bell'
                                \/ thread[t].pc \notin {"recheck", "drained"}
  BY <1>3 DEF Quiet, Emitting
<1>4. ASSUME NEW t, NEW kind, NEW i, NEW next, EmitStep(t, kind, i, next)
      PROVE  (bell => bell') /\ (Ringing => Ringing')
  <2>1. UNCHANGED <<sweeper, bell>> BY <1>4 DEF EmitStep
  <2>2. /\ \A s \in Threads : s # t => thread'[s] = thread[s]
        /\ thread[t].pc \notin Emitting
    <3>1. Emitted(t, kind, next) BY <1>0, <1>4, EmitFacts
    <3> QED BY <3>1 DEF Emitted
  <2>3. thread[t].pc \notin {"recheck", "drained"} BY <2>2 DEF Emitting
  <2> QED BY <1>2, <2>1, <2>2, <2>3
<1>5. ASSUME NEW t \in Threads, Observe(t) PROVE (bell => bell') /\ (Ringing => Ringing')
  BY <1>0, <1>2, <1>5, ObserveFacts
<1>6. ASSUME NEW t \in Threads, WriteDrained(t) PROVE (bell => bell') /\ (Ringing => Ringing')
  BY <1>0, <1>2, <1>6, WriteDrainedFacts
<1>7. ASSUME NEW t \in Threads, InputsDrained(t) PROVE (bell => bell') /\ (Ringing => Ringing')
  BY <1>7 DEF InputsDrained, Ringing
<1>8. ASSUME NEW t \in Threads, Recheck(t) PROVE (bell => bell') /\ (Ringing => Ringing')
  <2>1. /\ thread[t].pc = "recheck" /\ \A s \in Threads : s # t => thread'[s] = thread[s]
        /\ bell' <=> bell \/ IsEnd(thread[t].signal)
    BY <1>0, <1>8, RecheckFacts
  <2>2. sweeper' = sweeper BY <1>8 DEF Recheck
  <2>3. CASE IsEnd(thread[t].signal) BY <2>1, <2>3 DEF Ringing
  <2>4. CASE ~IsEnd(thread[t].signal) BY <2>1, <2>2, <2>4 DEF Ringing
  <2> QED BY <2>3, <2>4
<1>9. ASSUME PlainMove PROVE (bell => bell') /\ (Ringing => Ringing')
  <2>1. Quiet /\ UNCHANGED sweeper BY <1>9, PlainFacts DEF Plain
  <2>2. bell => bell'
    <3>1. CASE \E i \in Inputs : InputMove(i)
      BY <1>0, <3>1, InputMoveFacts DEF InputMoved
    <3>2. CASE LaneMove
      BY <3>2 DEF LaneMove, LaneReadPending, LaneReadTurn, LaneJudge, LaneInject
    <3>3. CASE MailArrives \/ PumpAckAvailable \/ PumpJudges
      BY <3>3 DEF MailArrives, PumpAckAvailable, PumpJudges
    <3> QED BY <1>9, <3>1, <3>2, <3>3 DEF PlainMove
  <2> QED BY <1>2, <1>3, <2>1, <2>2
<1>10. CASE Finalize \/ Seal \/ ReapTurns \/ ReapPending \/ Reap
  <2>1. Quiet BY <1>10, QuietFacts
  <2>2. UNCHANGED <<sweeper, bell>>
    BY <1>10 DEF Finalize, Seal, ReapTurns, ReapPending, Reap
  <2> QED BY <1>2, <1>3, <2>1, <2>2
<1>11. CASE Spawn BY <1>11 DEF Spawn, Ringing
<1>12. CASE SweepStep
  <2>1. thread' = thread BY <1>12, QuietFacts
  <2>2. CASE SweepWake BY <2>2 DEF SweepWake, Ringing
  <2>3. CASE ~SweepWake
    <3>1. sweeper.pc # "wake" /\ bell' = bell
      BY <1>12, <2>3 DEF SweepStep, SweepRead, SweepSwap
    <3> QED BY <2>1, <3>1 DEF Ringing
  <2> QED BY <2>2, <2>3
<1> QED BY <1>4, <1>5, <1>6, <1>7, <1>8, <1>9, <1>10, <1>11, <1>12, StepKinds

(* While the session is alive, what holds mail goes on to hold it until    *)
(* the lane answers the bell; and a running turn goes on to run, or its    *)
(* next signal holds mail, or its end rings.                               *)
LEMMA HeldStays ==
  ASSUME GateInv, Next, ~LaneLook, Alive, Alive', session' = session
  PROVE  /\ Held => Held'
         /\ RunningTurn' = RunningTurn \/ RunningTurn = {} \/ Held'
<1>0. TypeOK /\ Places /\ Numbers /\ TypeOK' /\ Incarnations' /\ TurnOwner' /\ PendOwner'
  BY TypeStep, IncarnationsStep, TurnOwnerStep, PendOwnerStep DEF GateInv
<1>1. /\ Pump.pc \notin Finished /\ session = Pump.epoch /\ session \in Epochs
      /\ turns # NoEntry /\ turns.epoch = session
      /\ pend # NoEntry /\ pend.epoch = session
      /\ BusyNow(session) <=> TurnHolds \/ pend.pending
      /\ RunningTurn = IF turns.inTurn THEN {<<session, turns.lastSeq>>} ELSE {}
  BY AliveFacts
<1>2. /\ turns' # NoEntry /\ turns'.epoch = session /\ pend' # NoEntry /\ pend'.epoch = session
  <2>1. Pump'.pc # "off" /\ session = Pump'.epoch BY <1>0, <1>1 DEF Incarnations, Alive
  <2>2. Pump'.pc \notin Finished
    BY <1>0, <1>1, <2>1 DEF Incarnations, Alive
  <2> QED BY <1>0, <2>1, <2>2 DEF TurnOwner, PendOwner, Finished
<1>3. BusyNow(session)' <=> TurnHolds' \/ pend'.pending
  BY <1>2 DEF BusyNow, BusyReason, TurnHolds, Lookup, PendingRead
<1>4. RunningTurn' = IF turns'.inTurn THEN {<<session, turns'.lastSeq>>} ELSE {}
  BY <1>2 DEF RunningTurn
<1>5. Ringing => Ringing' BY RingingStays
<1>6. ASSUME Ringing' PROVE Held' BY <1>6 DEF Held
<1>7. ASSUME turns' = turns, TurnHolds => TurnHolds' \/ Ringing',
             pend.pending => pend'.pending \/ Ringing'
      PROVE  /\ Held => Held'
             /\ RunningTurn' = RunningTurn \/ RunningTurn = {} \/ Held'
  BY <1>1, <1>3, <1>4, <1>5, <1>7 DEF Held
<1>8. ASSUME UNCHANGED <<turns, stale>> PROVE TurnHolds' <=> TurnHolds
  BY <1>8 DEF TurnHolds
<1>9. ASSUME UNCHANGED <<turns, pend, stale>>
      PROVE  /\ Held => Held'
             /\ RunningTurn' = RunningTurn \/ RunningTurn = {} \/ Held'
  BY <1>7, <1>8, <1>9
<1>10. ASSUME NEW t, NEW kind, NEW i, NEW next, EmitStep(t, kind, i, next)
       PROVE  /\ Held => Held'
              /\ RunningTurn' = RunningTurn \/ RunningTurn = {} \/ Held'
  <2>1. UNCHANGED <<turns, stale>> BY <1>10 DEF EmitStep
  <2>2. PICK x \in Epochs, n \in Nat : pend' \in {PendingSet(pend, x, n, TRUE), pend}
    <3>1. Emitted(t, kind, next) BY <1>0, <1>10, EmitFacts
    <3> QED BY <3>1 DEF Emitted
  <2>3. pend.pending => pend'.pending
    <3>1. pend \in PendEntries BY <1>0, <1>1 DEF TypeOK
    <3>2. pend.pending => PendingSet(pend, x, n, TRUE).pending
      BY <1>1, <3>1 DEF PendingSet, PendEntries
    <3> QED BY <2>2, <3>2
  <2> QED BY <1>7, <1>8, <2>1, <2>3
<1>11. ASSUME NEW t \in Threads, WriteDrained(t)
       PROVE  /\ Held => Held'
              /\ RunningTurn' = RunningTurn \/ RunningTurn = {} \/ Held'
  <2>1. thread'[t].pc = "drained" BY <1>0, <1>11, WriteDrainedFacts
  <2>2. Ringing' BY <2>1 DEF Ringing
  <2> QED BY <1>6, <2>2
<1>12. ASSUME NEW t \in Threads, Recheck(t)
       PROVE  /\ Held => Held'
              /\ RunningTurn' = RunningTurn \/ RunningTurn = {} \/ Held'
  <2>1. UNCHANGED <<pend, stale>> BY <1>12 DEF Recheck
  <2>2. turns' = turns BY <1>2, <1>12 DEF Recheck, Forgotten
  <2> QED BY <1>9, <2>1, <2>2
<1>13. ASSUME NEW t \in Threads, Observe(t)
       PROVE  /\ Held => Held'
              /\ RunningTurn' = RunningTurn \/ RunningTurn = {} \/ Held'
  <2> DEFINE n == thread[t].seq
             sig == thread[t].signal
             r == turns'
  <2>1. /\ thread[t].pc = "observe" /\ n \in Nat /\ sig \in Signals \ {"none"}
        /\ turns.epoch # thread[t].epoch => r = turns
        /\ turns.epoch = thread[t].epoch => AbsorbEffect(turns, n, sig, r)
        /\ thread'[t].pc = "recheck" /\ thread'[t].signal = sig
        /\ UNCHANGED <<pend, stale>>
    BY <1>0, <1>1, <1>13, ObserveFacts
  <2>2. CASE turns.epoch # thread[t].epoch BY <1>9, <2>1, <2>2
  <2>3. CASE IsEnd(sig)
    <3>1. Ringing' BY <2>1, <2>3 DEF Ringing
    <3> QED BY <1>6, <3>1
  <2>4. CASE turns.epoch = thread[t].epoch /\ ~IsEnd(sig)
    <3>1. turns.lastSeq \in Nat /\ turns.inTurn \in BOOLEAN
      BY <1>0, <1>1 DEF TypeOK, TurnEntries
    <3>2. AbsorbEffect(turns, n, sig, r) BY <2>1, <2>4
    <3>3. /\ r.lastEndFailed = turns.lastEndFailed
          /\ r.lastSeq = (IF n >= turns.lastSeq THEN n ELSE turns.lastSeq)
          /\ \/ r.inTurn = turns.inTurn
             \/ r.inTurn <=> turns.inTurn \/ n >= turns.lastSeq
      BY <2>1, <2>4, <3>2 DEF AbsorbEffect, Signals, IsEnd
    <3>4. turns.inTurn => r.inTurn BY <3>3
    <3>5. <<session, n>> \notin stale
      <4>1. ASSUME <<session, n>> \in stale PROVE FALSE
        <5> DEFINE p == <<session, n>>
        <5>1. p \in stale \cup sweeper.seen /\ p[1] = session /\ p[2] = n BY <4>1
        <5> HIDE DEF p
        <5> QED BY <1>0, <1>1, <2>1, <2>4, <5>1 DEF Numbers
      <4> QED BY <4>1
    <3>6. CASE n >= turns.lastSeq
      <4>1. turns.inTurn => TurnHolds' BY <1>1, <2>1, <3>3, <3>4, <3>5, <3>6 DEF TurnHolds
      <4>2. TurnHolds => TurnHolds' BY <3>3, <4>1 DEF TurnHolds
      <4> QED BY <1>1, <1>3, <1>4, <1>5, <2>1, <4>1, <4>2 DEF Held
    <3>7. CASE ~(n >= turns.lastSeq)
      <4>1. r.inTurn = turns.inTurn \/ (r.inTurn <=> turns.inTurn) BY <3>3, <3>7
      <4>2. r.lastSeq = turns.lastSeq BY <3>3, <3>7
      <4>3. TurnHolds => TurnHolds' BY <1>1, <2>1, <3>3, <3>4, <4>2 DEF TurnHolds
      <4>4. RunningTurn' = RunningTurn \/ RunningTurn = {} BY <1>1, <1>4, <3>4, <4>2
      <4> QED BY <1>1, <1>3, <1>5, <2>1, <4>3, <4>4 DEF Held
    <3> QED BY <3>6, <3>7
  <2> QED BY <2>2, <2>3, <2>4
<1>14. CASE SweepStep
  <2>1. UNCHANGED <<turns, pend>> BY <1>14, QuietFacts
  <2>2. TurnHolds => TurnHolds' \/ Ringing'
    <3>1. CASE SweepSwap
      <4>1. CASE sweeper.seen \subseteq stale
        <5>1. stale' \subseteq stale BY <3>1, <4>1 DEF SweepSwap
        <5> QED BY <2>1, <5>1 DEF TurnHolds
      <4>2. CASE ~(sweeper.seen \subseteq stale)
        <5>1. sweeper'.pc = "wake" BY <3>1, <4>2 DEF SweepSwap
        <5> QED BY <5>1 DEF Ringing
      <4> QED BY <4>1, <4>2
    <3>2. CASE ~SweepSwap
      <4>1. stale' = stale BY <1>14, <3>2 DEF SweepStep, SweepRead, SweepWake
      <4> QED BY <1>8, <2>1, <4>1
    <3> QED BY <3>1, <3>2
  <2> QED BY <1>7, <2>1, <2>2
<1>15. CASE PlainMove BY <1>9, <1>15, PlainFacts DEF Plain
<1>16. ASSUME NEW t \in Threads, InputsDrained(t)
       PROVE  /\ Held => Held'
              /\ RunningTurn' = RunningTurn \/ RunningTurn = {} \/ Held'
  BY <1>9, <1>16 DEF InputsDrained
<1>17. CASE Finalize BY <1>0, <1>1, <1>17, FinalizeFacts DEF Alive
<1>18. CASE Seal \/ ReapTurns \/ ReapPending \/ Reap \/ Spawn
  BY <1>1, <1>18 DEF Seal, ReapTurns, ReapPending, Reap, Spawn, Finished
<1> QED
  BY <1>10, <1>11, <1>12, <1>13, <1>14, <1>15, <1>16, <1>17, <1>18, StepKinds

(* Bells.                                                                  *)
LEMMA BellsStep ==
  ASSUME GateInv, Next
  PROVE  Bells'
<1>0. TypeOK /\ Places /\ Incarnations /\ Numbers /\ Bells /\ Incarnations'
  BY IncarnationsStep DEF GateInv
<1>1. /\ "lane" \in Threads /\ Lane = thread["lane"] /\ Lane' = thread'["lane"]
      /\ "pump" \in Threads /\ Pump = thread["pump"] /\ Pump' = thread'["pump"]
      /\ \A i \in Inputs : i \in Threads /\ i # "lane"
      /\ Lane.epoch = 0 <=> Lane.pc = "off"
      /\ Lane.pc \in Emitting => Lane.next = "off"
      /\ Lane.pc = "readPending" => Lane.saw.fact = NoEntry
      /\ Lane.pc \in {"off", "readPending", "readTurn", "judge", "inject", "echo"} \cup Emitting
  BY <1>0, Cast DEF Places
<1>2. ASSUME bell' PROVE Bells' /\ Held'
  BY <1>2 DEF Bells, Held, Ringing
<1>3. ASSUME ~Alive' PROVE Bells'
  BY <1>3 DEF Bells, Alive
<1>4. Alive => /\ mail /\ Lane.pc = "off" => Held
               /\ Lane.pc # "off" /\ Lane.epoch # session => bell
               /\ mail /\ Lane.pc \in {"echo"} \cup Emitting => bell
               /\ Lane.pc \in {"readTurn", "judge"} /\ Lane.epoch = session =>
                    /\ Lane.saw.pending => Held
                    /\ Lane.saw.fact # NoEntry =>
                         /\ Lane.saw.fact.lastEndFailed => Held
                         /\ Lane.saw.fact.inTurn =>
                              Held \/ RunningTurn = {<<session, Lane.saw.fact.lastSeq>>}
  BY <1>0 DEF Bells, Alive
<1>5. ASSUME /\ mail' /\ Lane'.pc = "off" => Held'
             /\ Lane'.pc # "off" /\ Lane'.epoch # session' => bell'
             /\ mail' /\ Lane'.pc \in {"echo"} \cup Emitting => bell'
             /\ Lane'.pc \in {"readTurn", "judge"} /\ Lane'.epoch = session' =>
                  /\ Lane'.saw.pending => Held'
                  /\ Lane'.saw.fact # NoEntry =>
                       /\ Lane'.saw.fact.lastEndFailed => Held'
                       /\ Lane'.saw.fact.inTurn =>
                            Held' \/ RunningTurn' = {<<session', Lane'.saw.fact.lastSeq>>}
      PROVE  Bells'
  BY <1>5 DEF Bells
<1> DEFINE Lasting == /\ Alive /\ session' = session
                      /\ bell => bell'
                      /\ Held => Held'
                      /\ RunningTurn' = RunningTurn \/ RunningTurn = {} \/ Held'
<1>6. ASSUME Alive', ~LaneLook, ~Spawn PROVE Lasting
  <2>1. Alive /\ session' = session
    <3>1. ASSUME Steady PROVE Alive /\ session' = session
      <4>1. session' = session BY <3>1 DEF Steady
      <4>2. session \in Epochs BY <1>0, <1>6, <4>1 DEF Alive, TypeOK, Epochs
      <4> QED BY <1>6, <3>1, <4>1, <4>2 DEF Alive, Steady
    <3>2. CASE \/ \E t, kind, i, next : EmitStep(t, kind, i, next)
               \/ \E t \in Threads : Observe(t) \/ Recheck(t) \/ WriteDrained(t) \/ InputsDrained(t)
      BY <3>1, <3>2, EmissionIsSteady
    <3>3. CASE PlainMove \/ SweepStep BY <3>1, <3>3, PlainFacts, QuietFacts DEF Plain
    <3>4. CASE Finalize \/ Seal \/ ReapTurns \/ ReapPending \/ Reap
      <4>1. Pump'.pc \in Finished /\ Pump'.epoch = Pump.epoch /\ Pump.pc # "off"
        BY <1>1, <3>4, QuietFacts DEF PumpAt, Finished
      <4>2. Pump.epoch \in Epochs BY <1>0, <4>1, Cast
      <4>3. core'[Pump.epoch].finalized /\ session' \in {0, Pump.epoch}
        BY <1>0, <4>1, <4>2 DEF Incarnations
      <4> QED BY <1>6, <4>3 DEF Alive
    <3> QED BY <1>6, <3>2, <3>3, <3>4, StepKinds
  <2>2. /\ bell => bell'
        /\ Held => Held'
        /\ RunningTurn' = RunningTurn \/ RunningTurn = {} \/ Held'
    BY <1>6, <2>1, HeldStays, RingingStays
  <2> QED BY <2>1, <2>2
<1>7. ASSUME Lasting, mail' => mail \/ bell',
             Lane'.pc # "off" => Lane.pc # "off" /\ Lane'.epoch = Lane.epoch,
             Lane'.pc = "off" => Lane.pc = "off" \/ Lane.pc \in Emitting,
             Lane'.pc \in {"echo"} \cup Emitting => Lane.pc \in {"echo"} \cup Emitting,
             Lane'.pc \in {"readTurn", "judge"} => Lane' = Lane
      PROVE  Bells'
  <2>1. mail' /\ Lane'.pc = "off" => Held' BY <1>2, <1>4, <1>7
  <2>2. Lane'.pc # "off" /\ Lane'.epoch # session' => bell' BY <1>4, <1>7
  <2>3. mail' /\ Lane'.pc \in {"echo"} \cup Emitting => bell' BY <1>4, <1>7
  <2>4. ASSUME Lane'.pc \in {"readTurn", "judge"}, Lane'.epoch = session'
        PROVE  /\ Lane'.saw.pending => Held'
               /\ Lane'.saw.fact # NoEntry =>
                    /\ Lane'.saw.fact.lastEndFailed => Held'
                    /\ Lane'.saw.fact.inTurn =>
                         Held' \/ RunningTurn' = {<<session', Lane'.saw.fact.lastSeq>>}
    <3>1. Lane' = Lane /\ Lane.pc \in {"readTurn", "judge"} /\ Lane.epoch = session
      BY <1>7, <2>4
    <3>2. RunningTurn = {<<session, Lane.saw.fact.lastSeq>>} => RunningTurn # {} OBVIOUS
    <3> QED BY <1>4, <1>7, <3>1, <3>2
  <2> QED BY <1>5, <2>1, <2>2, <2>3, <2>4
<1>8. ASSUME NEW t \in Threads, Lasting, mail' = mail,
             \A s \in Threads : s # t => thread'[s] = thread[s],
             thread[t].pc \in Emitting,
             \/ thread'[t].pc \in Emitting /\ thread'[t].epoch = thread[t].epoch
             \/ thread'[t].pc = thread[t].next
      PROVE  Bells'
  <2> HIDE DEF Lasting
  <2>1. CASE t # "lane"
    <3>1. Lane' = Lane BY <1>1, <1>8, <2>1
    <3> QED BY <1>7, <1>8, <3>1
  <2>2. CASE t = "lane"
    <3>1. Lane.pc \in Emitting /\ Lane.pc # "off"
          /\ (Lane'.pc = "off" \/ (Lane'.pc \in Emitting /\ Lane'.epoch = Lane.epoch))
      BY <1>1, <1>8, <2>2 DEF Emitting
    <3>2. Lane'.pc \notin {"readTurn", "judge"} BY <3>1 DEF Emitting
    <3> QED BY <1>7, <1>8, <3>1, <3>2
  <2> QED BY <2>1, <2>2
<1>9. ASSUME NEW t, NEW kind, NEW i, NEW next, EmitStep(t, kind, i, next), Lasting
      PROVE  Bells'
  <2>1. mail' = mail /\ MayEmit(t, kind, i, next) BY <1>9 DEF EmitStep
  <2>2. t \in Threads /\ next \in Pcs \ Emitting /\ Emitted(t, kind, next)
    BY <1>0, <1>9, EmitFacts
  <2>3. \A s \in Threads : s # t => thread'[s] = thread[s] BY <2>2 DEF Emitted
  <2>4. CASE t # "lane"
    <3>1. Lane' = Lane BY <1>1, <2>3, <2>4
    <3> HIDE DEF Lasting
    <3> QED BY <1>7, <1>9, <2>1, <3>1
  <2>5. CASE t = "lane"
    <3>1. Lane.pc = "echo" /\ kind = "Text"
      BY <1>1, <2>1, <2>5, GateAssumption DEF MayEmit
    <3>2. Classify(kind) = "Progress" BY <3>1 DEF Classify
    <3>3. Lane'.pc = "observe" /\ Lane'.epoch = Lane.epoch
      BY <1>0, <1>1, <2>2, <2>5, <3>2, EmittedThread
    <3> HIDE DEF Lasting
    <3> QED BY <1>7, <1>9, <2>1, <3>1, <3>3 DEF Emitting
  <2> QED BY <2>4, <2>5
<1>10. ASSUME NEW t \in Threads, Observe(t), Lasting PROVE Bells'
  <2> HIDE DEF Lasting
  <2> QED BY <1>0, <1>8, <1>10, ObserveFacts DEF Emitting
<1>11. ASSUME NEW t \in Threads, Recheck(t), Lasting PROVE Bells'
  <2>1. mail' = mail BY <1>11 DEF Recheck
  <2> HIDE DEF Lasting
  <2> QED BY <1>0, <1>8, <1>11, <2>1, RecheckFacts DEF Emitting
<1>12. ASSUME NEW t \in Threads, WriteDrained(t), Lasting PROVE Bells'
  <2> HIDE DEF Lasting
  <2> QED BY <1>0, <1>8, <1>12, WriteDrainedFacts DEF Emitting
<1>13. ASSUME NEW t \in Threads, InputsDrained(t) PROVE Bells'
  BY <1>2, <1>13 DEF InputsDrained
<1>14. ASSUME Lane' = Lane, mail' => mail \/ bell', Lasting PROVE Bells'
  <2> HIDE DEF Lasting
  <2> QED BY <1>7, <1>14
<1>15. ASSUME NEW i \in Inputs, InputMove(i), Lasting PROVE Bells'
  <2>1. Lane' = Lane /\ mail' = mail
    BY <1>0, <1>1, <1>15, InputMoveFacts DEF InputMoved, Moved
  <2> HIDE DEF Lasting
  <2> QED BY <1>14, <1>15, <2>1
<1>16. ASSUME NEW pc, PumpAt(pc), mail' = mail, Lasting PROVE Bells'
  <2>1. Lane' = Lane BY <1>1, <1>16 DEF PumpAt
  <2> HIDE DEF Lasting
  <2> QED BY <1>14, <1>16, <2>1
<1>17. CASE Lasting /\ (MailArrives \/ PumpAckAvailable \/ PumpJudges \/ SweepStep)
  <2> HIDE DEF Lasting
  <2>1. CASE MailArrives BY <1>2, <2>1 DEF MailArrives
  <2>2. CASE PumpAckAvailable BY <1>1, <1>14, <1>17, <2>2 DEF PumpAckAvailable
  <2>3. CASE PumpJudges
    <3>1. PumpAt("judge") BY <1>0, <2>3, PumpGoto DEF PumpJudges, Pcs
    <3> QED BY <1>16, <1>17, <2>3, <3>1 DEF PumpJudges
  <2>4. CASE SweepStep BY <1>1, <1>14, <1>17, <2>4, QuietFacts
  <2> QED BY <1>17, <2>1, <2>2, <2>3, <2>4
<1>18. CASE Lasting /\ (Finalize \/ Seal \/ ReapTurns \/ ReapPending \/ Reap)
  <2>1. \E pc : PumpAt(pc) BY <1>18, QuietFacts
  <2>2. mail' = mail BY <1>18 DEF Finalize, Seal, ReapTurns, ReapPending, Reap
  <2> HIDE DEF Lasting
  <2> QED BY <1>16, <1>18, <2>1, <2>2
<1>19. CASE Spawn BY <1>2, <1>19 DEF Spawn
<1>20. CASE LaneLook
  <2>1. session # 0 => Lane'.pc = "readPending" /\ Lane'.epoch = session
    <3>1. LaneLook => LaneMove BY DEF LaneMove
    <3>2. LaneMoved BY <1>0, <1>20, <3>1, LaneMoveFacts
    <3>3. Lane.pc = "off" BY <1>20 DEF LaneLook
    <3> QED BY <1>1, <3>2, <3>3 DEF LaneMoved
  <2>2. session' = session BY <1>20 DEF LaneLook
  <2>3. CASE session # 0 BY <1>5, <2>1, <2>2, <2>3 DEF Emitting
  <2>4. CASE session = 0 BY <1>3, <2>2, <2>4 DEF Alive
  <2> QED BY <2>3, <2>4
<1>21. CASE Lasting /\ LaneMove /\ ~LaneLook /\ Alive'
  <2>1. LaneMoved BY <1>0, <1>21, LaneMoveFacts
  <2>2. LET new == Lane' IN
        \/ /\ Lane.pc = "readPending" /\ new.pc = "readTurn" /\ new.epoch = Lane.epoch
           /\ new.saw.fact = Lane.saw.fact /\ new.saw.pending = PendingRead(Lane.epoch)
        \/ /\ Lane.pc = "readTurn" /\ new.pc = "judge" /\ new.epoch = Lane.epoch
           /\ new.saw.pending = Lane.saw.pending /\ new.saw.fact = Lookup(turns, Lane.epoch)
        \/ /\ Lane.pc = "judge" /\ new.pc = "inject" /\ new.epoch = Lane.epoch
        \/ /\ Lane.pc = "judge" /\ new.pc = "off"
           /\ BusyReason(Lane.epoch, Lane.saw.fact, Lane.saw.pending) # "none"
        \/ /\ Lane.pc = "inject" /\ new.pc = "echo" /\ new.epoch = Lane.epoch /\ mail' = FALSE
        \/ /\ Lane.pc = "inject" /\ new.pc = "off" /\ core[Lane.epoch].finalized
    <3>1. Lane.pc # "off" BY <1>21 DEF LaneMove, LaneReadPending, LaneReadTurn, LaneJudge, LaneInject
    <3> QED BY <1>1, <2>1, <3>1 DEF LaneMoved
  <2>3. UNCHANGED <<turns, pend, stale, core, session>> BY <2>1 DEF LaneMoved, Moved
  <2>4. Alive /\ session' = session /\ (bell => bell') /\ (Held => Held') /\ RunningTurn' = RunningTurn
    BY <1>21, <2>3 DEF RunningTurn
  <2>5. /\ session \in Epochs /\ turns # NoEntry /\ turns.epoch = session
        /\ pend # NoEntry /\ pend.epoch = session
        /\ BusyNow(session) <=> TurnHolds \/ pend.pending
        /\ RunningTurn = IF turns.inTurn THEN {<<session, turns.lastSeq>>} ELSE {}
    BY <2>4, AliveFacts
  <2> HIDE DEF Lasting
  <2>6. CASE /\ Lane.pc = "readPending" /\ Lane'.pc = "readTurn" /\ Lane'.epoch = Lane.epoch
             /\ Lane'.saw.fact = Lane.saw.fact /\ Lane'.saw.pending = PendingRead(Lane.epoch)
    <3>1. Lane'.saw.fact = NoEntry BY <1>1, <2>6
    <3>2. Lane.epoch = session /\ Lane'.saw.pending => Held'
      BY <2>4, <2>5, <2>6 DEF PendingRead, Lookup, Held
    <3> QED BY <1>4, <1>5, <2>4, <2>6, <3>1, <3>2 DEF Emitting
  <2>7. CASE /\ Lane.pc = "readTurn" /\ Lane'.pc = "judge" /\ Lane'.epoch = Lane.epoch
             /\ Lane'.saw.pending = Lane.saw.pending /\ Lane'.saw.fact = Lookup(turns, Lane.epoch)
    <3>1. Lane.epoch = session => Lane'.saw.fact = turns BY <2>5, <2>7 DEF Lookup
    <3>2. turns.lastEndFailed => Held' BY <2>4, <2>5 DEF TurnHolds, Held
    <3>3. turns.inTurn => RunningTurn' = {<<session, turns.lastSeq>>} BY <2>4, <2>5
    <3> QED BY <1>4, <1>5, <2>4, <2>7, <3>1, <3>2, <3>3 DEF Emitting
  <2>8. CASE Lane.pc = "judge" /\ Lane'.pc = "inject" /\ Lane'.epoch = Lane.epoch
    BY <1>4, <1>5, <2>4, <2>8 DEF Emitting
  <2>9. CASE /\ Lane.pc = "judge" /\ Lane'.pc = "off"
             /\ BusyReason(Lane.epoch, Lane.saw.fact, Lane.saw.pending) # "none"
    <3>1. Held'
      <4>1. CASE Lane.epoch # session BY <1>2, <1>4, <2>4, <2>9, <4>1
      <4>2. CASE Lane.epoch = session
        <5> DEFINE f == Lane.saw.fact
        <5>1. \/ Lane.saw.pending
              \/ f # NoEntry /\ f.lastEndFailed
              \/ f # NoEntry /\ f.inTurn /\ <<session, f.lastSeq>> \notin stale
          BY <2>9, <4>2 DEF BusyReason
        <5>2. CASE Lane.saw.pending BY <1>4, <2>4, <2>9, <4>2, <5>2
        <5>3. CASE f # NoEntry /\ f.lastEndFailed BY <1>4, <2>4, <2>9, <4>2, <5>3
        <5>4. CASE f # NoEntry /\ f.inTurn /\ <<session, f.lastSeq>> \notin stale
          <6>1. Held \/ RunningTurn = {<<session, f.lastSeq>>} BY <1>4, <2>4, <2>9, <4>2, <5>4
          <6>2. CASE RunningTurn = {<<session, f.lastSeq>>}
            <7>1. turns.inTurn /\ turns.lastSeq = f.lastSeq
              <8> HIDE DEF f
              <8>1. <<session, f.lastSeq>> \in RunningTurn BY <6>2
              <8>2. turns.inTurn /\ <<session, f.lastSeq>> = <<session, turns.lastSeq>>
                BY <2>5, <8>1
              <8> QED BY <8>2
            <7>2. TurnHolds BY <5>4, <7>1 DEF TurnHolds
            <7> QED BY <2>4, <2>5, <7>2 DEF Held
          <6> QED BY <2>4, <6>1, <6>2
        <5> QED BY <5>1, <5>2, <5>3, <5>4
      <4> QED BY <4>1, <4>2
    <3> QED BY <1>5, <2>9, <3>1 DEF Emitting
  <2>10. CASE /\ Lane.pc = "inject" /\ Lane'.pc = "echo" /\ Lane'.epoch = Lane.epoch
              /\ mail' = FALSE
    BY <1>4, <1>5, <2>4, <2>10
  <2>11. CASE Lane.pc = "inject" /\ Lane'.pc = "off" /\ core[Lane.epoch].finalized
    <3>1. bell' BY <1>4, <2>4, <2>11 DEF Alive
    <3> QED BY <1>2, <3>1
  <2> QED BY <2>2, <2>6, <2>7, <2>8, <2>9, <2>10, <2>11
<1> HIDE DEF Lasting
<1> QED
  BY <1>3, <1>6, <1>9, <1>10, <1>11, <1>12, <1>13, <1>15, <1>17, <1>18, <1>19, <1>20, <1>21,
     StepKinds DEF PlainMove

-----------------------------------------------------------------------------
(* The results.                                                            *)

(* Every part holds before the first incarnation.                          *)
LEMMA GateInit ==
  ASSUME Init
  PROVE  GateInv
<1> USE GateAssumption
<1>1. /\ turns = NoEntry /\ pend = NoEntry /\ session = 0 /\ stale = {}
      /\ sweeper = [pc |-> "off", seen |-> {}] /\ bell = FALSE /\ mail = FALSE
      /\ core = [e \in Epochs |-> NewCore] /\ thread = [t \in Threads |-> At("off", 0)]
  BY DEF Init
<1>2. /\ NewCore \in Cores /\ NewCore.rows = {} /\ NewCore.closed = {} /\ NewCore.seq = 0
      /\ NewCore.started = 0 /\ NewCore.finalized = FALSE /\ NewCore.sealed = FALSE
  BY DEF NewCore, Cores, Acks
<1> DEFINE a == At("off", 0)
<1>3. /\ a \in Calls /\ a.pc = "off" /\ a.epoch = 0 /\ a.signal = "none" /\ a.drain = 0
      /\ a.saw.pending = FALSE /\ a.saw.seq = 0 /\ a.saw.fact = NoEntry
  BY DEF At, Calls, Blind, Pcs, Signals, Acks
<1> HIDE DEF a
<1>4. \A t \in Threads : thread[t] = a BY <1>1 DEF a
<1>5. \A e \in Epochs : core[e] = NewCore /\ e \in Nat /\ e > 0 BY <1>1 DEF Epochs
<1>6. "pump" \in Threads /\ "lane" \in Threads /\ Pump = a /\ Lane = a /\ \A i \in Inputs : i \in Threads
  BY <1>4 DEF Threads, Pump, Lane
<1>7. TypeOK
  <2>1. thread \in [Threads -> Calls] BY <1>1, <1>3 DEF a
  <2>2. core \in [Epochs -> Cores] BY <1>1, <1>2
  <2>3. \A e \in Epochs : core[e].rows \cap core[e].closed = {} BY <1>2, <1>5
  <2>4. session \in 0..MaxEpoch /\ stale \subseteq Epochs \X Nat BY <1>1
  <2>5. sweeper \in [pc : {"off", "swap", "wake"}, seen : SUBSET (Epochs \X Nat)] BY <1>1
  <2> QED BY <1>1, <2>1, <2>2, <2>3, <2>4, <2>5 DEF TypeOK
<1>8. Places BY <1>3, <1>4, <1>6 DEF Places, Finished, Emitting, IsEnd
<1>9. Incarnations BY <1>1, <1>2, <1>3, <1>5, <1>6 DEF Incarnations, Finished, Closed
<1>10. TurnOwner /\ PendOwner /\ PendFollows
  BY <1>1, <1>3, <1>6 DEF TurnOwner, PendOwner, PendFollows, Finished
<1>11. InputOrder BY <1>3, <1>4, <1>6 DEF InputOrder
<1>12. Numbers BY <1>1, <1>3, <1>4 DEF Numbers
<1>13. TurnFollows BY <1>3, <1>6 DEF TurnFollows, Finished
<1>14. Handover
  <2>1. \A t \in Threads : thread[t].epoch = 0 BY <1>3, <1>4
  <2>2. \A e \in Epochs : core[e].started <= core[e].seq BY <1>2, <1>5
  <2> QED BY <1>1, <1>5, <2>1, <2>2 DEF Handover
<1>15. Bells BY <1>1 DEF Bells
<1> QED
  BY <1>7, <1>8, <1>9, <1>10, <1>11, <1>12, <1>13, <1>14, <1>15 DEF GateInv

(* Nothing changes in a step that changes no variable.                     *)
LEMMA GateStutter ==
  ASSUME GateInv, UNCHANGED vars
  PROVE  GateInv'
<1>1. UNCHANGED <<turns, pend, core, thread, session, stale, sweeper, bell, mail>> BY DEF vars
<1>2. /\ Pump' = Pump /\ Lane' = Lane BY <1>1 DEF Pump, Lane
<1>3. TypeOK' /\ Places' /\ Incarnations'
  BY <1>1, <1>2 DEF GateInv, TypeOK, Places, Incarnations
<1>4. TurnOwner' /\ PendOwner' /\ PendFollows' /\ InputOrder' /\ Numbers'
  BY <1>1, <1>2 DEF GateInv, TurnOwner, PendOwner, PendFollows, Draining, InputOrder, Numbers
<1>5. TurnFollows'
  BY <1>1, <1>2
  DEF GateInv, TurnFollows, MidResult, Rising, LastEnd, EndPending, Observing
<1>6. Handover'
  BY <1>1, <1>2 DEF GateInv, Handover, KnowsStart, SeesStart, Lookup
<1>7. Bells'
  <2>1. Held' <=> Held
    BY <1>1, <1>2 DEF Held, BusyNow, BusyReason, Lookup, PendingRead, Ringing
  <2>2. RunningTurn' = RunningTurn BY <1>1 DEF RunningTurn
  <2> QED BY <1>1, <1>2, <2>1, <2>2 DEF GateInv, Bells
<1> QED BY <1>3, <1>4, <1>5, <1>6, <1>7 DEF GateInv

(* The inductive invariant holds of every behaviour: what the tables, the  *)
(* threads and the cores of turn.rs, inputs_pending.rs, output_core.rs and *)
(* session.rs say of each other, whatever the interleaving.                *)
THEOREM GateIsInvariant == Spec => []GateInv
<1>1. Init => GateInv BY GateInit
<1>2. GateInv /\ [Next]_vars => GateInv'
  <2>1. ASSUME GateInv, Next PROVE GateInv'
    BY <2>1, TypeStep, PlacesStep, IncarnationsStep, TurnOwnerStep, PendOwnerStep,
       PendFollowsStep, InputOrderStep, NumbersStep, TurnFollowsStep, HandoverStep, BellsStep
    DEF GateInv
  <2>2. ASSUME GateInv, UNCHANGED vars PROVE GateInv' BY <2>2, GateStutter
  <2> QED BY <2>1, <2>2
<1> QED BY <1>1, <1>2, PTL DEF Spec

(* Once no signal of an incarnation is on its way, its entry says what its *)
(* output says.                                                            *)
LEMMA RingFollows ==
  ASSUME GateInv
  PROVE  TableFollowsRing
<1>0. TypeOK /\ Places /\ Incarnations /\ TurnOwner /\ TurnFollows BY DEF GateInv
<1> SUFFICES ASSUME NEW e \in Epochs, Lookup(turns, e) # NoEntry, ~core[e].finalized,
                    Unrecorded(e) = {}
             PROVE  /\ ~MidResult(e) => Lookup(turns, e).inTurn = core[e].truth.inTurn
                    /\ Lookup(turns, e).lastEndFailed = core[e].truth.halted
  BY DEF TableFollowsRing
<1>1. turns # NoEntry /\ turns.epoch = e /\ Lookup(turns, e) = turns BY DEF Lookup
<1>2. /\ "pump" \in Threads /\ Pump = thread["pump"] /\ Pump.epoch \in Nat /\ e \in Nat
      /\ \A t \in Threads : thread[t].epoch \in Nat /\ thread[t].epoch <= Pump.epoch
  BY <1>0, Cast
<1>3. e = Pump.epoch /\ Pump.pc \notin Finished
  <2>1. e <= Pump.epoch BY <1>0, <1>1, <1>2 DEF TurnOwner
  <2> QED BY <1>0, <1>2, <2>1 DEF Incarnations
<1>4. \A t \in Threads : ~(thread[t].pc = "observe" /\ thread[t].epoch = e)
  BY DEF Unrecorded
<1>5. ~Observing /\ ~EndPending BY <1>2, <1>3, <1>4 DEF Observing, EndPending
<1>6. \A t \in Threads : ~Rising(t) BY <1>3, <1>4 DEF Rising
<1>7. /\ turns.inTurn \in BOOLEAN /\ turns.lastEndFailed \in BOOLEAN
      /\ core[e].truth.inTurn \in BOOLEAN /\ core[e].truth.halted \in BOOLEAN
  BY <1>0, <1>1 DEF TypeOK, TurnEntries, Cores
<1>8. core[e].truth.halted <=> turns.lastEndFailed BY <1>0, <1>3, <1>5 DEF TurnFollows
<1>9. ~MidResult(e) => (turns.inTurn <=> core[e].truth.inTurn)
  BY <1>0, <1>3, <1>5, <1>6 DEF TurnFollows
<1> QED BY <1>1, <1>7, <1>8, <1>9

(* The entries belong to the incarnation that is up, and none stays behind *)
(* unless a late echo is about to take it back.                            *)
LEMMA EntriesFollow ==
  ASSUME GateInv
  PROVE  EntriesFollowIncarnation
<1>0. TypeOK /\ Places /\ Incarnations /\ TurnOwner /\ PendOwner BY DEF GateInv
<1>1. session # 0 /\ ~core[session].finalized =>
        Lookup(turns, session) # NoEntry /\ Lookup(pend, session) # NoEntry
  BY AliveFacts DEF Alive, Lookup
<1>2. ASSUME NEW e \in Epochs, Pump.epoch # e \/ Pump.pc \in {"reapPending", "dead", "off"},
             Lookup(turns, e) # NoEntry
      PROVE  \E t \in Threads : thread[t].pc = "recheck" /\ thread[t].epoch = e
  BY <1>0, <1>2 DEF Lookup, TurnOwner, Reaped
<1> QED BY <1>1, <1>2 DEF EntriesFollowIncarnation

(* The pending entry follows the list.                                     *)
LEMMA PendingFollows ==
  ASSUME GateInv
  PROVE  PendingFollowsList
<1>0. PendFollows BY DEF GateInv
<1> SUFFICES ASSUME NEW e \in Epochs, Lookup(pend, e) # NoEntry, ~core[e].finalized
             PROVE  /\ core[e].rows # {} => Lookup(pend, e).pending
                    /\ Lookup(pend, e).pending /\ core[e].rows = {} =>
                         \E t \in Threads :
                           /\ thread[t].epoch = e /\ thread[t].drain >= Lookup(pend, e).lastSeq
                           /\ thread[t].pc \in {"observe", "recheck", "drain"}
  BY DEF PendingFollowsList
<1>1. pend # NoEntry /\ pend.epoch = e /\ Lookup(pend, e) = pend BY DEF Lookup
<1> QED BY <1>0, <1>1 DEF PendFollows, Draining

(* turn.rs and inputs_pending.rs, for any number of inputs, incarnations   *)
(* and events: both tables follow the output of the incarnation that is    *)
(* up, whatever order the threads write them in.                           *)
THEOREM TablesFollow == Spec => []TablesFollowOutput
<1>1. GateInv => TablesFollowOutput
  BY RingFollows, EntriesFollow, PendingFollows DEF GateInv, TablesFollowOutput
<1> QED BY <1>1, GateIsInvariant, PTL

(* messaging_host.rs ManagerTurnFacts, output_core.rs pending_then_in_turn: *)
(* a reader that saw the list emptied by an input the vendor started sees  *)
(* that turn, in every interleaving of writers and readers.                *)
THEOREM HandoversAreSeen == Spec => []HandoverIsSeen
<1>1. GateInv => HandoverIsSeen
  <2> SUFFICES ASSUME GateInv, NEW t \in Threads, thread[t].saw.fact # NoEntry,
                      thread[t].saw.seq = core[thread[t].epoch].started
               PROVE  \/ thread[t].saw.fact.lastSeq >= thread[t].saw.seq
                      \/ core[thread[t].epoch].finalized /\ thread[t].saw.fact.inTurn
    BY DEF HandoverIsSeen
  <2>1. thread[t].epoch \in Epochs BY Cast DEF GateInv, Places
  <2>2. KnowsStart(t, thread[t].epoch) BY <2>1 DEF GateInv, Handover
  <2> QED BY <2>2 DEF KnowsStart, SeesStart
<1> QED BY <1>1, GateIsInvariant, PTL

(* session.rs input_order: no input classified as idle is written while an *)
(* earlier one is listed, for any number of inputs.                        *)
THEOREM InputsKeepOrder == Spec => []NoInputOvertakes
<1>1. GateInv => NoInputOvertakes BY DEF GateInv, InputOrder, NoInputOvertakes
<1> QED BY <1>1, GateIsInvariant, PTL

(* busy.rs and output_core.rs: mail parked for a busy agent is never left  *)
(* behind without a bell when the verdict turns idle, in every             *)
(* interleaving of pump, inputs, lane and sweep.                           *)
THEOREM BellsAreKept == Spec => []NoLostBell
<1>1. GateInv => NoLostBell BY DEF GateInv, Bells, Held, NoLostBell
<1> QED BY <1>1, GateIsInvariant, PTL
=============================================================================
