------------------------------ MODULE TurnGate ------------------------------
(* What tells mail that an agent is busy: the turn table (turn.rs), the    *)
(* table of pending user inputs (inputs_pending.rs), the output core that  *)
(* writes both while it numbers the output (output_core.rs), the user      *)
(* inputs that read them before they write (session.rs), and the mail      *)
(* policy that reads them before it injects (busy.rs, messaging_host.rs).  *)
(*                                                                         *)
(* One agent with a claude session, incarnations 1..MaxEpoch.  Threads:    *)
(* the output pump of the incarnation, one thread per user input, and the  *)
(* mail lane; plus the sweep of busy.rs, the reaper and the manager.       *)
(* Output numbers start at 1 here (0 in the code), so 0 is "none yet".     *)
EXTENDS Naturals, FiniteSets

CONSTANTS
  Inputs,    \* user inputs, each written once by its own thread
  MaxEpoch,  \* incarnations
  MaxSeq,    \* output events an incarnation emits before it is sealed
  NoEntry    \* absence of a table entry

ASSUME GateAssumption ==
  /\ IsFiniteSet(Inputs)
  /\ MaxEpoch \in Nat \ {0} /\ MaxSeq \in Nat \ {0}
  /\ {"pump", "lane"} \cap Inputs = {}

Epochs == 1..MaxEpoch

Threads == Inputs \cup {"pump", "lane"}

(* The entries of the two tables. *)
TurnEntries == [epoch : Epochs, inTurn : BOOLEAN, lastSeq : Nat, lastEnd : Nat,
                errorSeq : Nat, lastEndFailed : BOOLEAN]

PendEntries == [epoch : Epochs, pending : BOOLEAN, lastSeq : Nat]

ASSUME NoEntryAssumption == NoEntry \notin TurnEntries /\ NoEntry \notin PendEntries

VARIABLES
  turns,     \* TurnObservations: the entry of the agent, or NoEntry
  pend,      \* InputsPendingTable: likewise
  core,      \* OutputCore and session state of each incarnation
  thread,    \* where each thread stands
  session,   \* the incarnation in the sessions map, 0 if none
  stale,     \* BusyPolicy.stale: <<epoch, signal>> judged wreckage
  sweeper,   \* the sweep: what its snapshot held, and whether it must ring
  bell,      \* the agent's doorbell is pressed
  mail       \* a letter for the agent is parked

vars == <<turns, pend, core, thread, session, stale, sweeper, bell, mail>>

Blind == [pending |-> FALSE, seq |-> 0, fact |-> NoEntry]

At(pc, e) == [pc |-> pc, epoch |-> e, next |-> pc, seq |-> 0, signal |-> "none",
              drain |-> 0, ack |-> "Unknown", saw |-> Blind]

(* seq counts the events numbered so far; truth is what they say of the    *)
(* turn when read in that order; started is the last one that emptied the  *)
(* list because the vendor started an input.                               *)
NewCore == [seq |-> 0, rows |-> {}, closed |-> {}, judged |-> FALSE,
            ack |-> "Unknown", sent |-> {}, finalized |-> FALSE,
            sealed |-> FALSE, started |-> 0,
            truth |-> [inTurn |-> FALSE, blamed |-> FALSE, halted |-> FALSE]]

Init ==
  /\ turns = NoEntry /\ pend = NoEntry
  /\ core = [e \in Epochs |-> NewCore]
  /\ thread = [t \in Threads |-> At("off", 0)]
  /\ session = 0 /\ stale = {}
  /\ sweeper = [pc |-> "off", seen |-> {}]
  /\ bell = FALSE /\ mail = FALSE

-----------------------------------------------------------------------------
(* turn.rs.  The instant of the last signal changes together with lastSeq  *)
(* and is only compared for equality, so lastSeq stands for it.            *)

Fresh(e) == [epoch |-> e, inTurn |-> FALSE, lastSeq |-> 0, lastEnd |-> 0,
             errorSeq |-> 0, lastEndFailed |-> FALSE]

(* Mutant of Absorb: the cursor does not hold back an older progress. *)
AbsorbByArrival(entry, n, sig) ==
  IF sig = "Progress" THEN [entry EXCEPT !.inTurn = TRUE, !.lastSeq = n]
  ELSE IF sig = "Failed" THEN [entry EXCEPT !.errorSeq = n, !.lastSeq = n]
  ELSE [entry EXCEPT !.lastEndFailed = sig = "Broken" \/ entry.errorSeq # 0
                                       \/ (sig = "Other" /\ @),
                     !.errorSeq = 0, !.lastEnd = n, !.inTurn = FALSE, !.lastSeq = n]

(* observe_at for an entry of the signal's own incarnation. *)
Absorb(entry, n, sig) ==
  LET newest == n >= entry.lastSeq
      held   == entry.errorSeq # 0 /\ entry.errorSeq < n
      failed == [entry EXCEPT !.errorSeq = IF @ = 0 \/ n < @ THEN n ELSE @]
      ended  == [entry EXCEPT
                   !.lastEndFailed = sig = "Broken" \/ held \/ (sig = "Other" /\ @),
                   !.errorSeq = IF held THEN 0 ELSE @,
                   !.lastEnd = n,
                   !.inTurn = IF newest THEN FALSE ELSE @]
      Seen(x) == IF newest THEN [x EXCEPT !.lastSeq = n] ELSE x
  IN  IF sig = "Progress"
      THEN IF newest THEN Seen([entry EXCEPT !.inTurn = TRUE]) ELSE entry
      ELSE IF n < entry.lastEnd THEN entry
      ELSE Seen(IF sig = "Failed" THEN failed ELSE ended)

(* A signal of another incarnation is dropped, a missing entry is made. *)
Observed(table, e, n, sig) ==
  IF table = NoEntry THEN Absorb(Fresh(e), n, sig)
  ELSE IF table.epoch = e THEN Absorb(table, n, sig) ELSE table

Forgotten(table, e) ==
  IF table # NoEntry /\ table.epoch = e THEN NoEntry ELSE table

(* TurnObservations::get, InputsPendingTable::get. *)
Lookup(table, e) ==
  IF table # NoEntry /\ table.epoch = e THEN table ELSE NoEntry

(* inputs_pending.rs: never makes an entry, drops what is older. *)
PendingSet(table, e, n, value) ==
  IF table # NoEntry /\ table.epoch = e /\ n >= table.lastSeq
  THEN [table EXCEPT !.pending = value, !.lastSeq = n]
  ELSE table

PendingRead(e) == LET p == Lookup(pend, e) IN p # NoEntry /\ p.pending

InTurnRead(e) == LET o == Lookup(turns, e) IN o # NoEntry /\ o.inTurn

-----------------------------------------------------------------------------
(* output_core.rs: the replay lock section.  "Text" is any progress line   *)
(* or input echo, "Failed" the error of a failed result, "Clean", "Other"  *)
(* and "Broken" turn ends, the rest are list events.                       *)

(* classify_turn of the claude backend. *)
Classify(kind) ==
  CASE kind \in {"Text", "Delivered"} -> "Progress"
    [] kind \in {"Failed", "Clean", "Other", "Broken"} -> kind
    [] OTHER -> "none"

IsEnd(sig) == sig \in {"Clean", "Other", "Broken"}

(* The output read in order: progress opens a turn, an end closes it; a    *)
(* Failed blames the end that follows; a blamed end halts the agent, a     *)
(* clean one releases it.                                                  *)
Told(truth, sig) ==
  CASE sig = "Progress" -> [truth EXCEPT !.inTurn = TRUE]
    [] sig = "Failed"   -> [truth EXCEPT !.blamed = TRUE]
    [] IsEnd(sig)       -> [inTurn |-> FALSE, blamed |-> FALSE,
                            halted |-> truth.blamed \/ sig = "Broken"
                                       \/ (sig = "Other" /\ truth.halted)]
    [] OTHER            -> truth

(* Registry::reduce of one list event of input i, as far as rows open and  *)
(* close; the registry's cancel phases are left out.                       *)
Reduced(c, kind, i) ==
  LET d == [c EXCEPT !.seq = @ + 1, !.truth = Told(@, Classify(kind))]
  IN  CASE kind = "Queued" ->
             IF i \in c.closed THEN d ELSE [d EXCEPT !.rows = @ \cup {i}]
        [] kind \in {"Delivered", "Dropped"} ->
             [d EXCEPT !.rows = @ \ {i}, !.closed = @ \cup {i},
                       !.started = IF kind = "Delivered" /\ c.rows = {i}
                                   THEN d.seq ELSE @]
        [] kind = "AckUnavailable" ->
             [d EXCEPT !.rows = {}, !.closed = @ \cup c.rows, !.judged = TRUE]
        [] OTHER -> d

(* record_list_event: after the seal a Queued is written as Dropped and    *)
(* not classified; after the old-CLI verdict it is closed at once.         *)
Recorded(c, kind, i) ==
  CASE kind = "Queued" /\ c.sealed -> Reduced(c, "Dropped", i)
    [] kind = "Queued" /\ ~c.sealed /\ c.judged ->
         Reduced(Reduced(c, "Queued", i), "AckUnavailable", i)
    [] OTHER -> Reduced(c, kind, i)

(* A thread moves on inside its call, or is through with it. *)
Goto(t, pc) == thread' = [thread EXCEPT ![t].pc = pc]

Resume(t, pc) ==
  thread' = [thread EXCEPT ![t] = At(pc, IF pc \in {"off", "done"} THEN 0 ELSE @.epoch)]

(* Mutant of Emit: "became empty" is written inside the lock as well. *)
EmitDrainingInside(t, e, kind, i, next) ==
  LET before == core[e]
      after  == Recorded(before, kind, i)
      n      == after.seq
      sig    == Classify(kind)
  IN  /\ before.seq < MaxSeq
      /\ core' = [core EXCEPT ![e] = after]
      /\ pend' = IF (before.rows = {}) # (after.rows = {})
                 THEN PendingSet(pend, e, n, after.rows # {}) ELSE pend
      /\ IF sig = "none" THEN Resume(t, next)
         ELSE thread' = [thread EXCEPT ![t] =
                [At("observe", e) EXCEPT !.next = next, !.seq = n, !.signal = sig]]

(* Thread t numbers an event of incarnation e and has its signal and, if   *)
(* the list became empty, "became empty" still to write; then it goes on   *)
(* at "next".  "Became full" is written inside the lock.                   *)
Emit(t, e, kind, i, next) ==
  LET before == core[e]
      after  == Recorded(before, kind, i)
      n      == after.seq
      drained == before.rows # {} /\ after.rows = {}
      sig    == Classify(kind)
  IN  /\ before.seq < MaxSeq
      /\ core' = [core EXCEPT ![e] = after]
      /\ pend' = IF before.rows = {} /\ after.rows # {}
                 THEN PendingSet(pend, e, n, TRUE) ELSE pend
      /\ IF sig = "none" /\ ~drained THEN Resume(t, next)
         ELSE thread' = [thread EXCEPT ![t] =
                [At(IF sig = "none" THEN "drain" ELSE "observe", e) EXCEPT
                   !.next = next, !.seq = n, !.signal = sig,
                   !.drain = IF drained THEN n ELSE 0]]

(* record_turn_signal: the table first, *)
Observe(t) ==
  LET me == thread[t] IN
  /\ me.pc = "observe"
  /\ turns' = Observed(turns, me.epoch, me.seq, me.signal)
  /\ Goto(t, "recheck")
  /\ UNCHANGED <<pend, core, session, stale, sweeper, bell, mail>>

(* Mutant of Recheck: only a clean end rings. *)
RecheckRingsClean(t) ==
  LET me == thread[t] IN
  /\ me.pc = "recheck"
  /\ turns' = IF core[me.epoch].finalized THEN Forgotten(turns, me.epoch)
              ELSE turns
  /\ bell' = (bell \/ me.signal = "Clean")
  /\ IF me.drain # 0 THEN Goto(t, "drain") ELSE Resume(t, me.next)
  /\ UNCHANGED <<pend, core, session, stale, sweeper, mail>>

(* then the finalize recheck takes back what must not stay, and an end     *)
(* rings whatever incarnation it belongs to.                               *)
Recheck(t) ==
  LET me == thread[t] IN
  /\ me.pc = "recheck"
  /\ turns' = IF core[me.epoch].finalized THEN Forgotten(turns, me.epoch)
              ELSE turns
  /\ bell' = (bell \/ IsEnd(me.signal))
  /\ IF me.drain # 0 THEN Goto(t, "drain") ELSE Resume(t, me.next)
  /\ UNCHANGED <<pend, core, session, stale, sweeper, mail>>

(* write_drained: the table, then the bell. *)
WriteDrained(t) ==
  LET me == thread[t] IN
  /\ me.pc = "drain"
  /\ pend' = PendingSet(pend, me.epoch, me.drain, FALSE)
  /\ Goto(t, "drained")
  /\ UNCHANGED <<turns, core, session, stale, sweeper, bell, mail>>

InputsDrained(t) ==
  /\ thread[t].pc = "drained"
  /\ bell' = TRUE
  /\ Resume(t, thread[t].next)
  /\ UNCHANGED <<turns, pend, core, session, stale, sweeper, mail>>

EmissionStep(t) == Observe(t) \/ Recheck(t) \/ WriteDrained(t) \/ InputsDrained(t)

-----------------------------------------------------------------------------
(* The pump: lines of the vendor in, events out, and the end of the stream. *)

Pump == thread["pump"]

Live == core[Pump.epoch]

Reading == Pump.pc = "read"

(* A progress line or the result of a turn that did not fail. *)
PumpLine(kind) ==
  /\ Reading
  /\ Emit("pump", Pump.epoch, kind, "", "read")
  /\ UNCHANGED <<turns, session, stale, sweeper, bell, mail>>

(* A failed result is an Error and then a MessageDone, of one line. *)
PumpFailedResult ==
  /\ \/ Reading /\ Emit("pump", Pump.epoch, "Failed", "", "result")
     \/ Pump.pc = "result" /\ Emit("pump", Pump.epoch, "Clean", "", "read")
  /\ UNCHANGED <<turns, session, stale, sweeper, bell, mail>>

(* The capability or the first lifecycle line: Unknown -> Available. *)
PumpAckAvailable ==
  /\ Reading /\ Live.ack = "Unknown"
  /\ core' = [core EXCEPT ![Pump.epoch].ack = "Available"]
  /\ UNCHANGED <<turns, pend, thread, session, stale, sweeper, bell, mail>>

(* An init line without it: the verdict while decoding, the event after. *)
PumpAckUnavailable ==
  \/ /\ Reading /\ Live.ack = "Unknown"
     /\ core' = [core EXCEPT ![Pump.epoch].ack = "Unavailable"]
     /\ Goto("pump", "judge")
     /\ UNCHANGED <<turns, pend, session, stale, sweeper, bell, mail>>
  \/ /\ Pump.pc = "judge"
     /\ Emit("pump", Pump.epoch, "AckUnavailable", "", "read")
     /\ UNCHANGED <<turns, session, stale, sweeper, bell, mail>>

(* command_lifecycle of a written input: started, or given up. *)
PumpLifecycle(i, kind) ==
  /\ Reading /\ Live.ack # "Unknown"
  /\ i \in Live.sent \ Live.closed
  /\ Emit("pump", Pump.epoch, kind, i, "read")
  /\ UNCHANGED <<turns, session, stale, sweeper, bell, mail>>

(* finish: finalized, ... *)
Finalize ==
  /\ Reading
  /\ core' = [core EXCEPT ![Pump.epoch].finalized = TRUE]
  /\ Goto("pump", "seal")
  /\ UNCHANGED <<turns, pend, session, stale, sweeper, bell, mail>>

(* ... the rest of the list is closed and the list sealed, under one lock, *)
(* without a word to the tables, ...                                       *)
Seal ==
  /\ Pump.pc = "seal"
  /\ core' = [core EXCEPT ![Pump.epoch] =
                [Live EXCEPT !.seq = @ + Cardinality(Live.rows),
                             !.rows = {}, !.closed = @ \cup Live.rows,
                             !.sealed = TRUE]]
  /\ Goto("pump", "reapTurns")
  /\ UNCHANGED <<turns, pend, session, stale, sweeper, bell, mail>>

(* ... then each table loses the incarnation, ... *)
ReapTurns ==
  /\ Pump.pc = "reapTurns"
  /\ turns' = Forgotten(turns, Pump.epoch)
  /\ Goto("pump", "reapPending")
  /\ UNCHANGED <<pend, core, session, stale, sweeper, bell, mail>>

ReapPending ==
  /\ Pump.pc = "reapPending"
  /\ pend' = Forgotten(pend, Pump.epoch)
  /\ Goto("pump", "dead")
  /\ UNCHANGED <<turns, core, session, stale, sweeper, bell, mail>>

(* ... and the reaper takes the session out of the map. *)
Reap ==
  /\ Pump.pc = "dead"
  /\ session' = 0
  /\ Goto("pump", "off")
  /\ UNCHANGED <<turns, pend, core, stale, sweeper, bell, mail>>

(* manager.rs spawn_session.  No thread reaches the new core before the    *)
(* session is in the map, so the two registrations, the insert and the     *)
(* start of the pump are one step; the new agent list rings.               *)
Spawn ==
  LET e == Pump.epoch + 1 IN
  /\ Pump.pc = "off" /\ e \in Epochs
  /\ turns' = Fresh(e)
  /\ pend' = [epoch |-> e, pending |-> FALSE, lastSeq |-> 0]
  /\ session' = e
  /\ thread' = [thread EXCEPT !["pump"] = At("read", e)]
  /\ bell' = TRUE
  /\ UNCHANGED <<core, stale, sweeper, mail>>

PumpStep ==
  \/ \E kind \in {"Text", "Clean", "Other"} : PumpLine(kind)
  \/ PumpFailedResult \/ PumpAckAvailable \/ PumpAckUnavailable
  \/ \E i \in Inputs, kind \in {"Delivered", "Dropped"} : PumpLifecycle(i, kind)
  \/ Finalize \/ Seal \/ ReapTurns \/ ReapPending \/ Reap

-----------------------------------------------------------------------------
(* session.rs write_user_classified, one thread per input, under the       *)
(* session's input_order lock.                                             *)

(* Inputs that hold the input_order lock of incarnation e. *)
Writing(e) == {i \in Inputs : thread[i].epoch = e}

Written(i, pc) ==
  /\ core' = [core EXCEPT ![thread[i].epoch].sent = @ \cup {i}]
  /\ Resume(i, pc)

(* Mutant of InputStart: the input_order lock is not taken. *)
InputStartUnordered(i) ==
  /\ thread[i].pc = "off" /\ session # 0
  /\ LET ack == core[session].ack IN
     thread' = [thread EXCEPT ![i] =
                  [At(IF ack = "Unavailable" THEN "write" ELSE "readPending", session)
                     EXCEPT !.ack = ack]]
  /\ UNCHANGED <<turns, pend, core, session, stale, sweeper, bell, mail>>

InputStart(i) ==
  /\ thread[i].pc = "off" /\ session # 0 /\ Writing(session) = {}
  /\ LET ack == core[session].ack IN
     thread' = [thread EXCEPT ![i] =
                  [At(IF ack = "Unavailable" THEN "write" ELSE "readPending", session)
                     EXCEPT !.ack = ack]]
  /\ UNCHANGED <<turns, pend, core, session, stale, sweeper, bell, mail>>

(* classified_input_busy: the pending table first, the turn table after. *)
InputReadPending(i) ==
  LET e == thread[i].epoch
      p == Lookup(pend, e) IN
  /\ thread[i].pc = "readPending"
  /\ thread' = [thread EXCEPT ![i].pc = IF PendingRead(e) THEN "queue" ELSE "readTurn",
                              ![i].saw.seq = IF p = NoEntry THEN 0 ELSE p.lastSeq]
  /\ UNCHANGED <<turns, pend, core, session, stale, sweeper, bell, mail>>

InputReadTurn(i) ==
  LET e == thread[i].epoch IN
  /\ thread[i].pc = "readTurn"
  /\ thread' = [thread EXCEPT ![i].pc = IF InTurnRead(e) THEN "queue" ELSE "writeIdle",
                              ![i].saw.fact = Lookup(turns, e)]
  /\ UNCHANGED <<turns, pend, core, session, stale, sweeper, bell, mail>>

(* write_now: written, then echoed; a refused write ends the call. *)
InputWriteNow(i) ==
  /\ thread[i].pc \in {"write", "writeIdle"}
  /\ Written(i, "echo") \/ (Resume(i, "done") /\ UNCHANGED core)
  /\ UNCHANGED <<turns, pend, session, stale, sweeper, bell, mail>>

InputEcho(i) ==
  /\ thread[i].pc = "echo"
  /\ Emit(i, thread[i].epoch, "Text", "", "done")
  /\ UNCHANGED <<turns, session, stale, sweeper, bell, mail>>

(* Busy, acknowledgements not known to work: write first, then list. *)
InputWriteThenQueue(i) ==
  /\ thread[i].pc = "queue" /\ thread[i].ack = "Unknown"
  /\ Written(i, "list") \/ (Resume(i, "done") /\ UNCHANGED core)
  /\ UNCHANGED <<turns, pend, session, stale, sweeper, bell, mail>>

(* List it; with acknowledgements before it is written. *)
InputQueue(i) ==
  /\ \/ thread[i].pc = "list" /\ Emit(i, thread[i].epoch, "Queued", i, "done")
     \/ /\ thread[i].pc = "queue" /\ thread[i].ack = "Available"
        /\ Emit(i, thread[i].epoch, "Queued", i, "writeQueued")
  /\ UNCHANGED <<turns, session, stale, sweeper, bell, mail>>

InputWriteQueued(i) ==
  /\ thread[i].pc = "writeQueued"
  /\ Written(i, "done") \/ (Goto(i, "reject") /\ UNCHANGED core)
  /\ UNCHANGED <<turns, pend, session, stale, sweeper, bell, mail>>

(* A refused write takes the row back. *)
InputReject(i) ==
  /\ thread[i].pc = "reject"
  /\ Emit(i, thread[i].epoch, "Dropped", i, "done")
  /\ UNCHANGED <<turns, session, stale, sweeper, bell, mail>>

InputStep(i) ==
  \/ InputReadPending(i) \/ InputReadTurn(i) \/ InputWriteNow(i) \/ InputEcho(i)
  \/ InputWriteThenQueue(i) \/ InputQueue(i) \/ InputWriteQueued(i) \/ InputReject(i)

-----------------------------------------------------------------------------
(* The mail lane: the doorbell, the verdict of busy.rs, the injection.     *)

Lane == thread["lane"]

MailArrives ==
  /\ ~mail
  /\ mail' = TRUE /\ bell' = TRUE
  /\ UNCHANGED <<turns, pend, core, thread, session, stale, sweeper>>

(* The lane answers the bell.  With nothing parked it finds nothing to do  *)
(* (left out: the arrival of a letter presses the bell); nor with nobody   *)
(* up.                                                                     *)
LaneLook ==
  /\ Lane.pc = "off" /\ bell /\ mail
  /\ bell' = FALSE
  /\ thread' = [thread EXCEPT !["lane"] =
                  IF session # 0 THEN At("readPending", session) ELSE @]
  /\ UNCHANGED <<turns, pend, core, session, stale, sweeper, mail>>

(* ManagerTurnFacts::turn_fact: the pending table first. *)
LaneReadPending ==
  LET p == Lookup(pend, Lane.epoch) IN
  /\ Lane.pc = "readPending"
  /\ thread' = [thread EXCEPT !["lane"].pc = "readTurn",
                              !["lane"].saw.pending = PendingRead(Lane.epoch),
                              !["lane"].saw.seq = IF p = NoEntry THEN 0 ELSE p.lastSeq]
  /\ UNCHANGED <<turns, pend, core, session, stale, sweeper, bell, mail>>

LaneReadTurn ==
  /\ Lane.pc = "readTurn"
  /\ thread' = [thread EXCEPT !["lane"].pc = "judge",
                              !["lane"].saw.fact = Lookup(turns, Lane.epoch)]
  /\ UNCHANGED <<turns, pend, core, session, stale, sweeper, bell, mail>>

(* BusyPolicy::busy_reason. *)
BusyReason(e, fact, pending) ==
  CASE fact # NoEntry /\ fact.lastEndFailed -> "HaltedAfterError"
    [] fact # NoEntry /\ ~fact.lastEndFailed /\ fact.inTurn
         /\ <<e, fact.lastSeq>> \notin stale -> "InTurn"
    [] OTHER -> IF pending THEN "InputsPending" ELSE "none"

LaneJudge ==
  /\ Lane.pc = "judge"
  /\ IF BusyReason(Lane.epoch, Lane.saw.fact, Lane.saw.pending) = "none"
     THEN Goto("lane", "inject") ELSE Resume("lane", "off")
  /\ UNCHANGED <<turns, pend, core, session, stale, sweeper, bell, mail>>

(* write_now of the letter; only a dying session refuses it here. *)
LaneInject ==
  /\ Lane.pc = "inject"
  /\ \/ mail' = FALSE /\ Resume("lane", "echo")
     \/ core[Lane.epoch].finalized /\ Resume("lane", "off") /\ UNCHANGED mail
  /\ UNCHANGED <<turns, pend, core, session, stale, sweeper, bell>>

LaneEcho ==
  /\ Lane.pc = "echo"
  /\ Emit("lane", Lane.epoch, "Text", "", "off")
  /\ UNCHANGED <<turns, session, stale, sweeper, bell, mail>>

LaneStep == LaneLook \/ LaneReadPending \/ LaneReadTurn \/ LaneJudge \/ LaneInject
            \/ LaneEcho

(* The running turn, by the signal it was last seen with. *)
RunningTurn == IF turns # NoEntry /\ turns.inTurn
               THEN {<<turns.epoch, turns.lastSeq>>} ELSE {}

(* sweep_stale_busy: a snapshot of the turns past BUSY_MAX_TURN, the       *)
(* ledger swapped, a bell for new wreckage.  Time is left out: any turn    *)
(* may be that old, and stays so until its next signal.                    *)
SweepRead(aged) ==
  /\ sweeper.pc = "off"
  /\ RunningTurn \cap stale \subseteq aged /\ aged \subseteq RunningTurn
  /\ aged \cup stale # {}
  /\ sweeper' = [pc |-> "swap", seen |-> aged]
  /\ UNCHANGED <<turns, pend, core, thread, session, stale, bell, mail>>

(* Mutant of SweepSwap: the verdict flips without a bell. *)
SweepSwapSilently ==
  /\ sweeper.pc = "swap"
  /\ stale' = sweeper.seen
  /\ sweeper' = [pc |-> "off", seen |-> {}]
  /\ UNCHANGED <<turns, pend, core, thread, session, bell, mail>>

SweepSwap ==
  /\ sweeper.pc = "swap"
  /\ stale' = sweeper.seen
  /\ sweeper' = [pc |-> IF sweeper.seen \subseteq stale THEN "off" ELSE "wake",
                 seen |-> {}]
  /\ UNCHANGED <<turns, pend, core, thread, session, bell, mail>>

SweepWake ==
  /\ sweeper.pc = "wake"
  /\ bell' = TRUE
  /\ sweeper' = [sweeper EXCEPT !.pc = "off"]
  /\ UNCHANGED <<turns, pend, core, thread, session, stale, mail>>

SweepStep ==
  \/ \E aged \in {{}, RunningTurn} : SweepRead(aged)
  \/ SweepSwap \/ SweepWake

-----------------------------------------------------------------------------

Next ==
  \/ Spawn \/ PumpStep
  \/ \E t \in Threads : EmissionStep(t)
  \/ \E i \in Inputs : InputStart(i) \/ InputStep(i)
  \/ MailArrives \/ LaneStep \/ SweepStep

Spec == Init /\ [][Next]_vars

-----------------------------------------------------------------------------

Pcs == {"off", "read", "result", "judge", "seal", "reapTurns", "reapPending", "dead",
        "observe", "recheck", "drain", "drained", "readPending", "readTurn",
        "write", "writeIdle", "echo", "queue", "list", "writeQueued", "reject",
        "inject", "done"}

Acks == {"Unknown", "Available", "Unavailable"}

Signals == {"none", "Progress", "Failed", "Clean", "Other", "Broken"}

Cores == [seq : Nat, rows : SUBSET Inputs, closed : SUBSET Inputs, judged : BOOLEAN,
          ack : Acks, sent : SUBSET Inputs, finalized : BOOLEAN, sealed : BOOLEAN,
          started : Nat,
          truth : [inTurn : BOOLEAN, blamed : BOOLEAN, halted : BOOLEAN]]

Calls == [pc : Pcs, epoch : 0..MaxEpoch, next : Pcs, seq : Nat, signal : Signals,
          drain : Nat, ack : Acks,
          saw : [pending : BOOLEAN, seq : Nat, fact : TurnEntries \cup {NoEntry}]]

(* Every variable has the shape of the state it models; a row of the       *)
(* registry is open or closed, never both.                                 *)
TypeOK ==
  /\ turns \in TurnEntries \cup {NoEntry}
  /\ pend \in PendEntries \cup {NoEntry}
  /\ core \in [Epochs -> Cores]
  /\ \A e \in Epochs : core[e].rows \cap core[e].closed = {}
  /\ thread \in [Threads -> Calls]
  /\ session \in 0..MaxEpoch
  /\ stale \subseteq Epochs \X Nat
  /\ sweeper \in [pc : {"off", "swap", "wake"}, seen : SUBSET (Epochs \X Nat)]
  /\ bell \in BOOLEAN /\ mail \in BOOLEAN

(* Threads with a signal of incarnation e numbered and not yet recorded. *)
Unrecorded(e) == {t \in Threads : thread[t].pc = "observe" /\ thread[t].epoch = e}

(* Inside a failed result: its Failed is out, its end is not. *)
MidResult(e) == Pump.epoch = e /\ (Pump.pc = "result" \/ Pump.signal = "Failed")

(* turn.rs observe_at: whatever order pump, inputs and mail write their    *)
(* signals in, once they are all written the entry of an incarnation says  *)
(* what its output says in order: an ended turn never comes back and an    *)
(* error is never folded as clean.  Inside a failed result the entry may   *)
(* miss the turn: a Failed written first hides an older progress, until    *)
(* the end that the pump emits next.                                       *)
TableFollowsRing ==
  \A e \in Epochs :
    LET entry == Lookup(turns, e) IN
    entry # NoEntry /\ ~core[e].finalized /\ Unrecorded(e) = {} =>
      /\ ~MidResult(e) => entry.inTurn = core[e].truth.inTurn
      /\ entry.lastEndFailed = core[e].truth.halted

(* turn.rs and output_core.rs: an incarnation that is up owns both entries *)
(* whatever late signals of an older one still arrive, and once finish has *)
(* reaped it no entry of it stays, unless a late echo is about to take its *)
(* own back.                                                               *)
EntriesFollowIncarnation ==
  /\ session # 0 /\ ~core[session].finalized =>
       /\ Lookup(turns, session) # NoEntry /\ Lookup(pend, session) # NoEntry
  /\ \A e \in Epochs :
       core[e].finalized /\ (Pump.epoch # e \/ Pump.pc \in {"reapPending", "dead", "off"}) =>
         \/ Lookup(turns, e) = NoEntry
         \/ \E t \in Threads : thread[t].pc = "recheck" /\ thread[t].epoch = e

(* inputs_pending.rs: while a user input is listed the table says so (no   *)
(* limit releases mail), and it never says so of an empty list without a   *)
(* thread on its way to correct it (nothing else would).                   *)
PendingFollowsList ==
  \A e \in Epochs :
    LET entry == Lookup(pend, e) IN
    entry # NoEntry /\ ~core[e].finalized =>
      /\ core[e].rows # {} => entry.pending
      /\ entry.pending /\ core[e].rows = {} =>
           \E t \in Threads : /\ thread[t].epoch = e /\ thread[t].drain >= entry.lastSeq
                              /\ thread[t].pc \in {"observe", "recheck", "drain"}

(* The three together, on states of the right types: both tables follow    *)
(* the output of the incarnation that is up.                               *)
TablesFollowOutput ==
  TypeOK /\ TableFollowsRing /\ EntriesFollowIncarnation /\ PendingFollowsList

(* The order of the two reads (messaging_host.rs ManagerTurnFacts and      *)
(* output_core.rs pending_then_in_turn): who saw the list emptied by an    *)
(* input the vendor started also sees that turn.  Of an incarnation that   *)
(* is over it may see a late echo instead, which says busy as well.        *)
HandoverIsSeen ==
  \A t \in Threads :
    LET saw == thread[t].saw
        e   == thread[t].epoch IN
    saw.fact # NoEntry /\ ~saw.pending /\ saw.seq = core[e].started =>
      saw.fact.lastSeq >= saw.seq \/ (core[e].finalized /\ saw.fact.inTurn)

(* session.rs input_order: an input classified as idle is written at once  *)
(* only when no earlier input is still listed.                             *)
NoInputOvertakes ==
  \A i \in Inputs :
    thread[i].pc = "writeIdle" => core[thread[i].epoch].rows = {}

(* What mail would be told now about incarnation e. *)
BusyNow(e) == BusyReason(e, Lookup(turns, e), PendingRead(e)) # "none"

(* A bell that is on its way. *)
Ringing ==
  \/ bell \/ sweeper.pc = "wake"
  \/ \E t \in Threads : \/ thread[t].pc = "recheck" /\ IsEnd(thread[t].signal)
                        \/ thread[t].pc = "drained"

(* busy.rs and output_core.rs: every way for the verdict to turn idle      *)
(* rings, after the tables are written: mail parked because the agent was  *)
(* busy is never left behind by an agent that no longer is.                *)
NoLostBell ==
  mail /\ session # 0 /\ ~core[session].finalized /\ Lane.pc = "off" =>
    BusyNow(session) \/ Ringing

(* The reasons for which a letter may wait without a limit: nobody is up,  *)
(* a user input is listed, or the agent halted after an error.             *)
MayWait ==
  \/ session = 0 \/ core[session].finalized
  \/ PendingRead(session)
  \/ turns # NoEntry /\ turns.lastEndFailed
=============================================================================
