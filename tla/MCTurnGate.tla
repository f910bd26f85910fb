----------------------------- MODULE MCTurnGate -----------------------------
(* Instances of TurnGate for TLC.  One run covers several small instances: *)
(* the first state picks one, and its bounds hold from then on.            *)
EXTENDS TurnGate

CONSTANTS i1, i2

TwoInputs == {i1, i2}

Instance(inputs, letters, sweeps, epochs, events) ==
  [inputs |-> inputs, letters |-> letters, sweeps |-> sweeps,
   epochs |-> epochs, events |-> events]

(* Two inputs race the pump; an input, the pump and mail; mail and the     *)
(* sweep; late echoes of a dead incarnation, of an input and of mail, and  *)
(* its successor.                                                          *)
Instances == {Instance({i1, i2}, FALSE, FALSE, 1, 4),
              Instance({i1}, TRUE, FALSE, 1, 3),
              Instance({}, TRUE, TRUE, 1, 3),
              Instance({i1}, FALSE, FALSE, 2, 3),
              Instance({}, TRUE, FALSE, 2, 1)}

VARIABLE instance

Within(b) ==
  /\ \A i \in Inputs \ b.inputs : thread[i].pc = "off"
  /\ mail => b.letters
  /\ sweeper.pc # "off" => b.sweeps
  /\ session <= b.epochs
  /\ \A e \in Epochs : core[e].seq <= b.events + (IF core[e].sealed THEN 1 ELSE 0)

MCInit == Init /\ instance \in Instances

Bounded(A) == A /\ UNCHANGED instance /\ Within(instance)'

(* Next, action by action, within the bounds of the instance. *)
MCNext ==
  \/ Bounded(Spawn)
  \/ \E kind \in {"Text", "Clean", "Other"} : Bounded(PumpLine(kind))
  \/ Bounded(PumpFailedResult) \/ Bounded(PumpAckAvailable) \/ Bounded(PumpAckUnavailable)
  \/ \E i \in Inputs, kind \in {"Delivered", "Dropped"} : Bounded(PumpLifecycle(i, kind))
  \/ Bounded(Finalize) \/ Bounded(Seal) \/ Bounded(ReapTurns) \/ Bounded(ReapPending)
  \/ Bounded(Reap)
  \/ \E t \in Threads :
       \/ Bounded(Observe(t)) \/ Bounded(Recheck(t)) \/ Bounded(WriteDrained(t))
       \/ Bounded(InputsDrained(t))
  \/ \E i \in Inputs :
       \/ Bounded(InputStart(i)) \/ Bounded(InputReadPending(i)) \/ Bounded(InputReadTurn(i))
       \/ Bounded(InputWriteNow(i)) \/ Bounded(InputEcho(i)) \/ Bounded(InputWriteThenQueue(i))
       \/ Bounded(InputQueue(i)) \/ Bounded(InputWriteQueued(i)) \/ Bounded(InputReject(i))
  \/ Bounded(MailArrives)
  \/ Bounded(LaneLook) \/ Bounded(LaneReadPending) \/ Bounded(LaneReadTurn)
  \/ Bounded(LaneJudge) \/ Bounded(LaneInject) \/ Bounded(LaneEcho)
  \/ \E aged \in {{}, RunningTurn} : Bounded(SweepRead(aged))
  \/ Bounded(SweepSwap) \/ Bounded(SweepWake)

(* Threads inside a call run on, the lane answers its bell, the sweep task *)
(* comes back and in the end finds a turn without signals old.  Nothing is *)
(* assumed of the vendor, of the end of the process or of new inputs.      *)
MCFairness ==
  /\ \A t \in Threads : WF_<<vars, instance>>(Bounded(EmissionStep(t)))
  /\ WF_<<vars, instance>>(Bounded(LaneStep))
  /\ WF_<<vars, instance>>(Bounded(SweepSwap \/ SweepWake))
  /\ WF_<<vars, instance>>(Bounded(RunningTurn # {} /\ SweepRead(RunningTurn)))

MCSpec == MCInit /\ [][MCNext]_<<vars, instance>> /\ MCFairness

(* busy.rs fail-open: a letter for an agent that stays up gets in even if  *)
(* the end of its turn is lost, unless the agent halted after an error or  *)
(* a user input is listed, the two reasons without a limit.  (Once the     *)
(* events of the instance are used up the lane cannot echo and stops.)     *)
LetterGetsIn ==
  mail /\ instance.sweeps ~> \/ ~mail \/ MayWait
                             \/ core[session].seq >= instance.events
=============================================================================
