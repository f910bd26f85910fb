--------------------------- MODULE MCOutputReplay ---------------------------
(* Instances of OutputReplay for TLC.  One run covers several: the first    *)
(* state picks one, and its bounds hold from then on.                       *)
EXTENDS OutputReplay

CONSTANTS e1, e2, v1, v2

OneEmitter  == {e1}
TwoEmitters == {e1, e2}
OneView     == {v1}
TwoViews    == {v1, v2}

Instance(emitters, views, chunks, epochs, losses, gens, slow) ==
  [emitters |-> emitters, views |-> views, chunks |-> chunks, epochs |-> epochs,
   losses |-> losses, gens |-> gens, slow |-> slow]

(* Two emitters race each other and the replays; one emitter with deadlines *)
(* and watchdogs; two views that share generations; an agent that respawns; *)
(* a connection that is lost.                                               *)
Instances == {Instance({e1, e2}, {v1}, 3, 1, 0, 2, FALSE),
              Instance({e1}, {v1}, 2, 1, 0, 2, TRUE),
              Instance({e1}, {v1, v2}, 1, 1, 0, 3, FALSE),
              Instance({e1}, {v1}, 1, 2, 0, 2, TRUE),
              Instance({e1}, {v1}, 2, 1, 1, 3, FALSE)}

VARIABLE instance

Within(b) ==
  /\ \A e \in Emitters \ b.emitters : emit[e] = Idle
  /\ \A v \in Views \ b.views : ~Mounted(view[v])
  /\ core.next <= b.chunks /\ core.epoch <= b.epochs
  /\ ~core.alive => core.epoch < b.epochs
  /\ link.losses <= b.losses /\ flight.last <= b.gens
  /\ flight.slot.failed => b.slow

(* Where nothing is slow, a view climbs the ladder because its buffer is    *)
(* full or because no replay is coming.                                     *)
Timely ==
  \/ instance.slow
  \/ flight.slot = NoSlot /\ chan = <<>>
  \/ \A v \in Views : view'[v].attempts > view[v].attempts => view[v].size = BufferCap

MCInit == Init /\ instance \in Instances

Bounded(A) == A /\ UNCHANGED instance /\ Within(instance)' /\ Timely

(* Next, action by action, within the bounds of the instance. *)
MCNext ==
  \/ \E e \in Emitters : Bounded(Emit(e)) \/ Bounded(Capture(e)) \/ Bounded(Send(e))
  \/ Bounded(Subscribe) \/ Bounded(ReplaySend) \/ Bounded(DropOldSink)
  \/ Bounded(ReplayComplete) \/ Bounded(Refuse) \/ Bounded(ChannelItem) \/ Bounded(Event)
  \/ \E v \in Views :
       \/ Bounded(RequestReplay(v)) \/ Bounded(Watchdog(v)) \/ Bounded(Backoff(v))
       \/ Bounded(Mount(v)) \/ \E g \in Gens : Bounded(Answer(v, g))
  \/ Bounded(Deadline) \/ Bounded(Disconnect) \/ Bounded(Reconnect)
  \/ Bounded(Exit) \/ Bounded(Respawn)

MCSpec == MCInit /\ [][MCNext]_<<vars, instance>> /\ WF_<<vars, instance>>(Bounded(Progress))
=============================================================================
