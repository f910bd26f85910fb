---------------------------- MODULE OutputReplay ----------------------------
(***************************************************************************)
(* One agent's output on its way to the screen, across the four places that *)
(* keep state for it.                                                      *)
(*                                                                         *)
(*  - The agent's OutputCore (output_core.rs).  An emitter takes a number   *)
(*    and pushes the chunk into the replay ring in one critical section,    *)
(*    then copies the subscriber list, then sends to each copied sink with  *)
(*    no lock held.  Two emitters may therefore reach a sink in the         *)
(*    opposite order of their numbers.                                      *)
(*  - The daemon connection (handle_subscribe).  It registers a new sink,   *)
(*    replays the ring to it under the subscribers lock, then removes the   *)
(*    sink it had before and says ReplayComplete.                           *)
(*  - The shell (replay_flight.rs, replay_events.rs, frame_relay.rs).  One  *)
(*    Subscribe per agent may be on the wire; later requests share the next *)
(*    one.  A generation number stamps the marker that ends a replay.       *)
(*  - The views of the webview (protocolClient.ts).  A view buffers until   *)
(*    the marker of its own generation or a later one, flushes what is      *)
(*    contiguous, and from then on delivers number after number, holding    *)
(*    what overtook a missing one.                                          *)
(*                                                                         *)
(* Three pipes reach the webview and nothing orders them against each       *)
(* other: the output channel (chan), the answers of request_replay (calls,  *)
(* answers) and the events (connection lost, roster).  The wire between     *)
(* daemon and shell is FIFO and the shell handles it at once; a delay there *)
(* is a delay of the daemon's next step.                                    *)
(***************************************************************************)
EXTENDS Integers, Sequences, FiniteSets

CONSTANTS
    Emitters,     \* threads that emit into one core: pump, input writer, reaper
    Views,        \* webview slots that show the agent
    RingCap,      \* REPLAY_MAX_EVENTS
    BufferCap,    \* VIEW_BUFFER_MAX_FRAMES
    HeldCap,      \* HELD_MAX_FRAMES
    MaxAttempts,  \* LADDER_MAX_ATTEMPTS
    MaxSeq,       \* chunks emitted per incarnation
    MaxEpoch,     \* incarnations of the agent
    MaxLosses,    \* connection losses
    MaxGen,       \* replay requests
    PromptAnswers \* whether a view is answered before it has a reason to ask again

ASSUME OutputReplayAssumption ==
    /\ {RingCap, BufferCap, HeldCap} \subseteq Nat \ {0}
    /\ {MaxAttempts, MaxSeq, MaxLosses, MaxGen} \subseteq Nat
    /\ MaxEpoch \in Nat \ {0}
    /\ PromptAnswers \in BOOLEAN

VARIABLES
    core,     \* the current incarnation: epoch, alive, next number, ring's oldest
    emit,     \* what each emitter is doing
    sinks,    \* subscribers of each incarnation's core
    sub,      \* the Subscribe the connection is working on
    flight,   \* the shell's single flight: last generation, slot, merged next
    known,    \* the shell's SubState.epoch, 0 before the first Ack
    link,     \* the connection: up, losses, first generation it may carry
    chan,     \* frames and markers on their way to the webview
    events,   \* "lost" and roster events on their way to the webview
    roster,   \* the webview's roster: -1 unknown, 0 agent absent, else its epoch
    view,     \* SubState of each view
    answers   \* answers of request_replay not yet seen by the view

vars == <<core, emit, sinks, sub, flight, known, link, chan, events, roster, view, answers>>

Epochs == 1 .. MaxEpoch
Gens   == 1 .. MaxGen
Seqs   == 0 .. MaxSeq - 1

Frame(ep, s)              == [kind |-> "out", epoch |-> ep, seq |-> s]
Marker(ep, g, fail, from) == [kind |-> "mark", epoch |-> ep, gen |-> g, failed |-> fail, from |-> from]
NoMarker == [kind |-> "none"]
NoSlot   == [gen |-> 0, acked |-> FALSE, failed |-> FALSE, from |-> 0]
Idle     == [st |-> "idle", epoch |-> 0, seq |-> 0, to |-> {}]
NoSub    == [st |-> "idle", sink |-> 0, epoch |-> 0, todo |-> 0, end |-> 0, old |-> 0]

NewView == [phase |-> "none", buffer |-> {}, size |-> 0, myGen |-> 0, marker |-> NoMarker,
            last |-> -1, held |-> {}, epoch |-> 0, restart |-> FALSE, attempts |-> 0,
            backoff |-> FALSE, watchdog |-> FALSE, calls |-> 0, shown |-> {}]

Init ==
    /\ core    = [epoch |-> 1, alive |-> TRUE, next |-> 0, oldest |-> 0]
    /\ emit    = [e \in Emitters |-> Idle]
    /\ sinks   = [ep \in Epochs |-> {}]
    /\ sub     = NoSub
    /\ flight  = [last |-> 0, slot |-> NoSlot, next |-> 0]
    /\ known   = 0
    /\ link    = [up |-> TRUE, losses |-> 0, base |-> 0, sink |-> 0]
    /\ chan    = <<>>
    /\ events  = <<>>
    /\ roster  = -1
    /\ view    = [v \in Views |-> NewView]
    /\ answers = [v \in Views |-> [g \in Gens |-> 0]]

-----------------------------------------------------------------------------
\* The core.

\* emit_inner, first half: number and ring push under the replay lock.
Emit(e) ==
    /\ core.alive /\ emit[e].st = "idle" /\ core.next < MaxSeq
    /\ emit' = [emit EXCEPT ![e] = [st |-> "numbered", epoch |-> core.epoch,
                                    seq |-> core.next, to |-> {}]]
    /\ core' = [core EXCEPT !.next = @ + 1,
                            !.oldest = IF core.next + 1 - @ > RingCap THEN @ + 1 ELSE @]
    /\ UNCHANGED <<sinks, sub, flight, known, link, chan, events, roster, view, answers>>

\* The subscribers lock of a core is held while a subscribe replays from it.
LockFree(ep) == ~(sub.st = "replaying" /\ sub.epoch = ep)

\* The subscriber list is copied under its lock.
Capture(e) ==
    /\ emit[e].st = "numbered" /\ LockFree(emit[e].epoch)
    /\ LET to == sinks[emit[e].epoch]
       IN  emit' = [emit EXCEPT ![e] = IF to = {} THEN Idle
                                       ELSE [@ EXCEPT !.st = "sending", !.to = to]]
    /\ UNCHANGED <<core, sinks, sub, flight, known, link, chan, events, roster, view, answers>>

\* relay_binary_frame: the shell passes a frame on unless it is of another
\* incarnation than the last Ack named.
Relayed(f) == IF known \in {0, f.epoch} THEN <<f>> ELSE <<>>

\* A sink belongs to one connection; sending to one of a closed connection fails.
Alive(sink) == link.up /\ sink > link.base

\* One send of the copied list, in the order the sinks subscribed.
\* A failed send removes the sink from the core.
Send(e) ==
    /\ emit[e].st = "sending"
    /\ LET sink == CHOOSE g \in emit[e].to : \A h \in emit[e].to : g <= h
           rest == emit[e].to \ {sink}
       IN  /\ emit' = [emit EXCEPT ![e] = IF rest = {} THEN Idle ELSE [@ EXCEPT !.to = rest]]
           /\ IF Alive(sink)
              THEN /\ chan' = chan \o Relayed(Frame(emit[e].epoch, emit[e].seq))
                   /\ UNCHANGED sinks
              ELSE /\ sinks' = [sinks EXCEPT ![emit[e].epoch] = @ \ {sink}]
                   /\ UNCHANGED chan
    /\ UNCHANGED <<core, sub, flight, known, link, events, roster, view, answers>>

-----------------------------------------------------------------------------
\* The daemon connection and the shell's single flight.

\* advance_next: the merged request becomes the slot and its Subscribe goes out.
Advanced(fl) == [fl EXCEPT !.slot = IF fl.next = 0 THEN NoSlot ELSE [NoSlot EXCEPT !.gen = fl.next],
                           !.next = 0]
Asked(gen)   == IF gen = 0 THEN NoSub ELSE [NoSub EXCEPT !.st = "asked", !.sink = gen]

\* request_replay of the shell: an idle agent's request goes on the wire, others
\* share the next generation.
RequestReplay(v) ==
    /\ view[v].calls > 0
    /\ view' = [view EXCEPT ![v].calls = @ - 1]
    /\ IF ~link.up
       THEN UNCHANGED <<flight, sub, answers>>
       ELSE LET fresh == flight.last + 1
                gen   == IF flight.slot # NoSlot /\ flight.next # 0 THEN flight.next ELSE fresh
            IN  /\ gen <= MaxGen
                /\ answers' = [answers EXCEPT ![v][gen] = @ + 1]
                /\ IF flight.slot = NoSlot
                   THEN /\ flight' = [last |-> gen, slot |-> [NoSlot EXCEPT !.gen = gen], next |-> 0]
                        /\ sub' = Asked(gen)
                   ELSE /\ flight' = [flight EXCEPT !.last = IF gen > @ THEN gen ELSE @, !.next = gen]
                        /\ UNCHANGED sub
    /\ UNCHANGED <<core, emit, sinks, known, link, chan, events, roster>>

\* subscribe_from: the sink is registered, the ring snapshot taken and the Ack
\* sent under the subscribers lock.  The shell's on_ack stamps the slot.
Subscribe ==
    /\ sub.st = "asked" /\ core.alive
    /\ sub' = [st |-> "replaying", sink |-> sub.sink, epoch |-> core.epoch,
               todo |-> core.oldest, end |-> core.next, old |-> link.sink]
    /\ sinks' = [sinks EXCEPT ![core.epoch] = @ \cup {sub.sink}]
    /\ known' = core.epoch
    /\ flight' = [flight EXCEPT !.slot.acked = TRUE, !.slot.from = core.oldest]
    /\ UNCHANGED <<core, emit, link, chan, events, roster, view, answers>>

\* The replay loop, one chunk; the lock is released after the last.
ReplaySend ==
    /\ sub.st = "replaying"
    /\ IF sub.todo < sub.end
       THEN /\ chan' = chan \o Relayed(Frame(sub.epoch, sub.todo))
            /\ sub' = [sub EXCEPT !.todo = @ + 1]
       ELSE /\ sub' = [sub EXCEPT !.st = "replayed"]
            /\ UNCHANGED chan
    /\ UNCHANGED <<core, emit, sinks, flight, known, link, events, roster, view, answers>>

\* The connection's earlier sink is unsubscribed, from the core the manager has now.
DropOldSink ==
    /\ sub.st = "replayed"
    /\ sinks' = [sinks EXCEPT ![core.epoch] = @ \ {sub.old}]
    /\ link' = [link EXCEPT !.sink = sub.sink]
    /\ sub' = [sub EXCEPT !.st = "closing"]
    /\ UNCHANGED <<core, emit, flight, known, chan, events, roster, view, answers>>

\* ReplayComplete, the shell's on_complete and the Subscribe of a merged request.
ReplayComplete ==
    /\ sub.st = "closing"
    /\ chan' = Append(chan, Marker(sub.epoch, flight.slot.gen, FALSE, flight.slot.from))
    /\ flight' = Advanced(flight)
    /\ sub' = Asked(flight.next)
    /\ UNCHANGED <<core, emit, sinks, known, link, events, roster, view, answers>>

\* The agent is gone: SubscribeFailed and on_refused.  A slot whose failure marker
\* went out at its deadline sends no second one.
Refuse ==
    /\ sub.st = "asked" /\ ~core.alive
    /\ chan' = IF flight.slot.failed THEN chan
               ELSE Append(chan, Marker(known, flight.slot.gen, TRUE, flight.slot.from))
    /\ flight' = Advanced(flight)
    /\ sub' = Asked(flight.next)
    /\ UNCHANGED <<core, emit, sinks, known, link, events, roster, view, answers>>

\* check_deadlines: one failure marker, the slot stays taken.
Deadline ==
    /\ flight.slot # NoSlot /\ ~flight.slot.failed
    /\ flight' = [flight EXCEPT !.slot.failed = TRUE]
    /\ chan' = Append(chan, Marker(known, flight.slot.gen, TRUE, flight.slot.from))
    /\ UNCHANGED <<core, emit, sinks, sub, known, link, events, roster, view, answers>>

\* The connection ends: its sinks are dead, the flight is emptied without a marker.
Disconnect ==
    /\ link.up /\ link.losses < MaxLosses
    /\ link' = [up |-> FALSE, losses |-> link.losses + 1, base |-> flight.last, sink |-> 0]
    /\ flight' = [flight EXCEPT !.slot = NoSlot, !.next = 0]
    /\ sub' = NoSub
    /\ events' = Append(events, [kind |-> "lost", epoch |-> 0])
    /\ UNCHANGED <<core, emit, sinks, known, chan, roster, view, answers>>

Roster(ep) == [kind |-> "roster", epoch |-> ep]
Present    == IF core.alive THEN core.epoch ELSE 0

\* After a reconnect the webview fetches the roster.
Reconnect ==
    /\ ~link.up
    /\ link' = [link EXCEPT !.up = TRUE]
    /\ events' = Append(events, Roster(Present))
    /\ UNCHANGED <<core, emit, sinks, sub, flight, known, chan, roster, view, answers>>

\* The agent ends, and later comes back as a new incarnation numbering from 0.
\* The roster is broadcast to a connection that is up.
Broadcast(ep) == IF link.up THEN Append(events, Roster(ep)) ELSE events
Exit ==
    /\ core.alive /\ core.epoch < MaxEpoch
    /\ core' = [core EXCEPT !.alive = FALSE]
    /\ events' = Broadcast(0)
    /\ UNCHANGED <<emit, sinks, sub, flight, known, link, chan, roster, view, answers>>
Respawn ==
    /\ ~core.alive
    /\ core' = [epoch |-> core.epoch + 1, alive |-> TRUE, next |-> 0, oldest |-> 0]
    /\ events' = Broadcast(core.epoch + 1)
    /\ UNCHANGED <<emit, sinks, sub, flight, known, link, chan, roster, view, answers>>

-----------------------------------------------------------------------------
\* A view.  Each operator maps the view's state to its next one.

ClearTimers(w) == [w EXCEPT !.backoff = FALSE, !.watchdog = FALSE]

IssueReplay(w) ==
    [w EXCEPT !.myGen = 0, !.marker = NoMarker, !.watchdog = TRUE, !.calls = @ + 1]

StartBuffering(w, ep, resetLadder, newSession) ==
    IssueReplay(ClearTimers(
        [w EXCEPT !.phase = "buffering", !.buffer = {}, !.size = 0, !.held = {},
                  !.restart = @ \/ newSession, !.epoch = ep,
                  !.attempts = IF resetLadder THEN 0 ELSE @]))

\* Mutant of LadderRerequest: the last attempt says nothing.
LadderRerequestSilent(w) ==
    IF w.backoff THEN w
    ELSE IF w.attempts >= MaxAttempts
    THEN ClearTimers([w EXCEPT !.buffer = {}, !.size = 0])
    ELSE [w EXCEPT !.attempts = @ + 1, !.watchdog = FALSE, !.backoff = TRUE]

LadderRerequest(w) ==
    IF w.backoff THEN w
    ELSE IF w.attempts >= MaxAttempts
    THEN ClearTimers([w EXCEPT !.phase = "error", !.buffer = {}, !.size = 0])
    ELSE [w EXCEPT !.attempts = @ + 1, !.watchdog = FALSE, !.backoff = TRUE]

\* The last number of the run that starts at from and stays within seqs.
RunEnd(from, seqs) == CHOOSE n \in (from - 1) .. MaxSeq :
                          /\ from .. n \subseteq seqs
                          /\ n + 1 \notin seqs

\* Deliver from the number from on as far as seqs is contiguous; hold the rest.
Delivered(w, from, seqs) ==
    LET n == RunEnd(from, seqs)
    IN  [w EXCEPT !.last = n, !.held = {s \in seqs : s > n}, !.shown = @ \cup (from .. n)]

FlushToLive(w, m) ==
    LET cleared == IF w.restart THEN [w EXCEPT !.restart = FALSE, !.last = -1, !.shown = {}] ELSE w
        mine    == {f.seq : f \in {b \in w.buffer : b.epoch = m.epoch}}
        start   == IF m.from > cleared.last + 1 THEN m.from ELSE cleared.last + 1
    IN  ClearTimers([Delivered(cleared, start, {s \in mine : s >= start})
                        EXCEPT !.epoch = m.epoch, !.buffer = {}, !.size = 0,
                               !.phase = "live", !.attempts = 0])

PushBuffer(w, f) ==
    IF w.size < BufferCap
    THEN [w EXCEPT !.buffer = @ \cup {f}, !.size = @ + 1]
    ELSE LadderRerequest([w EXCEPT !.buffer = {}, !.size = 0, !.myGen = 0, !.marker = NoMarker])

\* Mutant of HoldLive: a chunk that overtook another is dropped.
HoldLiveDropping(w, s) == w

HoldLive(w, s) ==
    LET more == w.held \cup {s}
    IN  IF Cardinality(more) > HeldCap THEN StartBuffering(w, w.epoch, FALSE, FALSE)
        ELSE [w EXCEPT !.held = more]

\* Mutant of HandleOutput: whatever is newer is shown.
HandleOutputUnordered(w, f) ==
    IF w.phase \notin {"buffering", "live"} \/ (w.epoch # 0 /\ f.epoch # w.epoch) THEN w
    ELSE IF w.phase = "buffering" THEN PushBuffer(w, f)
    ELSE IF f.seq <= w.last THEN w
    ELSE Delivered(w, f.seq, w.held \cup {f.seq})

HandleOutput(w, f) ==
    IF w.phase \notin {"buffering", "live"} \/ (w.epoch # 0 /\ f.epoch # w.epoch) THEN w
    ELSE IF w.phase = "buffering" THEN PushBuffer(w, f)
    ELSE IF f.seq <= w.last THEN w
    ELSE IF f.seq > w.last + 1 THEN HoldLive(w, f.seq)
    ELSE Delivered(w, f.seq, w.held \cup {f.seq})

\* What a settled marker does once the view knows its generation.
JudgeMarker(w, m) ==
    IF m.gen < w.myGen THEN w
    ELSE IF m.failed THEN LadderRerequest(w)
    ELSE IF w.epoch # 0 /\ m.epoch # w.epoch THEN w
    ELSE FlushToLive(w, m)

EvalMarker(w, m) ==
    IF w.phase # "buffering" THEN w
    ELSE IF w.myGen # 0 THEN JudgeMarker(w, m)
    ELSE IF \/ w.marker = NoMarker
            \/ m.gen > w.marker.gen
            \/ m.gen = w.marker.gen /\ w.marker.failed /\ ~m.failed
         THEN [w EXCEPT !.marker = m]
         ELSE w

\* The answer of request_replay arrives; a marker that came before it is judged now.
Settle(w, gen) ==
    IF w.phase # "buffering" THEN w
    ELSE LET set == [w EXCEPT !.myGen = gen, !.marker = NoMarker]
         IN  IF w.marker = NoMarker THEN set ELSE JudgeMarker(set, w.marker)

DetachView(w) ==
    IF w.phase = "detached" THEN w
    ELSE ClearTimers([w EXCEPT !.phase = "detached", !.buffer = {}, !.size = 0, !.held = {},
                               !.myGen = 0, !.marker = NoMarker])

ObserveRoster(w, ep) ==
    LET newSession == w.epoch # 0 /\ ep # w.epoch
    IN  IF ep = 0 THEN DetachView(w)
        ELSE IF w.phase \in {"detached", "error"} \/ newSession
        THEN StartBuffering(w, IF newSession THEN 0 ELSE w.epoch, TRUE, newSession)
        ELSE w

Mounted(w) == w.phase # "none"

\* The environment assumption PromptAnswers names: the answer of request_replay, an
\* in-process call, reaches the view before the step that would make it ask again.
Prompt(v) == PromptAnswers => view[v].calls = 0 /\ \A g \in Gens : answers[v][g] = 0

\* The webview takes the next item of its output channel, for every mounted view.
ChannelItem ==
    /\ chan # <<>> /\ \A v \in Views : view[v].size = BufferCap => Prompt(v)
    /\ chan' = Tail(chan)
    /\ view' = [v \in Views |-> IF Head(chan).kind = "out" THEN HandleOutput(view[v], Head(chan))
                                ELSE EvalMarker(view[v], Head(chan))]
    /\ UNCHANGED <<core, emit, sinks, sub, flight, known, link, events, roster, answers>>

Answer(v, gen) ==
    /\ answers[v][gen] > 0
    /\ answers' = [answers EXCEPT ![v][gen] = @ - 1]
    /\ view' = [view EXCEPT ![v] = Settle(@, gen)]
    /\ UNCHANGED <<core, emit, sinks, sub, flight, known, link, chan, events, roster>>

\* An event reaches the webview: the connection was lost, or a roster.
Event ==
    /\ events # <<>> /\ \A v \in Views : Prompt(v)
    /\ events' = Tail(events)
    /\ LET ev == Head(events)
       IN  /\ roster' = IF ev.kind = "lost" THEN -1 ELSE ev.epoch
           /\ view' = [v \in Views |->
                          IF ~Mounted(view[v]) THEN view[v]
                          ELSE IF ev.kind = "lost" THEN DetachView(view[v])
                          ELSE ObserveRoster(view[v], ev.epoch)]
    /\ UNCHANGED <<core, emit, sinks, sub, flight, known, link, chan, answers>>

Watchdog(v) ==
    /\ view[v].watchdog /\ Prompt(v)
    /\ view' = [view EXCEPT ![v] = LadderRerequest([@ EXCEPT !.watchdog = FALSE])]
    /\ UNCHANGED <<core, emit, sinks, sub, flight, known, link, chan, events, roster, answers>>

Backoff(v) ==
    /\ view[v].backoff /\ Prompt(v)
    /\ view' = [view EXCEPT ![v] = IssueReplay([@ EXCEPT !.backoff = FALSE])]
    /\ UNCHANGED <<core, emit, sinks, sub, flight, known, link, chan, events, roster, answers>>

\* subscribeOutput: a view attaches unless the roster says the agent is absent.
Mount(v) ==
    /\ ~Mounted(view[v])
    /\ view' = [view EXCEPT ![v] = IF roster = 0 THEN [@ EXCEPT !.phase = "detached"]
                                   ELSE IssueReplay([@ EXCEPT !.phase = "buffering"])]
    /\ UNCHANGED <<core, emit, sinks, sub, flight, known, link, chan, events, roster, answers>>

\* What the threads, the shell and the webview do of themselves ...
Progress ==
    \/ \E e \in Emitters : Capture(e) \/ Send(e)
    \/ Subscribe \/ ReplaySend \/ DropOldSink \/ ReplayComplete \/ Refuse
    \/ ChannelItem \/ Event
    \/ \E v \in Views : RequestReplay(v) \/ Watchdog(v) \/ Backoff(v)
    \/ \E v \in Views, g \in Gens : Answer(v, g)

\* ... and what the agent, the network, the clock and the user may do.
Next ==
    \/ Progress
    \/ \E e \in Emitters : Emit(e)
    \/ Deadline \/ Disconnect \/ Reconnect \/ Exit \/ Respawn
    \/ \E v \in Views : Mount(v)

Spec == Init /\ [][Next]_vars

\* A thread that holds a chunk sends it, a pipe delivers, a timer that is set fires.
FairSpec == Spec /\ WF_vars(Progress)

-----------------------------------------------------------------------------
Frames  == {Frame(ep, s) : ep \in Epochs, s \in Seqs}
Markers == [kind : {"mark"}, epoch : 0 .. MaxEpoch, gen : Gens, failed : BOOLEAN, from : 0 .. MaxSeq]

\* The values the variables take.
TypeOK ==
    /\ core \in [epoch : Epochs, alive : BOOLEAN, next : 0 .. MaxSeq, oldest : 0 .. MaxSeq]
    /\ emit \in [Emitters -> [st : {"idle", "numbered", "sending"}, epoch : 0 .. MaxEpoch,
                              seq : 0 .. MaxSeq, to : SUBSET Gens]]
    /\ sinks \in [Epochs -> SUBSET Gens]
    /\ sub.st \in {"idle", "asked", "replaying", "replayed", "closing"}
    /\ flight.last \in 0 .. MaxGen /\ flight.next \in 0 .. MaxGen /\ flight.slot.gen \in 0 .. MaxGen
    /\ known \in 0 .. MaxEpoch
    /\ \A i \in DOMAIN chan : chan[i] \in Frames \cup Markers
    /\ roster \in -1 .. MaxEpoch
    /\ \A v \in Views :
          /\ view[v].phase \in {"none", "buffering", "live", "error", "detached"}
          /\ view[v].buffer \subseteq Frames /\ view[v].size \in 0 .. BufferCap
          /\ view[v].held \subseteq Seqs /\ view[v].last \in -1 .. MaxSeq - 1
          /\ view[v].attempts \in 0 .. MaxAttempts
          /\ view[v].phase # "live" => view[v].held = {}

\* A view that reads the current incarnation over the connection that is up.
Watching(v) ==
    /\ view[v].phase = "live" /\ view[v].epoch = core.epoch
    /\ link.up /\ events = <<>>

\* The chunk s of the current incarnation is on its way to the webview.
OnItsWay(s) ==
    \/ \E i \in DOMAIN chan : chan[i] = Frame(core.epoch, s)
    \/ \E e \in Emitters : /\ emit[e].epoch = core.epoch /\ emit[e].seq = s
                           /\ \/ emit[e].st = "numbered" /\ \E g \in sinks[core.epoch] : Alive(g)
                              \/ emit[e].st = "sending" /\ \E g \in emit[e].to : Alive(g)
    \/ sub.st = "replaying" /\ sub.epoch = core.epoch /\ s \in sub.todo .. (sub.end - 1)

\* No chunk is missed: whatever a live view has not delivered yet it holds, or it
\* is still on its way.  Nobody asks again for a chunk that is not.
NoChunkMissed ==
    \A v \in Views : Watching(v) =>
        \A s \in (view[v].last + 1) .. (core.next - 1) : s \in view[v].held \/ OnItsWay(s)

\* What a view skipped had left the ring: the screen shows every other chunk of
\* its incarnation up to the last one, once and in order.  (On states of the
\* right types.)
ScreenHasNoHole ==
    TypeOK /\ \A v \in Views : view[v].epoch = core.epoch /\ ~view[v].restart =>
        \A s \in 0 .. view[v].last : s \in view[v].shown \/ s < core.oldest

\* The view shows all there is of the incarnation that runs.
CaughtUp(v) ==
    view[v].phase = "live" /\ view[v].epoch = core.epoch /\ view[v].last = core.next - 1

\* Every mounted view ends up showing everything, or says that it does not: the
\* ladder ran out, or agent or connection are gone.  (Or its request
\* stays unhandled because the model's generations ran out.)
ViewsCatchUp ==
    \A v \in Views : <>[](\/ view[v].phase \in {"none", "error", "detached"}
                          \/ CaughtUp(v)
                          \/ view[v].calls > 0)
=============================================================================
