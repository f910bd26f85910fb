# Verification of engram-dashboard

TLA+ models of the parts of engram-dashboard that several threads, tasks,
processes or links have to agree on: messaging between agents, the busy gate,
output on its way to the screen, the peer transport, command delivery and the
shell's saved state. They are checked with TLC on small instances, and the central
results are proved with TLAPS for every size. Paths below are relative to the
repository, with `crates/engram-dashboard-` left off the crates' names.

## 1. The system

Three kinds of process. The *shell* (`src-tauri`, with a webview under `src/`)
shows windows and keeps their layout; it talks over one WebSocket to the *daemon*
(`daemon`), which hosts the *agents*: claude, codex, gemini or plain shells under
a PTY or stdio pipes. Agents write to each other through the daemon's messaging
kernel.

| component | state | operations | hard part |
|---|---|---|---|
| Mailbox `messaging/src/mailbox.rs` | a deque of parked letters per recipient, letters in flight per lane, admission counter | park, drain, take / settle in flight, restore, sweep, purge | letters outside the lock still count; refused batches come back |
| Ledger `messaging/src/ledger.rs` | bounded history of rows, list of reply contracts | record, transition, open / commit / roll back, close, fail, due timeouts | eviction of rows that still matter; slot limit half-way through a fan-out |
| Service `messaging/src/service.rs` | one lock over mailbox, ledger, in-flight targets, two waiter tables | handle_send, drain_queue, flushes, sweep, notices, profile deletion | the lock is released around every injection, snapshot and bell |
| Busy gate `messaging/src/busy.rs`, `agent/src/turn.rs`, `agent/src/inputs_pending.rs` | turn and pending-input entry per agent, stale ledger | observe, register, forget, verdict, sweep | two tables read without a common lock, signals out of order |
| Flush worker `daemon/src/messaging_host.rs` | coalescer claims, channels, per-recipient lanes, last roster | ring, forward, deliver, complete, roster diff | lost wake-ups, overlapping deliveries, lists out of order |
| Output core `agent/src/output_core.rs` | replay ring, numbers, sinks, finalized flag | emit, subscribe_from, finish | replay against live, finish exactly once |
| Replay flights `src-tauri/src/daemon_client`, views `src/api/protocolClient.ts` | one flight per agent, generation fence, buffers, held frames | request, deadline, marker, overflow, re-request | three unordered pipes, late answers |
| Queued input `agent/src/queued_input.rs` | rows and tombstones | reduce nine kinds of event | verdicts in any order |
| Manager, sessions `agent/src/manager.rs`, `session.rs`, `reaper.rs` | session table, profiles | spawn, restart, kill, reap | registration order against the pump |
| Peer machine and requests `transport/src/{machine,pending,peer}.rs` | link state, retry and flap budgets, data queue, slots by tag, retired tags | dial, handshake, back off, request, time out, close | handles act on a state that has moved on; a tag is used again |
| Streams `transport/src/stream.rs` | a track per stream: last number, held pieces, open window | observe, hold, resume, collapse, evict | gaps, replays, links that change meanwhile |
| Command delivery `daemon/src/command_delivery.rs` | a seat per request id, running slots, retained ids | open, merge, complete, expire, drop origin, drain | late answers, retries of what already ran |
| Saved state `src-tauri/src/state` | state file, crash copy, run marker, recorder | boot decision, answer, save, clean exit | a crash between any two file operations |
| Usage service `daemon/src/usage_service` | observations, refresh flights | observe, refresh | overlapping refreshes |
| Shell layout `src-tauri/src/layout` | window tree | edit, split, move | a large sequential data structure |
| CLI, protocol, base, platform, net, user interface | - | - | formats, operating system, presentation |

How they meet: a send enters through the control plane, the service parks it and
drains the recipient on the sender's own thread; what cannot go out is left to a
doorbell, which the flush worker turns into a delivery on the recipient's lane.
The busy gate keeps letters back while a recipient is in a turn, and rings when
the turn ends. The manager's session table says who is alive; each roster diff
rings for new incarnations. A sweep task expires letters and deadlines. An agent's
output is numbered by its core, fanned out to the connections that subscribed,
relayed by the shell and put on a view's screen. The shell reaches the daemon
through a peer of the transport crate; commands that another connection owns go
out through command delivery and come back as outcomes.

What makes it correct: letters reach a recipient in the order they were
accepted, once, within bounded lanes; a letter that cannot go out is kept and
has an occasion to go out later; the ledger says what happened; a reply contract
with a deadline is answered, failed or notified; no ring is lost. A screen shows
every chunk in order or an error. What a stream hands up is in order, or what is
missing is reported. "Not sent" is never said of a request that may have gone out,
and every request and command is answered once. A write is not applied twice. The
screen of a crashed run is offered until the user answered.

PROJECT.json lists every component and every hazard with its line.

## 2. Modules

| module | models | extends / uses |
|---|---|---|
| MailLanes | the promise of the parking store: sets of queued and flying letters with admission numbers | - |
| MailKernel | service.rs, mailbox.rs and the history of ledger.rs, delivery side | refines MailLanes |
| ReplyContracts | the contracts of ledger.rs and the sections of service.rs that drive them | - |
| Doorbells | the promise of the host's wake-up path, against which MailKernel is written | - |
| FlushLane | messaging_host.rs: coalescer, channels, lanes, roster diff | refines Doorbells |
| TurnGate | turn.rs, inputs_pending.rs, busy.rs, the numbering and finish of output_core.rs, the input writes of session.rs | - |
| OutputReplay | output_core.rs fan-out and subscribe_from, handle_subscribe, the shell's flights and relay, the webview's views | - |
| PeerStream | stream.rs and the supervisor's steps around it | - |
| PeerLink | machine.rs, pending.rs, the loops of peer.rs and its handles | - |
| CommandSeats | command_delivery.rs, outcomes and disconnects | - |
| StateRecovery | boot.rs, saver.rs, restore.rs, boot_plugin.rs, base file.rs | - |
| MailLanesProofs, ReplyContractsProofs, FlushLaneProofs, TurnGateProofs, PeerStreamProofs, PeerLinkProofs, CommandSeatsProofs, StateRecoveryProofs | theorems | the module named, TLAPS |
| MC* | instances for TLC | the module of that name |

### MailKernel

One action is one section of `MessagingState`'s lock, or one call made with the
lock released. `queues` and `inFlight` are the fields of `Mailbox`; `history`
that of `Ledger`; `targets`, `deferredFlush` and `deferredByTarget` those of
`MessagingState`. `work[t]` is the program counter and the local variables of a
thread in `handle_send` or of the delivery lane of a recipient.

    SendSnapshot - Accept - (BackOff | DrainNothing | DrainTargetHeld | DrainGated
                             | DrainTake - InjectLands/Settle ... - Release)
                 - Echo - Ring

`InjectRefused` and `Restore` replace the rest of the loop after a refusal. A
letter has an admission number, a kind and an age; text, names and ids are left
out. The host is `roster` (epoch or 0), `busy`, `profiles`, and the doorbells
`bells` and `appear`. `arrived` and `stranded` are history variables.

### ReplyContracts

Delivery is abstracted to the verdict "is there room". The steps `handle_send`
takes inside its lock are actions of their own and `lock` says who is inside, so
that the invariants see the middle of a fan-out. Replies carry exactly one
recipient and never ask for a reply, as the ingress enforces
(`control/ingress.rs`, validate_contract).

`requests` is a map from the contract's key, message id and recipient, to its entry;
`open_request` refuses a key that is there, so the list is one. What only the order of
the list decides is left open: which of two contracts created in the same tick makes
room (`Victims`), and in which order the sweep, which carries a set (`sweeper.due`),
deals with notices that came due together. `promised`, `answered`, `failed` and `notices`
are history variables.

### FlushLane and Doorbells

`Claim` and `SendIdle` are the two halves of `ChannelIdleNotifier::enqueue`;
`Forward` is `run_flush_worker`; `Receive` and `Advance` are the two arms of
`run_flush_lane`; `Flush` and `TaskEnds` are the blocking task and its
`DeliveryDone` guard. `SessionChanges`, `ListAgents` and `Dispatch` are the
status sink's path from the session table to the roster diff.
`ImplementsDoorbells` ties the two: MailKernel's `bells` and `appear` behave as
the real channels do.

### TurnGate

What stands behind MailKernel's `busy`. `turns` and `pend` are the agent's
entries in the two tables; `core[e]` the output core of incarnation `e`, with the
rows of its registry and, as history, what its output says of the turn when read
in order (`truth`); `thread[t]` the pump, a thread per user input and the mail
lane. An emission is one step under the ring's lock (`Emit`: number, reduce,
"became full") and up to four after it (`Observe`, `Recheck`, `WriteDrained`,
`InputsDrained`), in which any other thread may come between. `Finalize`, `Seal`,
`ReapTurns`, `ReapPending` and `Reap` are the end of a session; `InputStart` to
`InputReject` the branches of `write_user_classified`; `SweepRead`, `SweepSwap`
and `SweepWake` those of `sweep_stale_busy`.

Two windows the properties leave open, because the code accepts them. Inside a
failed result, an error that is recorded first hides an older progress until the
end that the pump emits next (`MidResult`). And a `Queued` followed by the end of
the turn, both between the two reads of the gate, gives an idle verdict although
the tables were never both idle: one letter may be written next to a listed
input.

### OutputReplay

One agent, four places. `core` and `emit[e]` are the output core and its emitting
threads: `Emit` numbers a chunk and pushes it into the ring, `Capture` copies the
subscribers, `Send` reaches one copied sink at a time with no lock held, so two
threads may deliver in the opposite order of their numbers. `sub` is
`handle_subscribe` (`Subscribe`, `ReplaySend`, `DropOldSink`, `ReplayComplete`,
`Refuse`); the ring is replayed under the subscribers lock, which keeps `Capture`
out. `flight` is the shell's single flight with its deadline, `known` the
incarnation filter of the relay. `view[v]` is a webview slot: phase, buffer, held
frames, generation fence, ladder of re-requests and timers. The output channel,
the answers of `request_replay` and the events reach a view in any relative order.

### PeerStream

The receiving end of numbered streams. `Observe` has one disjunct per branch of
`observe_capped` (first piece, new generation, duplicate, next in order, gap,
held, window full or overdue); `Expire` is the timer, `Salvage` routes what was
read ahead when the link was lost, `PendingResumes` what a new link asks for
again. The sender's rewind buffer is external. `told` is what the last step handed
up; `got` and `owed` are history variables.

### PeerLink

One peer. `state`, `retries` and `flaps` are `Machine`; `ending` is the input
`run_live` returned with, so that a handle can act between the end of a link and
the machine's move. `Bind` and `Push` are the two halves of `request_in`, between
which the link may be replaced; a command carries whether its generation is still
the present one. `waiting` and `retired` are those of `Pending`. `written` and
`dials` are history variables.

### CommandSeats

`seats` is `Seats::open`, a seat's token being the query that opened it; `task[q]`
is the delivery task. `Open`, `Coalesce` and `Refuse` are the verdicts of `open`;
`AdmitLocal`, `RunJob`, `AnswerLocal`, `AnswerEarly` and `SettleLocal` run the
daemon's own commands on the blocking pool; `Handover`, `Complete` and
`AnswerRemote` are the way to an owner and back; `Sweep`, `DropOrigin` and `Drain`
settle seats from outside. `applied[i]` counts the runs of a write under id `i`
since the id was last let go, `sent` the frames of a query.

`EveryQueryAnswered` does not take a frame that left before a merge for an answer to
the merged query: it asks for one that follows. The code leaves one window, which
the comment on `LocalGuard::settle` (command_delivery.rs:1369) declares: a task sends
its frame, and only then settles or releases its seat, so a repeated query that comes
in between is merged with a round trip that is over and "gets not a single frame".
The property grants that window and nothing more: whoever is merged finds a round
trip that has not answered yet, or one whose task is at that very step (`Leaving`),
never one whose command still runs after the deadline answered for it. The window is
reachable in the run: without the exception TLC finds a merge inside it.

### StateRecovery

`disk` is the two files and what was set aside as unreadable; `Decide` is the boot
table, then one action per file operation of its plan, each of which may fail.
`answer` is `RestoreService`, `saver` the recorder thread, `inbox` its channel.
`End` is a crash between any two steps, or the end of a clean exit. `owed` and
`durable` are history variables: the crashed screen the user has not answered for,
and the answers that reached the disk; so are `asideTried` and `copyTried` of `boot`,
whether this run tried to set the damaged state file or crash copy aside. The two are
treated differently by the code, and by `OriginalsSurvive`: a failed set-aside does
not stop the run from replacing the file, but it does stop the boot from removing a
damaged copy (`RemoveUnusableCrashCopy` in `run_actions`). A text's hash is drawn from those not in use;
`Hashes` grows with the runs, since each may add one durable answer, and the type
invariant says that it never runs out.

## 3. Runs

| run | states | bounds | shows |
|---|---|---|---|
| MailLanes | 23 k | 2 agents, lanes 2 and 1, 5 letters | the inductive invariant, the cap, the order |
| KernelOrder | 458 k | 1 agent, 2 senders, 3 letters, lanes 2 and 1 | tickets equal batches, order, refinement of MailLanes |
| KernelLedger | 374 k | 1 agent, lanes 2 and 1, history 1, TTL 1; two instances: ageing letters and a deletion, two incarnations; fairness | rows tell the truth, nothing dropped silently, isolation only by the two known paths, rows settle |
| Contracts | 1.14 M | 3 agents, 2 slots, history 2, 3 ids, 2 ticks; two instances: fan-outs by one thread, two threads that race; fairness | slots, reservations, one verdict, a reply cancels the notice, deadlines are met |
| Flush | 230 k | three instances: 2 callers and 2 agents, 2 agents that appear, 2 host threads over 3 incarnations; fairness | claims, lanes, every incarnation appears, rings are answered, refinement of Doorbells |
| GateTables | 784 k | five instances, below; fairness | the two tables, their readers, the bells, the valve |
| Streams | 141 k | four instances: 5 pieces over 3 links, 2 incarnations, 2 streams, a third that evicts; buffer 3; fairness | in order or reported, dropped as answered only if carried, windows close |
| Links | 252 k | 2 requests that share a tag, 2 attempts, queue 2, 1 retired tag; fairness | the dial budget, true answers, every request is answered |
| Replays | 286 k | five instances: 2 emitters, deadlines, 2 views, a respawn, a lost connection; fairness | no chunk missed, no hole, views catch up |
| LateAnswer | violation | as Replays, with slow answers | the finding below |
| Recovery | 760 k | 3 runs of the shell, 1 change each, 2 failing file operations; fairness | crashed screens are kept and offered, answers are final, newer files are left alone, damaged ones set aside first, changes are saved |
| Seats | 75 k | five instances of 3 queries, 2 connections, 2 ids, 1 slot, 1 retained id; fairness | a write runs once, one reply each, every query is answered but for the window below |

Several runs cover several small instances at once. The variable `instance` of the
MC module is chosen in the first state, never changes, and bounds what follows;
`MCNext` lists the actions of Next one by one with that bound, so that TLC's
coverage names each of them, and fairness is stated of the bounded actions. Every
action fires in some run. KernelOrder leaves out the clock, turns and deletions
(`OrderNext`), which are KernelLedger's. GateTables has: two inputs and
four events; an input, mail and three events; mail, the sweep and three events; an
input and two incarnations of three events; mail and two incarnations of one event.
A list of two, a failed result (two events) that meets an echo, and an echo that
outlives its incarnation all fit.

The bounds are small but the cases happen: a lane of one or two fills, a history
of one or two rows evicts rows of letters still parked, three letters give an old
batch, a newer letter and a third thread's, three incarnations let an old list be
dispatched after two newer ones, a view's buffer overflows inside a replay, a
window is full when its link is cut, a third run of the shell boots over what two
crashed ones left, and one retained id is evicted by the next. Every property has
a mutant of the code in its module that breaks it (`mutants` in PROJECT.json).
Deadlock is checked for FlushLane, whose callers never stop; elsewhere the bounds
on letters, links, runs and incarnations end a behaviour.

Three further configurations are kept for reading: KernelFanOut (a fan-out that is
refused half-way, 945 k states, passes), and Isolation and NoticeOvershoot, which
show the two observations below.

### Fairness

MailKernel assumes weak fairness of a thread that is inside `drain_queue` (it holds
no lock across the injection and the port call returns), of each recipient's lane,
of the clock and of the sweep (a loop on a timer). No fairness for sends, spawns,
turns or for an injection to succeed. In ReplyContracts: of a send that has begun,
of the sweep task and of the clock. In FlushLane: weak for every thread and task
with work, strong for the two arms of the lane's `select!`, since tokio polls ready
arms in random order. In TurnGate: weak for a thread that has numbered an event (it
writes the tables next), for the lane, for a sweep in progress, and for a sweep
that finds the running turn aged (the task runs on a timer and a turn without
signals ages). Nothing is assumed of the vendor, of user inputs or of the end of a
process.

PeerStream: frames that arrived are taken while the link is up, and the window
timer fires; nothing of the sender. PeerLink: the supervisor's task moves on
(dials end, back-off elapses, queued commands are taken, a link that ended is dealt
with), a caller that was bound pushes, a waiting request's timer fires; the peer
need not answer. OutputReplay: what is in a pipe is taken, emitters and the
subscribe task run on, timers fire; users, respawns and connection losses are free.
CommandSeats: delivery tasks are polled and the sweeper ticks; neither an owner's
answer nor the end of a blocking job is assumed. StateRecovery: the recorder's
timer ticks and a save in progress goes on; failures are bounded by a budget.

### Findings

*Late answer* (run LateAnswer). A view whose buffer overflowed makes its generation
fence void and asks again. If the answer of its earlier `request_replay` comes after
that, it sets the fence to the old generation; the old success marker then flushes
an empty buffer, the view goes live and the scheduled re-request is cancelled. The
chunks that were thrown away never reach the screen, which the comment above the
reset excludes (`src/api/protocolClient.ts:340`). The run Replays assumes prompt
answers (`PromptAnswers`): a view is answered before it has a reason to ask again.

Two observations in the messaging core, which the passing runs take into account:

- *Notice overshoot.* `mailbox.rs` (comment of `NOTICE_CAP`) calls the overshoot of
  the notice lane "+1, temporary, returns by itself". After a refused batch the
  queue holds cap + 1; when that batch flies again the next notice finds nothing to
  retire in the queue: cap + 2, and so on (NoticeOvershoot.cfg).
- *Isolation.* `handle_send` decides from a snapshot taken before its lock that a
  recipient sleeps. If it wakes, and its appearance is flushed, before the letter is
  parked, nothing opens that letter until an unrelated event (Isolation.cfg).
  `IsolationIsKnown` shows that this, and a refused injection (by rule no bell), are
  the only two paths.

And one limit the code documents: the ring of retired tags is finite
(`transport/src/lib.rs`, on tags). With more tags timing out than it remembers, a
late reply can meet a new request with its tag, so Links uses a ring that is long
enough for the one tag it shares.

## 4. Proofs

What is proved holds for any sets and limits that satisfy the named assumptions. Each
inductive invariant was checked by TLC on the run's instances before it was proved.

`MailLanesProofs` (assumption: `CapsAssumption`), for letters admitted alone or for
several recipients in one step (`AdmitMessages`):

- `Invariance`: `Spec => []IInv`. Neither the cap nor the order is inductive.
  For the order one needs that what flies is older than what is queued and that
  numbers are fresh; that survives `Return` because the batch is only merged
  back when nothing else of that recipient flies. For the cap one needs
  finiteness of the outstanding set and that `Return` keeps that set as it is.
- `TypeCorrect`, `LaneBounded`, `DeliveryOrder`: type correctness, the message
  lane bound ("exact equality, zero slack"), and `NeverOvertaken` as an action
  property, from the same invariant.

`CommandSeatsProofs` (`LimitsAssumption`, `QueriesAssumption`, `AsksAssumption`):
`WritesRunOnce`, `Spec => []AppliedOnce`. That a write ran at most once says nothing
about who may still run it. The invariant adds that a command under way holds the
seat of its id whatever timeouts and disconnects do (`Held`), that no two are under
way under one id (`Alone`), and that a write that ran is remembered, by a retained
seat or by its own task until that settles (`Remembered`). The step that needs most
is `SettleLocal`, which retains one id and may evict others.

The same module proves `RepliesAreSingle`, `Spec => []OneReplyEach`. A
task's place fixes the frames it sent (`Places`); a seat that waits has told its task
nothing (`SeatsOwned`); an envelope in an owner's hands is still seated, or somebody
under its id was given up (`Owed`), which is what makes an outcome answer its own
query; the slot counter is the number of tasks that hold a slot (`Limits`).

`PeerLinkProofs` (`LinkAssumption`): `BudgetHolds`, `Spec => []DialsAreBounded`. The
bound 1 + M * M needs, for each state of the machine, how many dials the present
flap and retry counts allow (`Budget`); it is the second counter, flaps, that keeps
a link which connects and dies at once from renewing the first for ever.
The second result is `NotSentHolds`, `Spec => []NotSentIsTrue`,
the first half of `AnswersAreTrue`. A queued request is queued once and is still its
caller's (`QueueIsFresh`), and a slot's request waits (`SlotsWait`); so what is
rejected from the queue was never written, and what waits is never told "not sent".
The third is `AnswersHold`, `Spec => []AnswersAreTrue` under `RingSuffices`: no more
tags are in use than the ring of retired tags holds. Without that premise the second
half of the property is false, as `pending.rs` documents; the instance of Links meets
it. With it, the ring holds each tag once and so never drops one (`RingIsSet`); who waits
has the slot of its tag, who gave up has retired it, and a retired tag has no slot
(`TagsAreKept`); a reply on the link is to a request that waits or gave up
(`RepliesExpected`), so it finds its own slot or none.

`ReplyContractsProofs` (`ContractsAssumption`: positive limits, finitely many agents,
sends with distinct recipients, replies to one), for any agents, threads, sends, slot
limit, history capacity and clock: `SlotsAlwaysSettle`, `AlwaysTrackedWhileNeeded` and
`AlwaysOneVerdict`, `Spec => []` of the run's three invariants, and `NoticeIsCancelled`,
`Spec => ReplyCancelsNotice`, an action property. All four rest on one invariant, whose
parts are inductive only together:

- `ThreadsInOrder`, `TodoIsNew`, `SeenIsOld`: an id belongs to one thread until it
  leaves the lock, and a recipient not yet judged has no contract, verdict or notice.
  This is why `open_request` always finds the key free, and why a rollback removes
  nothing but its own entry.
- `SharesReserved`, `ReservationsOwned`: the provisional entries are exactly the shares the
  thread inside has still to park, and each mark is on the victim of one of them. A
  thread that leaves has no shares left, so nothing stays reserved. A contract
  whose notice is still owed is never marked.
- `VerdictsAgree`: an entry is closed exactly when a verdict fell on it, and a contract
  with a verdict is still in the ledger or its rows are gone from the history. The second
  half is what the sweep's second look relies on.
- `NoticesAgree`: an entry is flagged exactly when its notice is posted, in hand, or
  made superfluous by a verdict; the flag survives as long as the entry.
- `PromiseKept`, `SlotBound`: the properties themselves. The bound needs that a rollback
  restores the entries as they were (`RollbackRestores`), and that each reservation at
  the limit marks a victim of its own.

Lemmas shared by the actions: recording a row only drops finished contracts whose
history is gone (`RecordTrims`, `TrimKeeps`); closing contracts only closes them
(`ClosedCloses`, `ClosesKeeps`).

`FlushLaneProofs` (`FlushAssumption`: finitely many agents and callers, since the
invariant counts them; callers are not host threads; `"none"`, the idle caller, is no
agent):

- `EveryRingIsAccounted`, `Spec => []RingsAreAccounted`. Its four conjuncts are inductive
  together and none alone: that a claim has exactly one entry needs the lane to hand
  each entry to exactly one delivery, and that an absorbed ring is answered needs the
  claim it was absorbed by to have an entry. The lemmas say what an append, a
  removal and a move between channels do to the number of entries of a kind.
- `LanesAreDoorbells`, `Spec => ImplementsDoorbells`, the refinement: `Claim` is a ring
  (or a stutter when the coalescer absorbs it), the start of a delivery takes the bell,
  every move between channels is a stutter. That a delivery only takes what was rung
  is `ClaimHasEntry`.
- `EveryIncarnationAppears`, `Spec => []IncarnationsAppear`. Needed beside it: what the
  diff last saw has had its Appear, and a live incarnation that has not is in a list
  some host thread holds or is about to take (`AppearanceIsDue`).

`PeerStreamProofs` (`StreamAssumption`): `StreamsAreBounded`,
`Spec => []WindowsAreBounded`, and `DeliveryRises`, `Spec => DeliveredInOrder`, an
action property. The window bound must be known strictly (a window that is full is
closed in the same step), and the order needs that the consumer has exactly what the
track says (`LedgerInv`): the code never compares with the consumer, only with its
own counter. One lemma per branch of `observe_capped`; eviction shortens the LRU
order and the table together (`OrderOK`).
The third is `AnswersCarryWindows`, `Spec => []AnsweredIsCarried`. It says that a piece
is somewhere on the link, which no step preserves: what has to be kept is its run
(`Run`), all the pieces from the next one that goes up to it, in a row.

- `HeldRecurs`: a piece that comes again starts a run up to every newer piece of its
  incarnation taken or sent before it, because only a replay repeats and a replay goes
  on to the sender's last piece. Hence, when a hole is filled behind what is held, the
  run to each piece held follows at once.
- `OwedIsOwing`: the run to each piece owed is on the wire, and starts at the piece that
  goes up next. A verdict that moves the track on takes the front of the run with it.
- `AllStamped`: what is on the wire or held was stamped, so after a restart nothing of
  the new incarnation is about; and a fresh link is empty.

What verdicts leave held and owed is one statement, `Leaves`, with a lemma per verdict;
what the sender appends is one lemma, `SentCarry`, for a piece and for an answer. The
proof showed that requests still on their way are not needed: the property was first
stated with "or asked for again", and now is stronger.

`TurnGateProofs` (`GateAssumption`; `NoEntryAssumption`: the mark of an absent entry
is not an entry): `TablesFollow`, `HandoversAreSeen`, `InputsKeepOrder` and
`BellsAreKept`, all from one invariant, `GateInv`. Its parts:

- `Places`, `Incarnations`: where each thread may stand, and what the pump's place says
  of the incarnation that is up, finished or sealed.
- `TurnOwner`, `PendOwner`: the tables belong to the live incarnation, except for an
  entry that a late echo remade and is about to take back (`Recheck`).
- `Numbers`: an event's number is used once, by one thread, the entry or the record of
  stale turns. Without it nothing can be said of two signals observed in the
  opposite order of their numbers.
- `TurnFollows`, `PendFollows`: each table equals what the output says, up to the
  signals on their way; for the turn table this distinguishes a progress newer than
  the last end from an older one that comes late (`Rising`, `LastEnd`).
- `Handover`: who may know that the list was emptied by a start: the thread that writes
  it, the table, and its readers; for each the turn entry is as new.
- `InputOrder`: the order lock admits one input per incarnation, and the list it found
  empty stays so, because only an input lists.
- `Bells`: what the lane has read so far is still so or a bell has rung since. This is
  the difference between "a bell rings at each end" and "no letter is left".

`StateRecoveryProofs` (`ScreenAssumption`), for any screens, runs, changes and failing
file operations: `ScreensAreKept`, `Spec => []NoScreenIsLost`; `DurableAnswersAreFinal`,
`Spec => []DurableAnswerIsFinal`; and `OriginalsAreKept`, `Spec => OriginalsSurvive`, an
action property. That the crashed screen is on the disk says nothing about whether the
next boot finds it, nor about what this one is about to do, so all three rest on
`RecoveryInv`. Its parts:

- `OwedIsKept`: what is owed is exactly what the boot table would ask about next
  (`Outstanding`), and once this run may write the state file the copy holds it. The
  second half is why the copy is written before the run marker.
- `OwedIsAsked`: the recorder names the owed text as answered only when the layout it
  became is in the snapshot being written. This is what the slot set at the wrong
  moment (the mutant `ResolveAtSend`) breaks.
- `DurableStays`: a durable answer whose copy is still there is named by the state file
  and by the slot that the next write, or the next run marker, carries on.
- `PlanFits`: what the actions still in a boot's plan presuppose of the two files, which
  nobody else writes meanwhile. `DecideCases` and `PlanOfBoot` derive it from the table.
- `CopySpared`, an invariant of its own for `OriginalsAreKept`: a plan whose next action
  removes a copy has set it aside, and one about to write over a damaged copy has tried.
- `Life`, `Requests`, `NotItsOwn`: who is at work in which phase; a request is about the
  text that was asked about; no text names itself as answered.
- `AnswersCounted`: a run makes at most one answer durable; with it the hashes suffice.

Proof attempts failed for reasons in the model. Some CASE expressions had guards
that overlapped, where the code is an if/else-if chain: TLC takes the first arm, the
meaning of TLA+ does not, so no proof could (`Absorb`, `Observed`, `Recorded`; now exclusive).
`HandoverIsSeen` claimed too much: a late echo of an incarnation that is over remakes
the entry with an older number. That entry says busy and belongs to a session that has
ended; the property now says so. And the type invariant of TurnGate did not
say what the fields of a thread or an entry may hold. ReplyContracts kept its contracts
as a sequence, although nothing but the order among equals depended on it; as a map it
says which properties need no order, and can be reasoned about.

With the run KernelOrder, which checks that MailKernel implements MailLanes, the
bound and the order hold for the kernel's instances; with `LanesAreDoorbells` the
wake-up path it assumes is the one the host has. The first refinement is
model-checked, not proved.

Only model-checked:

- liveness, as fairness and ENABLED are out of the prover's reach (`RingsAreAnswered`
  and the others named in section 3);
- the refinement of MailLanes by MailKernel, and the invariants of MailKernel: they
  need the thread-local batches of `work[t]` as sequences folded into sets;
- the invariants of OutputReplay, whose pipes are sequences that every view filters.

## 5. Not modelled

- Message text, envelope format, hints, listing commands, groups: no property
  depends on them.
- `reclaim_abandoned_reservations`: reached only by builds without the
  reservation hook. Redrawing a colliding message id: ids are unique here.
- `ReplyContracts` and `MailKernel` split one critical section of `handle_send`:
  a contract never changes whether a letter is admitted except by
  REQUEST_CAPACITY, which MailKernel does not have (a refusal more).
- TurnGate is one claude session. Time is left out: any running turn may be
  found aged, and stays so until its next signal; `lastSeq` stands for the stamp
  of the last signal, with which it changes. The cancel phases of the registry,
  codex's own turn ends (`Absorb` takes them, no action emits them) and looks of
  the lane at an empty mailbox are left out. `Spawn` is one step, since nobody
  reaches a core before its session is in the map.
- OutputReplay: a view that unmounts and mounts again (tokens), the wait for a ready
  connection inside a request, routing of frames to windows, batches and byte costs.
- PeerStream and PeerLink: notifies, pings, byte budgets and the read gate; whether
  bytes fit or a window is overdue is a choice at every piece.
- CommandSeats: resolving agent arguments of another owner's command, the relay slot
  of `CommandBus::invoke`, a saturated reply queue, outcomes for ids nobody asked
  under. Which retained ids are the oldest is left open. A late outcome on an id that
  is used again reaches the later query, as the comment on `Void` says;
  `OneReplyEach` allows exactly that, so no property speaks of that half of a late
  answer.
- MailKernel: a spawn between the liveness question of a profile's deletion and the
  purge. `Spawn` needs the profile, which the deletion has removed by then; a start
  that looked the profile up before that is left out.
- StateRecovery: the closed flag of the recorder, two instances without the lock, an
  answer that fails before it is committed, encodings that are rejected, a thread
  that cannot be spawned. The window tree is one value with a change number.
- Lock poisoning; the daemon's exit, since what it keeps is in memory and dies with
  it.
- The components marked not_modelled in PROJECT.json.

The map covers a few percent of the repository's implementation lines. Most of the
rest has no state that two actors share: decoding of the vendors' protocols, adapters
and dispatch, argument coercion, the window tree, the user interface, and the unit
tests that fill more than half of many source files.

## 6. Plan

Done: all modules of section 2. Left, in this order; each item joins an existing run
as one more instance where it asks the same question.

1. The QueuedInput registry (cancel phases, tombstones, resurrection) as a function
   of its events.
2. TurnGate's verdict as MailKernel's `busy` (an abstract gate that both use, as
   Doorbells is for the wake-up path).
3. The usage book and its refresh flights; restart and restore in the manager.
4. Proofs: the invariants of OutputReplay; the refinement of MailLanes by MailKernel.
