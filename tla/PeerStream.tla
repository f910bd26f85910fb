----------------------------- MODULE PeerStream -----------------------------
(***************************************************************************)
(* The receiving end of numbered streams over a link that is cut and       *)
(* dialled again: duplicates are dropped, a hole is asked for again while  *)
(* later pieces are held, and when the answer does not come what is held   *)
(* goes out with a report.  A supervisor task owns all of this state.      *)
(*                                                                         *)
(* A piece is its mark (stream, incarnation, number).  The clock and the   *)
(* byte ledger are abstracted to a choice: whenever a piece arrives, the   *)
(* open window may be overdue or the bytes may not fit.  A window is open  *)
(* exactly when something is held, and then asks after `last`.             *)
(*                                                                         *)
(* Source: crates/engram-dashboard-transport/src/stream.rs, peer.rs.  The  *)
(* sending end (rewind buffer, replay) is external.                        *)
(***************************************************************************)
EXTENDS Integers, FiniteSets, SequencesExt

CONSTANTS
  Streams,
  MaxStreams,    \* Policy.max_streams
  ResumeBuffer,  \* Policy.resume_buffer
  Rewind,        \* pieces the sender can still replay
  MaxSeq,        \* bound: pieces of one incarnation
  MaxGeneration, \* bound: incarnations of a stream
  MaxLinks,      \* bound: links dialled after the first
  MaxWishes      \* bound: replays the consumer asks for by itself

ASSUME StreamAssumption ==
  /\ MaxStreams \in Nat \ {0} /\ ResumeBuffer \in Nat \ {0}
  /\ {Rewind, MaxSeq, MaxGeneration, MaxLinks, MaxWishes} \subseteq Nat

VARIABLES
  sender,  \* per stream: its incarnation and the last number it stamped
  link,    \* "up", "cut" (read-ahead being salvaged), "down", "closed"
  wire,    \* pieces on this link, oldest first; once cut, those read ahead
  asks,    \* resume requests on their way to the sender
  seen,    \* Streams.seen: the Track of each stream, or NoTrack
  order,   \* Streams.order: tracked streams, least recently used first
  told,    \* what the last step put on the upward lane, per stream touched
  got,     \* history variable: last piece delivered since the track began
  owed,    \* history variable: pieces dropped from a window as answered,
           \* each with the link it was dropped on
  used     \* bound counters: links dialled, wishes

ledger  == <<seen, order>>
history == <<got, owed>>
vars    == <<sender, link, wire, asks, ledger, told, history, used>>

NoTrack == [gen |-> 0, last |-> 0, held |-> {}]

Chunk(k, g, n) == [key |-> k, gen |-> g, seq |-> n]
Ask(k, n)      == [key |-> k, after |-> n]

(* One stream's share of what a step hands up: a report, the floor a       *)
(* truncation names (0 for none), and the numbers delivered, which go up   *)
(* in ascending order after the report (BTreeMap order).                   *)
Handed(k, g, report, floor, batch) ==
  [key |-> k, gen |-> g, report |-> report, floor |-> floor, batch |-> batch]

Tracked == {k \in Streams : seen[k] # NoTrack}
Open    == {k \in Streams : seen[k].held # {}}

Highest(S) == CHOOSE n \in S : \A m \in S : m <= n
Lowest(S)  == CHOOSE n \in S : \A m \in S : n <= m

Init ==
  /\ sender = [k \in Streams |-> [gen |-> 1, top |-> 0]]
  /\ link = "up" /\ wire = <<>> /\ asks = <<>>
  /\ seen = [k \in Streams |-> NoTrack] /\ order = <<>>
  /\ told = {} /\ got = [k \in Streams |-> NoTrack]
  /\ owed = {}
  /\ used = [links |-> 0, wishes |-> 0]

-----------------------------------------------------------------------------
(* The ledger.  Each verdict is an action on it, for a piece m; `tight`    *)
(* says that the window is overdue or the bytes do not fit.                *)

(* Streams::touch *)
Touch(k) == \E i \in DOMAIN order : order[i] = k /\ order' = Append(RemoveAt(order, i), k)

(* What a closing window hands up (Track::drain_held, Truncation). *)
Flushed(k, held, report) ==
  Handed(k, seen[k].gen, report, Lowest(held), held)

(* History: what the consumer has after `hands`, a stream forgotten among  *)
(* them starting over.                                                     *)
Remember(hands) ==
  /\ told' = hands
  /\ got' = [k \in Streams |->
       LET mine == {h \in hands : h.key = k /\ h.batch # {}} IN
       IF \E h \in hands : h.key = k /\ h.report = "forgotten" THEN NoTrack
       ELSE IF mine = {} THEN got[k]
       ELSE LET h == CHOOSE x \in mine : TRUE
            IN  [gen |-> h.gen, last |-> Highest(h.batch), held |-> {}]]

Settle(hands, more) ==
  owed' = {p \in owed \cup more :
             \A h \in hands : h.key = p.key =>
               /\ h.gen = p.gen /\ h.report # "forgotten"
               /\ \A n \in h.batch : n < p.seq}

(* admit: the least recently used tracks make room, reported as forgotten, *)
(* their held pieces handed up as truncated.                               *)
Admit(m) ==
  LET room    == IF Len(order) < MaxStreams THEN 0
                 ELSE Len(order) - MaxStreams + 1
      victims == {order[i] : i \in 1..room}
      evicted == {IF seen[v].held = {}
                  THEN Handed(v, seen[v].gen, "forgotten", 0, {})
                  ELSE Flushed(v, seen[v].held, "forgotten") : v \in victims}
      hands   == evicted \cup {Handed(m.key, m.gen, "none", 0, {m.seq})}
  IN  /\ m.key \notin Tracked
      /\ order' = Append(SubSeq(order, room + 1, Len(order)), m.key)
      /\ seen' = [k \in Streams |->
           IF k = m.key THEN [gen |-> m.gen, last |-> m.seq, held |-> {}]
           ELSE IF k \in victims THEN NoTrack ELSE seen[k]]
      /\ Remember(hands) /\ Settle(hands, {})

(* Verdict::GenerationChanged: what was held for the old incarnation is    *)
(* thrown away and counted in the report.                                  *)
NewGeneration(m) ==
  /\ m.key \in Tracked /\ seen[m.key].gen # m.gen
  /\ Touch(m.key)
  /\ seen' = [seen EXCEPT ![m.key] = [gen |-> m.gen, last |-> m.seq, held |-> {}]]
  /\ LET hands == {Handed(m.key, m.gen, "generation", 0, {m.seq})}
     IN  Remember(hands) /\ Settle(hands, {})

SameGeneration(m) == m.key \in Tracked /\ seen[m.key].gen = m.gen

(* Verdict::Duplicate: passed, or held already. *)
Duplicate(m) ==
  /\ SameGeneration(m)
  /\ m.seq <= seen[m.key].last \/ m.seq \in seen[m.key].held
  /\ Touch(m.key)
  /\ Remember({}) /\ UNCHANGED <<seen, owed>>

(* Mutant of Follows: the window outlives its answer. *)
FollowsKeepingWindow(m) ==
  LET t     == seen[m.key]
      hands == {Handed(m.key, m.gen, "none", 0, {m.seq})}
  IN  /\ SameGeneration(m) /\ m.seq = t.last + 1
      /\ Touch(m.key)
      /\ seen' = [seen EXCEPT ![m.key].last = m.seq]
      /\ Remember(hands)
      /\ Settle(hands, {[key |-> m.key, gen |-> m.gen, seq |-> n, on |-> used.links] :
                        n \in t.held})

(* Verdict::Deliver: the answer came, so the window goes: the replay is to *)
(* carry what it held once more.                                           *)
Follows(m) ==
  LET t     == seen[m.key]
      hands == {Handed(m.key, m.gen, "none", 0, {m.seq})}
  IN  /\ SameGeneration(m) /\ m.seq = t.last + 1
      /\ Touch(m.key)
      /\ seen' = [seen EXCEPT ![m.key] = [gen |-> m.gen, last |-> m.seq, held |-> {}]]
      /\ Remember(hands)
      /\ Settle(hands, {[key |-> m.key, gen |-> m.gen, seq |-> n, on |-> used.links] :
                        n \in t.held})

Ahead(m) ==
  /\ SameGeneration(m) /\ m.seq > seen[m.key].last + 1
  /\ m.seq \notin seen[m.key].held

(* Verdict::Gap: hold the piece and ask for everything after `last`. *)
Gap(m, tight) ==
  /\ Ahead(m) /\ seen[m.key].held = {} /\ ~tight
  /\ Touch(m.key)
  /\ seen' = [seen EXCEPT ![m.key].held = {m.seq}]
  /\ Remember({Handed(m.key, m.gen, "gap", 0, {})}) /\ UNCHANGED owed

(* Mutant of Full: one piece too late. *)
FullLate(held) == Cardinality(held) > ResumeBuffer

Full(held) == Cardinality(held) >= ResumeBuffer

(* Verdict::Held *)
Hold(m, tight) ==
  LET held == seen[m.key].held \cup {m.seq}
  IN  /\ Ahead(m) /\ seen[m.key].held # {} /\ ~tight /\ ~Full(held)
      /\ Touch(m.key)
      /\ seen' = [seen EXCEPT ![m.key].held = held]
      /\ Remember({}) /\ UNCHANGED owed

(* Mutant of Truncate: the track moves on to the piece that came, not to   *)
(* the highest one held.                                                   *)
TruncateToPiece(m, tight) ==
  LET held  == seen[m.key].held \cup {m.seq}
      hands == {Flushed(m.key, held, "truncated")}
  IN  /\ Ahead(m) /\ (tight \/ (seen[m.key].held # {} /\ Full(held)))
      /\ Touch(m.key)
      /\ seen' = [seen EXCEPT ![m.key] = [gen |-> m.gen, last |-> m.seq, held |-> {}]]
      /\ Remember(hands) /\ Settle(hands, {})

(* Verdict::Truncated: everything held goes up, and the track moves on to  *)
(* the highest of it.                                                      *)
Truncate(m, tight) ==
  LET held  == seen[m.key].held \cup {m.seq}
      hands == {Flushed(m.key, held, "truncated")}
  IN  /\ Ahead(m) /\ (tight \/ (seen[m.key].held # {} /\ Full(held)))
      /\ Touch(m.key)
      /\ seen' = [seen EXCEPT ![m.key] =
                    [gen |-> m.gen, last |-> Highest(held), held |-> {}]]
      /\ Remember(hands) /\ Settle(hands, {})

(* Every verdict that asks nothing of the sender. *)
Observe(m, tight) ==
  \/ Admit(m) \/ NewGeneration(m) \/ Duplicate(m) \/ Follows(m)
  \/ Hold(m, tight) \/ Truncate(m, tight)

(* collapse, for a set of open windows: on their deadline or at the end. *)
Collapse(K) ==
  LET hands == {Flushed(k, seen[k].held, "truncated") : k \in K}
  IN  /\ seen' = [k \in Streams |->
           IF k \notin K THEN seen[k]
           ELSE [seen[k] EXCEPT !.last = Highest({@} \cup seen[k].held),
                                !.held = {}]]
      /\ Remember(hands) /\ Settle(hands, {})
      /\ UNCHANGED order

-----------------------------------------------------------------------------
(* The supervisor. *)

Idle == told' = {} /\ UNCHANGED <<ledger, history>>

(* A lost link is not read further; the frames the reader had taken off it *)
(* (a prefix) are still routed.                                            *)
LinkLost(w) ==
  /\ link' = "cut" /\ asks' = <<>>
  /\ \E n \in 0..Len(w) : wire' = SubSeq(w, 1, n)

(* run_live on a frame: route, then write the resume request, which may    *)
(* fail and lose the link.                                                 *)
TakeFrame ==
  LET m == Head(wire)
  IN  /\ link = "up" /\ wire # <<>>
      /\ \E tight \in BOOLEAN :
           \/ /\ Observe(m, tight)
              /\ wire' = Tail(wire) /\ UNCHANGED <<link, asks>>
           \/ /\ Gap(m, tight)
              /\ \/ /\ asks' = Append(asks, Ask(m.key, seen[m.key].last))
                    /\ wire' = Tail(wire) /\ UNCHANGED link
                 \/ LinkLost(Tail(wire))
      /\ UNCHANGED <<sender, used>>

(* Mutant of Expire: only an arrival makes the windows be looked at. *)
ExpireOnArrival(K) ==
  /\ link = "up" /\ wire # <<>>
  /\ Collapse(K)
  /\ UNCHANGED <<sender, link, wire, asks, used>>

(* expire_resumes: the timer finds the windows of K overdue. *)
Expire(K) ==
  /\ link = "up"
  /\ Collapse(K)
  /\ UNCHANGED <<sender, link, wire, asks, used>>

Timer == \E K \in SUBSET Open \ {{}} : Expire(K)

(* Peer::resume_stream: the consumer asks for a replay by itself. *)
ResumeStream(k, n) ==
  /\ link = "up" /\ used.wishes < MaxWishes
  /\ asks' = Append(asks, Ask(k, n))
  /\ used' = [used EXCEPT !.wishes = @ + 1]
  /\ Idle /\ UNCHANGED <<sender, link, wire>>

Lose ==
  /\ link = "up"
  /\ LinkLost(wire)
  /\ Idle /\ UNCHANGED <<sender, used>>

(* salvage_read_ahead: a hole found now opens its window, but its request  *)
(* cannot be written.                                                      *)
Salvage ==
  /\ link = "cut" /\ wire # <<>>
  /\ \E tight \in BOOLEAN : Observe(Head(wire), tight) \/ Gap(Head(wire), tight)
  /\ wire' = Tail(wire) /\ UNCHANGED <<sender, link, asks, used>>

DropLink ==
  /\ link = "cut" /\ wire = <<>>
  /\ link' = "down"
  /\ Idle /\ UNCHANGED <<sender, wire, asks, used>>

(* pending_resumes: the streams with an open window, in LRU order. *)
PendingResumes ==
  {s \in SetToSeqs(Open) :
     \A i, j \in DOMAIN s : i < j =>
       \E p, q \in DOMAIN order : p < q /\ order[p] = s[i] /\ order[q] = s[j]}

(* reissue_resumes on a fresh link: the open windows are asked for again;  *)
(* a write may fail on the way.                                            *)
Connect ==
  /\ link = "down" /\ used.links < MaxLinks
  /\ used' = [used EXCEPT !.links = @ + 1]
  /\ \/ /\ link' = "up"
        /\ \E s \in PendingResumes :
             asks' = [i \in DOMAIN s |-> Ask(s[i], seen[s[i]].last)]
     \/ Open # {} /\ link' = "cut" /\ asks' = <<>>
  /\ Idle /\ UNCHANGED <<sender, wire>>

(* teardown: the read-ahead is salvaged first, then every window closes. *)
Close ==
  /\ link = "down"
  /\ link' = "closed"
  /\ Collapse(Open)
  /\ UNCHANGED <<sender, wire, asks, used>>

-----------------------------------------------------------------------------
(* The sender.  It stamps a piece and sends it or not (a subscriber that   *)
(* is not attached, a full queue); it answers a request from its rewind    *)
(* buffer; it restarts under a new incarnation.                            *)

Sendable(s) == IF link = "up" THEN wire \o s ELSE wire

Stamp(k) ==
  /\ link # "closed" /\ sender[k].top < MaxSeq
  /\ sender' = [sender EXCEPT ![k].top = @ + 1]
  /\ wire' \in {wire, Sendable(<<Chunk(k, sender[k].gen, sender[k].top + 1)>>)}
  /\ Idle /\ UNCHANGED <<link, asks, used>>

Replay(k, after) ==
  LET s     == sender[k]
      first == Highest({after, s.top - Rewind}) + 1
  IN  [i \in 1..(s.top - first + 1) |-> Chunk(k, s.gen, first + i - 1)]

Answer ==
  /\ link = "up" /\ asks # <<>>
  /\ asks' = Tail(asks)
  /\ wire' = wire \o Replay(Head(asks).key, Head(asks).after)
  /\ Idle /\ UNCHANGED <<sender, link, used>>

Restart(k) ==
  /\ link # "closed" /\ sender[k].gen < MaxGeneration
  /\ sender' = [sender EXCEPT ![k] = [gen |-> @.gen + 1, top |-> 0]]
  /\ Idle /\ UNCHANGED <<link, wire, asks, used>>

Next ==
  \/ TakeFrame \/ Timer \/ Lose \/ Salvage \/ DropLink \/ Connect \/ Close
  \/ \E k \in Streams, n \in 0..MaxSeq : ResumeStream(k, n)
  \/ \E k \in Streams : Stamp(k) \/ Restart(k)
  \/ Answer

Spec == Init /\ [][Next]_vars

(* run_live comes round to its frames and to its timer as long as the link *)
(* is up.  Nothing is assumed of the link or of the sender.                *)
FairSpec ==
  /\ Spec /\ WF_vars(TakeFrame)
  /\ \A k \in Streams : WF_vars(\E K \in SUBSET Open : k \in K /\ Expire(K))

-----------------------------------------------------------------------------
(* Every variable has the shape of the state it models. *)
TypeOK ==
  /\ sender \in [Streams -> [gen : Nat \ {0}, top : 0..MaxSeq]]
  /\ link \in {"up", "cut", "down", "closed"}
  /\ wire \in Seq([key : Streams, gen : Nat \ {0}, seq : 1..MaxSeq])
  /\ asks \in Seq([key : Streams, after : Nat])
  /\ seen \in [Streams -> [gen : Nat, last : 0..MaxSeq, held : SUBSET (1..MaxSeq)]]
  /\ got \in [Streams -> [gen : Nat, last : 0..MaxSeq, held : {{}}]]
  /\ order \in Seq(Streams)

(* stream.rs "bounded buffer", Policy::resume_buffer and max_streams: the  *)
(* sender decides neither how much a window holds nor how many streams are *)
(* tracked; and what is held never overlaps what has gone up.  (On states  *)
(* of the right types.)                                                    *)
WindowsAreBounded ==
  /\ TypeOK
  /\ \A k \in Streams :
       /\ Cardinality(seen[k].held) < Highest({2, ResumeBuffer})
       /\ \A n \in seen[k].held : n > seen[k].last + 1
  /\ Len(order) <= MaxStreams
  /\ ToSet(order) = Tracked /\ IsInjective(order)

(* observe_capped: whatever is lost, replayed or salvaged, the pieces of   *)
(* one incarnation go up in strictly rising order, and a number is passed  *)
(* over only right after a report that says so: a truncation whose floor   *)
(* is the first piece that follows, or a change of incarnation.            *)
RisesOrReports(h) ==
  LET before == got[h.key]
  IN  h.batch # {} /\ before # NoTrack =>
        \/ h.gen # before.gen /\ h.report = "generation"
        \/ /\ h.gen = before.gen
           /\ \A n \in h.batch : n > before.last
           /\ \/ h.batch = {before.last + 1}
              \/ h.floor \in h.batch /\ \A n \in h.batch : h.floor <= n

DeliveredInOrder == [][\A h \in told' : RisesOrReports(h)]_vars

(* stream.rs:219, the pieces of an answered window: the replay carries     *)
(* that span again, as long as the link it comes on is up.                 *)
Carried(p) == \E i \in DOMAIN wire : wire[i] = Chunk(p.key, p.gen, p.seq)

AnsweredIsCarried ==
  link = "up" =>
    \A p \in owed :
      p.on # used.links \/ sender[p.key].gen # p.gen \/ Carried(p)

(* expire_resumes "runs even without arrivals": on a link that stays up no *)
(* piece stays held for ever, even if the stream has gone quiet.           *)
WindowsClose ==
  \A k \in Streams : <>[](link = "up") => []<>(seen[k].held = {})
=============================================================================
