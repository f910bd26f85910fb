--------------------------- MODULE MCCommandSeats ---------------------------
(* Instances of CommandSeats for TLC.  One run covers several: the first   *)
(* state picks one, and its bounds hold from then on.                      *)
EXTENDS CommandSeats, TLC

CONSTANTS q1, q2, q3, c1, c2

Q(c, i, n) == [conn |-> c, id |-> i, name |-> n]
Table(a1, a2, a3) == q1 :> a1 @@ q2 :> a2 @@ q3 :> a3

\* The query table, the connections that may end, and whether the daemon may
\* shut down.
Instance(table, leaves, drains) == [ask |-> table, leaves |-> leaves, drains |-> drains]

\* "w" and "v" are writes, "r" a read of the daemon's own; "x" and "y" are an
\* owner's.  A write asked three times, its first caller leaving; writes
\* under two ids past the slots and the retention cap; a write, a read and an
\* owner's command under one id; an owner's command asked three times, its
\* first caller leaving; another command under the id of one that timed out,
\* and the daemon shutting down.
Instances ==
  { Instance(Table(Q(c1, 1, "w"), Q(c2, 1, "w"), Q(c2, 1, "w")), {c1}, FALSE),
    Instance(Table(Q(c1, 1, "w"), Q(c1, 2, "v"), Q(c2, 1, "w")), {}, FALSE),
    Instance(Table(Q(c1, 1, "w"), Q(c2, 1, "r"), Q(c2, 1, "x")), {}, FALSE),
    Instance(Table(Q(c1, 1, "x"), Q(c1, 1, "x"), Q(c2, 1, "x")), {c1}, FALSE),
    Instance(Table(Q(c1, 1, "x"), Q(c1, 1, "y"), Q(c2, 2, "r")), {}, TRUE) }

AskTables == {b.ask : b \in Instances}

VARIABLE instance

Within(b) ==
  /\ \A c \in Conns : conn[c] # "attached" => c \in b.leaves
  /\ closed => b.drains

MCInit == Init /\ instance \in Instances /\ ask = instance.ask

Bounded(A) == A /\ UNCHANGED instance /\ Within(instance)'

(* Next, action by action, within the bounds of the instance. *)
MCNext ==
  \/ \E q \in Queries :
       \/ Bounded(Open(q)) \/ Bounded(Coalesce(q)) \/ Bounded(Refuse(q)) \/ Bounded(Release(q))
       \/ Bounded(RefuseLocal(q)) \/ Bounded(AdmitLocal(q)) \/ Bounded(AnswerLocal(q))
       \/ Bounded(AnswerEarly(q)) \/ Bounded(SettleLocal(q)) \/ Bounded(HandoverFails(q))
       \/ Bounded(Handover(q)) \/ Bounded(AnswerRemote(q)) \/ Bounded(Complete(q))
       \/ \E o \in {"ok", "died", "refused", "gone"} : Bounded(RunJob(q, o))
  \/ \E S \in SUBSET Ids : Bounded(Sweep(S))
  \/ \E c \in Conns : Bounded(Detach(c)) \/ Bounded(DropOrigin(c))
  \/ Bounded(Drain)

MCFairness ==
  /\ \A q \in Queries : WF_<<vars, instance>>(Bounded(Deliver(q)))
  /\ \A i \in Ids :
       WF_<<vars, instance>>(Bounded(\E S \in SUBSET Ids : i \in S /\ Sweep(S)))

MCSpec == MCInit /\ [][MCNext]_<<vars, instance>> /\ MCFairness
=============================================================================
