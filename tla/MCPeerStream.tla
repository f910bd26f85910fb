---------------------------- MODULE MCPeerStream ----------------------------
(* Instances of PeerStream for TLC.  One run covers several: the first     *)
(* state picks one, and its bounds hold from then on.                      *)
EXTENDS PeerStream

CONSTANTS k1, k2, k3

ThreeStreams == {k1, k2, k3}

Instance(tops, generations, links, wishes) ==
  [tops |-> k1 :> tops[1] @@ k2 :> tops[2] @@ k3 :> tops[3],
   generations |-> generations, links |-> links, wishes |-> wishes]

(* A long stream over three links; an incarnation that ends with a window  *)
(* open; two streams with a window each; a third that evicts one of them.  *)
Instances == {Instance(<<5, 0, 0>>, 1, 2, 1),
              Instance(<<3, 0, 0>>, 2, 1, 1),
              Instance(<<3, 3, 0>>, 1, 1, 0),
              Instance(<<3, 1, 2>>, 1, 1, 0)}

VARIABLE instance

Within(b) ==
  /\ \A k \in Streams : sender[k].top <= b.tops[k]
  /\ \A k \in Streams : sender[k].gen <= (IF k = k1 THEN b.generations ELSE 1)
  /\ used.links <= b.links /\ used.wishes <= b.wishes

MCInit == Init /\ instance \in Instances

Bounded(A) == A /\ UNCHANGED instance /\ Within(instance)'

(* Next, action by action, within the bounds of the instance. *)
MCNext ==
  \/ Bounded(TakeFrame) \/ Bounded(Timer) \/ Bounded(Lose) \/ Bounded(Salvage)
  \/ Bounded(DropLink) \/ Bounded(Connect) \/ Bounded(Close) \/ Bounded(Answer)
  \/ \E k \in Streams, n \in 0..MaxSeq : Bounded(ResumeStream(k, n))
  \/ \E k \in Streams : Bounded(Stamp(k)) \/ Bounded(Restart(k))

MCFairness ==
  /\ WF_<<vars, instance>>(Bounded(TakeFrame))
  /\ \A k \in Streams :
       WF_<<vars, instance>>(Bounded(\E K \in SUBSET Open : k \in K /\ Expire(K)))

MCSpec == MCInit /\ [][MCNext]_<<vars, instance>> /\ MCFairness
=============================================================================
