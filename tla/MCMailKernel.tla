---------------------------- MODULE MCMailKernel ----------------------------
(* Instances of MailKernel for TLC. *)
EXTENDS MailKernel

CONSTANTS a1, a2, s1, s2

OneAgent  == {a1}
TwoAgents == {a1, a2}
OneSender == {s1}
TwoSenders == {s1, s2}
NoAgents  == {}

(* Sends to one recipient, and the fan-out to two. *)
Single == {<<a1>>}
FanOut == {<<a1, a2>>, <<a2>>}

SenderSymmetry == Permutations(TwoSenders)

(* Next without the clock, turns and deletions: they are in MCMailLedger. *)
OrderNext ==
  \/ \E t \in Senders : SendSnapshot(t) \/ Accept(t)
  \/ \E t \in Workers : \/ BackOff(t) \/ DrainNothing(t) \/ DrainTargetHeld(t)
                        \/ DrainTake(t) \/ InjectLands(t) \/ InjectRefused(t)
                        \/ Settle(t) \/ Restore(t) \/ Release(t) \/ Echo(t) \/ Ring(t)
  \/ \E a \in Agents : LaneWork(a) \/ Spawn(a) \/ SessionEnds(a)
  \/ \E a \in Requesters : ParkNotice(a)

OrderSpec == Init /\ [][OrderNext]_vars
=============================================================================
