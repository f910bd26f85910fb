----------------------------- MODULE Doorbells -----------------------------
(***************************************************************************)
(* What the host promises the messaging kernel about its doorbells: a bell *)
(* is one pending wish per agent, an appearance is counted, and one        *)
(* delivery at a time is made for an agent, which takes a bell before it   *)
(* looks at the mail.  MailKernel is written against this; FlushLane, the  *)
(* channels and tasks of messaging_host.rs, is checked to implement it.    *)
(***************************************************************************)
EXTENDS Naturals

CONSTANT Agents

VARIABLES
  bells,    \* agents with a bell pending
  appear,   \* appear[a]: appearances not yet served
  serving   \* agents a delivery is running for

vars == <<bells, appear, serving>>

Init ==
  /\ bells = {}
  /\ appear = [a \in Agents |-> 0]
  /\ serving = {}

(* request_flush, turn_ended, inputs_drained: a second bell is absorbed. *)
Ring(a) ==
  /\ bells' = bells \cup {a}
  /\ UNCHANGED <<appear, serving>>

(* agent_list_updated: incarnations not seen before appear, all at once. *)
Announce ==
  /\ \E new \in SUBSET Agents :
       appear' = [a \in Agents |-> IF a \in new THEN appear[a] + 1 ELSE appear[a]]
  /\ UNCHANGED <<bells, serving>>

(* A delivery starts for a bell or for an appearance. *)
Start(a) ==
  /\ a \notin serving
  /\ \/ /\ a \in bells /\ bells' = bells \ {a} /\ UNCHANGED appear
     \/ /\ appear[a] > 0 /\ appear' = [appear EXCEPT ![a] = @ - 1]
        /\ UNCHANGED bells
  /\ serving' = serving \cup {a}

Finish(a) ==
  /\ a \in serving
  /\ serving' = serving \ {a}
  /\ UNCHANGED <<bells, appear>>

Next ==
  \/ Announce
  \/ \E a \in Agents : Ring(a) \/ Start(a) \/ Finish(a)

Spec == Init /\ [][Next]_vars
=============================================================================
