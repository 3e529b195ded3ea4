------------------------------ MODULE PlanRun -------------------------------
(***************************************************************************)
(* What the Agent Runtime promises of a plan: its nodes are done one by    *)
(* one, each after its dependencies, and the plan ends once, completed     *)
(* only when every node is done.                                           *)
(***************************************************************************)
CONSTANTS Node, Edge

VARIABLES
  phase,   \* "none" before the first start, "open", or how the plan ended
  done     \* nodes done since the last start

pvars == <<phase, done>>
Ending == {"completed", "failed", "cancelled"}

PInit == phase = "none" /\ done = {}

Start == phase' = "open" /\ done' = {}

Progress(n) ==
  /\ phase = "open"
  /\ \A e \in Edge : e[2] = n => e[1] \in done
  /\ done' = done \cup {n}
  /\ UNCHANGED phase

End(how) ==
  /\ phase = "open"
  /\ how = "completed" => done = Node
  /\ phase' = how
  /\ UNCHANGED done

PNext ==
  \/ Start
  \/ \E n \in Node : Progress(n)
  \/ \E how \in Ending : End(how)

PSpec == PInit /\ [][PNext]_pvars
=============================================================================
