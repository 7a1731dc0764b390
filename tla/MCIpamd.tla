------------------------------ MODULE MCIpamd ------------------------------
(* Instances of Ipamd for TLC: two nodes, each with one pod; the first     *)
(* node starts with every address in its pool.                             *)
EXTENDS Ipamd

CONSTANTS n1, n2, p1, p2

MCNode == {n1, n2}
MCPod == {p1, p2}
MCPodNode == [p \in MCPod |-> IF p = p1 THEN n1 ELSE n2]
MCIP == 1..2
MCInitPool == [n \in MCNode |-> IF n = n1 THEN MCIP ELSE {}]

(* A smaller instance for liveness: one address that the pod of the second *)
(* node must borrow from the first.                                        *)
MCOneIP == {1}
MCOneIPPool == [n \in MCNode |-> IF n = n1 THEN MCOneIP ELSE {}]
MCBorrower == {p2}
MCBorrowerNode == [p \in MCBorrower |-> n2]

(* What the invariants say holds up to the first hazardous event. *)
NoHazardYet == hazards = {}
=============================================================================
