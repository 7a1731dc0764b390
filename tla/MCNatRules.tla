----------------------------- MODULE MCNatRules -----------------------------
(* Instances of NatRules for TLC: one pod of an older plugin, two new      *)
(* ones, two PodNetworkings.                                               *)
EXTENDS NatRules

CONSTANTS p1, p2, p3, n1, n2, i1, i2

MCNetOf == [p \in Pod |-> IF p = p2 THEN n2 ELSE n1]
MCLegacyIP == [p \in Legacy |-> i1]
MCCidrs == <<"10.0.0.0/8">>
=============================================================================
