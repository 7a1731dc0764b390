---------------------------- MODULE MCCniPlugin ----------------------------
(* Instances of CniPlugin for TLC: two pods with a sandbox each.           *)
EXTENDS CniPlugin

CONSTANTS p1, p2, s1, s2, i1, i2

MCPodOf == [s \in Sandbox |-> IF s = s1 THEN p1 ELSE p2]
============================================================================
