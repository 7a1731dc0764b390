----------------------------- MODULE MCStaticIp -----------------------------
(* Instances of StaticIp for TLC.                                          *)
EXTENDS StaticIp, TLC

CONSTANTS n1, n2, ip1, ip2

Symmetry == Permutations(Nodes) \cup Permutations(IPs)
=============================================================================
