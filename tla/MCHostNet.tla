----------------------------- MODULE MCHostNet -----------------------------
(* Instances of HostNet for TLC.                                           *)
EXTENDS HostNet

CONSTANTS p1, p2, s1, s2, s3, u1, u2, a1, a2

MCPodOf == (s1 :> p1) @@ (s2 :> p1) @@ (s3 :> p2)
MCNicOf == (s1 :> u1) @@ (s2 :> Master) @@ (s3 :> u2)
Entry(proto, port, host) == [proto |-> proto, port |-> port, host |-> host]
MCPortMaps ==
  (p1 :> <<Entry("tcp", 80, ""), Entry("udp", 53, "v4")>>)
  @@ (p2 :> <<Entry("tcp", 81, "v6"), Entry("tcp", 80, "")>>)

Symmetry == Permutations(Addr)
=============================================================================
