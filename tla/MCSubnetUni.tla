---------------------------- MODULE MCSubnetUni ----------------------------
(* Instances of SubnetUni for TLC: two subnets, room for one UNI (2 vCPUs) *)
(* or two (4 vCPUs) beside the default interface.                          *)
EXTENDS SubnetUni

CONSTANTS a, b, u1, u2

MCSubnetIds == <<a, b>>
=============================================================================
