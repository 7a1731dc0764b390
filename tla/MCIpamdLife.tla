---------------------------- MODULE MCIpamdLife ----------------------------
(* Instances of IpamdLife for TLC.                                         *)
EXTENDS IpamdLife

CONSTANTS a1, a2, t1, t2, t3, t4
=============================================================================
