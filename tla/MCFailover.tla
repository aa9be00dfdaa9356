----------------------------- MODULE MCFailover -----------------------------
(* Instances of Failover for TLC: a discovered and a manual model share the  *)
(* keys of their platform.                                                   *)
EXTENDS Failover

CONSTANTS m1, m2, k1, k2, r1, r2

SharedPool == [m \in Rapis |-> Keys]
=============================================================================
