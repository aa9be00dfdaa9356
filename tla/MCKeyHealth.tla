---------------------------- MODULE MCKeyHealth ----------------------------
(* Instances of KeyHealth for TLC.  Requests are interchangeable, and so are *)
(* stored keys, in the runs without liveness.                                *)
EXTENDS KeyHealth, TLC

CONSTANTS k1, k2, r1, r2

Symmetric == Permutations(Keys) \cup Permutations(Reqs)
=============================================================================
