---------------------------- MODULE MCMultiStore -----------------------------
(***************************************************************************)
(* Instances of MultiStore for TLC.  IdleMin is two ticks; a quick worker  *)
(* keeps its store for at most as long, a slow job for longer: ten images  *)
(* of 120 s each are twice the ten minutes of the sweeper.                 *)
(***************************************************************************)
EXTENDS MultiStore

CONSTANTS u1, u2, u3, r1, r2, j1, j2

-----------------------------------------------------------------------------
Slow == [w \in Workers |-> IF w \in Jobs THEN 2 * IdleMin ELSE IdleMin]

=============================================================================
