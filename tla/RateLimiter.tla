----------------------------- MODULE RateLimiter ------------------------------
(***************************************************************************)
(* AuthRateLimiter: one bucket per route and client address, counting the  *)
(* requests of a window that starts with the first of them.                *)
(*                                                                         *)
(* A bucket keeps how long its window still lasts instead of when it ends, *)
(* and one whose window is over is forgotten: allow treats it as absent.   *)
(* (The map of the code keeps it; no entry is ever deleted.)               *)
(***************************************************************************)
EXTENDS Integers

CONSTANTS
  Clients,   \* client addresses
  Policy     \* policies: limit, burst and window of each route

Routes == DOMAIN Policy

ASSUME PolicyAssumption ==
  \A n \in Routes : Policy[n] \in [limit : Nat \ {0}, burst : Nat, window : Nat \ {0}]

VARIABLE bucket   \* AuthRateLimiter.buckets

NoBucket == [count |-> 0, left |-> 0]

LimiterInit == bucket = [n \in Routes |-> [c \in Clients |-> NoBucket]]

\* The larger of Limit and Burst.
Quota(n) == IF Policy[n].burst > Policy[n].limit THEN Policy[n].burst ELSE Policy[n].limit

\* Mutant: the last request of the quota is refused.
ExhaustedEarly(n, c) == bucket[n][c].left > 0 /\ bucket[n][c].count + 1 >= Quota(n)

\* Mutant: one request more than the quota is let in.
ExhaustedLate(n, c) == bucket[n][c].left > 0 /\ bucket[n][c].count > Quota(n)

Exhausted(n, c) == bucket[n][c].left > 0 /\ bucket[n][c].count >= Quota(n)

\* allow returns true: the request opens a window or is one more of it.
Admit(n, c) ==
  /\ ~ Exhausted(n, c)
  /\ bucket' = [bucket EXCEPT ![n][c] =
       IF @.left = 0 THEN [count |-> 1, left |-> Policy[n].window]
                     ELSE [count |-> @.count + 1, left |-> @.left]]

\* allow returns false: the middleware answers 429 and the handler never runs.
Refuse(n, c) ==
  /\ Exhausted(n, c)
  /\ UNCHANGED bucket

\* A unit of time passes for the windows.
Elapse ==
  bucket' = [n \in Routes |-> [c \in Clients |->
    IF bucket[n][c].left > 1 THEN [bucket[n][c] EXCEPT !.left = @ - 1] ELSE NoBucket]]

\* The buckets live in memory.
Forget == bucket' = [n \in Routes |-> [c \in Clients |-> NoBucket]]

BucketTypeOK ==
  /\ DOMAIN bucket = Routes
  /\ \A n \in Routes :
       bucket[n] \in [Clients -> [count : 0 .. Quota(n), left : 0 .. Policy[n].window]]

=============================================================================
