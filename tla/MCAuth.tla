------------------------------- MODULE MCAuth ---------------------------------
(***************************************************************************)
(* Instance of Auth for TLC.  A tick is the life of a ceremony, the        *)
(* longest prompt and the window of the login routes; two ticks are the    *)
(* hour of the registration routes, of which one admits fewer requests to  *)
(* begin than to finish, as in the code.                                   *)
(***************************************************************************)
EXTENDS Auth, TLC

CONSTANTS t1, t2, c1, alice, Alice, s1, s2, k1, k2

MCPolicy ==
  [n \in {"register_begin", "register_finish", "login_begin", "login_finish"} |->
     CASE n = "register_begin"  -> [limit |-> 1, burst |-> 1, window |-> 2]
       [] n = "register_finish" -> [limit |-> 2, burst |-> 2, window |-> 2]
       [] n = "login_begin"     -> [limit |-> 1, burst |-> 1, window |-> 1]
       [] n = "login_finish"    -> [limit |-> 1, burst |-> 2, window |-> 1]]

MCLower == [n \in {alice, Alice} |-> alice]

OneBrowser == [t \in Slots |-> c1]
=============================================================================
