----------------------------- MODULE MCUserMove ------------------------------
(***************************************************************************)
(* Instances of UserMove for TLC.  The files stand for those of the        *)
(* repository: 001 and 002 create tables, 003 rebuilds the drafts, 006 and *)
(* 008 add columns to invoices, 009 to the drafts; 005 and 006 of the auth *)
(* database.                                                               *)
(***************************************************************************)
EXTENDS UserMove

CONSTANTS server, tool, e1, r1, n1, n2, d1, k1, k2

MCFiles ==
  [user |-> <<[kind |-> "create",  needs |-> {},  widens |-> FALSE],
              [kind |-> "rebuild", needs |-> {1}, widens |-> FALSE],
              [kind |-> "columns", needs |-> {1}, widens |-> TRUE]>>,
   auth |-> <<[kind |-> "create",  needs |-> {},  widens |-> FALSE],
              [kind |-> "columns", needs |-> {1}, widens |-> FALSE]>>]

MCOpeners == [user |-> {server, tool}, auth |-> {server}]
=============================================================================
