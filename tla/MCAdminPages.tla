---------------------------- MODULE MCAdminPages ----------------------------
(* A small instance of AdminPages: as many pages as users. *)
EXTENDS AdminPages

CONSTANTS u1, u2, l1, l2, a1

TwoUsers == <<u1, u2>>
=============================================================================
