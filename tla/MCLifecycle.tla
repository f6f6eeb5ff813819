---------------------------- MODULE MCLifecycle ----------------------------
(* A small instance of Lifecycle. *)
EXTENDS Lifecycle

CONSTANTS t1, t2, c1, c2, c3
=============================================================================
