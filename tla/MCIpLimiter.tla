----------------------------- MODULE MCIpLimiter -----------------------------
(* Small instances of IpLimiter. *)
EXTENDS IpLimiter

CONSTANTS w1, w2, i1
=============================================================================
