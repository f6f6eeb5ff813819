------------------------------ MODULE RedisCall ------------------------------
(***************************************************************************)
(* What the daemon takes a call of a Redis helper to be: it names a        *)
(* database and one or two commands, each command is run at most once, in  *)
(* that database and in order, and the helper returns 0 only if all were.  *)
(* When it returns an error nothing is said of how many were run: this is  *)
(* "lost" and "err" of SignupDaemon and IpLimiter.                         *)
(***************************************************************************)
EXTENDS Integers, Sequences

CONSTANTS Worker, Db, Nil

VARIABLES
    call,   \* per worker: the call in progress
    ran,    \* per worker: the databases its commands have run in, in order
    result  \* per worker: what its last call returned

absVars == <<call, ran, result>>

\* steps is 2 for an HSET with a TTL, which is followed by EXPIRE.
Call == [db : Db, steps : {1, 2}]

AbsInit ==
    /\ call = [w \in Worker |-> Nil]
    /\ ran = [w \in Worker |-> <<>>]
    /\ result = [w \in Worker |-> "none"]

AbsBegin(w) ==
    /\ call[w] = Nil
    /\ \E c \in Call : call' = [call EXCEPT ![w] = c]
    /\ ran' = [ran EXCEPT ![w] = <<>>]
    /\ result' = [result EXCEPT ![w] = "none"]

AbsRun(w) ==
    /\ call[w] # Nil
    /\ Len(ran[w]) < call[w].steps
    /\ ran' = [ran EXCEPT ![w] = Append(@, call[w].db)]
    /\ UNCHANGED <<call, result>>

AbsReturn(w) ==
    /\ call[w] # Nil
    /\ \E r \in {"ok", "error"} :
         /\ r = "ok" => Len(ran[w]) = call[w].steps
         /\ result' = [result EXCEPT ![w] = r]
    /\ call' = [call EXCEPT ![w] = Nil]
    /\ UNCHANGED ran

AbsNext == \E w \in Worker : AbsBegin(w) \/ AbsRun(w) \/ AbsReturn(w)

AbsSpec == AbsInit /\ [][AbsNext]_absVars
=============================================================================
