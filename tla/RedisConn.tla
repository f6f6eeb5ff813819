------------------------------ MODULE RedisConn ------------------------------
(***************************************************************************)
(* A Redis connection of a thread (redis.c) and the three helpers that     *)
(* send commands over it (redis_get_int.c, redis_get_hget_string.c,        *)
(* redis_set_hset_key_value.c).  ctx and current_dbIdx are thread_local:   *)
(* the code's idea of the connection.  link is the server's: the database  *)
(* selected on it, or Nil once the server has closed it.  The two differ   *)
(* between a failure and the next command.                                 *)
(***************************************************************************)
EXTENDS Integers, Sequences, FiniteSets

CONSTANTS
    Worker, Db,
    MaxFaults,  \* bound on the commands and connections that fail
    Nil

ASSUME ConnAssumption ==
    /\ Db \subseteq Nat
    /\ MaxFaults \in Nat
    /\ IsFiniteSet(Worker)
    /\ Nil \notin Nat /\ Nil \notin [db : Db, steps : {1, 2}]

VARIABLES
    call, ran, result,  \* as in RedisCall
    pc,             \* per worker: where its call is
    ctx,            \* per worker: its connection, "open" or "NULL"
    current_dbIdx,  \* per worker: the database it believes selected
    link,           \* per worker: the server's end of the connection
    reply,          \* per worker: the reply to the command sent
    faults,         \* history: failures of a command or connection so far
    failures        \* history: calls that ended for want of a reply

local  == <<ctx, current_dbIdx>>
bounds == <<faults, failures>>
vars   == <<call, ran, result, pc, local, link, reply, bounds>>

Call == [db : Db, steps : {1, 2}]

\* What the server selects on a new connection.
DefaultDb == 0

Init ==
    /\ call = [w \in Worker |-> Nil]
    /\ ran = [w \in Worker |-> <<>>]
    /\ result = [w \in Worker |-> "none"]
    /\ pc = [w \in Worker |-> "idle"]
    /\ ctx = [w \in Worker |-> "NULL"]
    /\ current_dbIdx = [w \in Worker |-> -1]
    /\ link = [w \in Worker |-> Nil]
    /\ reply = [w \in Worker |-> "none"]
    /\ faults = 0
    /\ failures = 0

Goto(w, l) == pc' = [pc EXCEPT ![w] = l]

\* The helper returns 0 or an error code.
Return(w, r) ==
    /\ result' = [result EXCEPT ![w] = r]
    /\ call' = [call EXCEPT ![w] = Nil]
    /\ Goto(w, "idle")

Fault == faults < MaxFaults /\ faults' = faults + 1
NoFault == UNCHANGED faults

\* Mutant: the connection that failed is kept.
Freed_Kept(w) == UNCHANGED <<ctx, link>>

\* Mutant: ctx is cleared, and the connection not closed.
Freed_Leak(w) == ctx' = [ctx EXCEPT ![w] = "NULL"] /\ UNCHANGED link

\* redisFree(ctx); ctx = NULL.
Freed(w) ==
    /\ ctx' = [ctx EXCEPT ![w] = "NULL"]
    /\ link' = [link EXCEPT ![w] = Nil]

\* A call ends because the server did not answer it.
Fail(w) ==
    /\ Return(w, "error")
    /\ failures' = failures + 1
    /\ UNCHANGED <<ran, reply>>

Begin(w) ==
    /\ pc[w] = "idle"
    /\ \E c \in Call : call' = [call EXCEPT ![w] = c]
    /\ ran' = [ran EXCEPT ![w] = <<>>]
    /\ result' = [result EXCEPT ![w] = "none"]
    /\ Goto(w, "connect")
    /\ UNCHANGED <<local, link, reply, bounds>>
-----------------------------------------------------------------------------
(* redis_connect_thread.                                                   *)

\* Mutant: any selected database will do.
RightDb_Any(w) == current_dbIdx[w] # -1

RightDb(w) == current_dbIdx[w] = call[w].db

\* There is a connection: use it, after a SELECT if need be.
Reuse(w) ==
    /\ pc[w] = "connect"
    /\ ctx[w] = "open"
    /\ Goto(w, IF RightDb(w) THEN "command" ELSE "select")
    /\ UNCHANGED <<call, ran, result, local, link, reply, bounds>>

\* There is none: connect, or fail to.
Connect(w) ==
    /\ pc[w] = "connect"
    /\ ctx[w] = "NULL"
    /\ current_dbIdx' = [current_dbIdx EXCEPT ![w] = -1]
    /\ \/ /\ ctx' = [ctx EXCEPT ![w] = "open"]
          /\ link' = [link EXCEPT ![w] = DefaultDb]
          /\ Goto(w, "auth")
          /\ NoFault
          /\ UNCHANGED <<call, ran, result, reply, failures>>
       \/ Fault /\ Fail(w) /\ UNCHANGED <<ctx, link>>

\* AUTH: answered with a status, or not.
Auth(w) ==
    /\ pc[w] = "auth"
    /\ \/ /\ link[w] # Nil
          /\ Goto(w, "select")
          /\ UNCHANGED <<call, ran, result, local, link, reply, bounds>>
       \/ /\ IF link[w] = Nil THEN NoFault ELSE Fault
          /\ Freed(w) /\ Fail(w)
          /\ UNCHANGED current_dbIdx

\* Mutant: only the first SELECT of a connection is remembered.
Remembered_First(w) == IF current_dbIdx[w] = -1 THEN call[w].db ELSE current_dbIdx[w]

Remembered(w) == call[w].db

\* SELECT: when it is not answered the connection is given up, and with it
\* what is believed of its database.
Select(w) ==
    /\ pc[w] = "select"
    /\ \/ /\ link[w] # Nil
          /\ link' = [link EXCEPT ![w] = call[w].db]
          /\ current_dbIdx' = [current_dbIdx EXCEPT ![w] = Remembered(w)]
          /\ Goto(w, "command")
          /\ UNCHANGED <<call, ran, result, ctx, reply, bounds>>
       \/ /\ IF link[w] = Nil THEN NoFault ELSE Fault
          /\ Freed(w) /\ Fail(w)
          /\ current_dbIdx' = [current_dbIdx EXCEPT ![w] = -1]
-----------------------------------------------------------------------------
(* The command, and EXPIRE after an HSET.                                  *)

AfterSend == [command |-> "answer", expire |-> "expired"]

\* The server runs the command in the selected database and its reply is
\* what the helper wants ("ok"), is of another kind ("odd": nil, a value of
\* the wrong length, EXPIRE of no key) or is lost; or the server refuses it
\* ("refused"), or it never arrives, as when hiredis finds it malformed.
Send(w) ==
    /\ pc[w] \in DOMAIN AfterSend
    /\ Goto(w, AfterSend[pc[w]])
    /\ \/ /\ link[w] # Nil
          /\ ran' = [ran EXCEPT ![w] = Append(@, link[w])]
          /\ \E r \in {"ok", "odd", "none"} :
               /\ reply' = [reply EXCEPT ![w] = r]
               /\ IF r = "none" THEN Fault ELSE NoFault
       \/ /\ link[w] # Nil
          /\ reply' = [reply EXCEPT ![w] = "refused"]
          /\ NoFault
          /\ UNCHANGED ran
       \/ /\ reply' = [reply EXCEPT ![w] = "none"]
          /\ IF link[w] = Nil THEN NoFault ELSE Fault
          /\ UNCHANGED ran
    /\ UNCHANGED <<call, result, local, link, failures>>

\* No reply: the connection is freed, and current_dbIdx left as it was.
NoReply(w) ==
    /\ pc[w] \in {"answer", "expired"}
    /\ reply[w] = "none"
    /\ Freed(w) /\ Fail(w)
    /\ UNCHANGED <<current_dbIdx, faults>>

\* A reply: an error, EXPIRE to follow, or the end.
Reply(w) ==
    /\ pc[w] \in {"answer", "expired"}
    /\ reply[w] # "none"
    /\ IF reply[w] = "ok" /\ pc[w] = "answer" /\ call[w].steps = 2
       THEN Goto(w, "expire") /\ UNCHANGED <<call, result>>
       ELSE Return(w, IF reply[w] = "ok" THEN "ok" ELSE "error")
    /\ UNCHANGED <<ran, local, link, reply, bounds>>

\* The server closes the connection: a restart, a limit, an idle timeout.
ServerCloses(w) ==
    /\ link[w] # Nil
    /\ link' = [link EXCEPT ![w] = Nil]
    /\ Fault
    /\ UNCHANGED <<call, ran, result, pc, local, reply, failures>>

Step(w) ==
    \/ Begin(w) \/ Reuse(w) \/ Connect(w) \/ Auth(w) \/ Select(w)
    \/ Send(w) \/ NoReply(w) \/ Reply(w)

Next == \E w \in Worker : Step(w) \/ ServerCloses(w)

Spec == Init /\ [][Next]_vars
-----------------------------------------------------------------------------
(* Properties.                                                             *)

\* Every variable has its type, and only a thread that has a connection is
\* past connecting.
TypeOK ==
    /\ call \in [Worker -> Call \cup {Nil}]
    /\ ran \in [Worker -> Seq(Db \cup {DefaultDb})]
    /\ result \in [Worker -> {"none", "ok", "error"}]
    /\ pc \in [Worker -> {"idle", "connect", "auth", "select", "command", "answer",
                          "expire", "expired"}]
    /\ ctx \in [Worker -> {"NULL", "open"}]
    /\ current_dbIdx \in [Worker -> Db \cup {-1}]
    /\ link \in [Worker -> Db \cup {DefaultDb, Nil}]
    /\ reply \in [Worker -> {"none", "ok", "odd", "refused"}]
    /\ faults \in 0 .. MaxFaults
    /\ failures \in Nat
    /\ \A w \in Worker :
         /\ pc[w] = "idle" <=> call[w] = Nil
         /\ pc[w] \notin {"idle", "connect"} => ctx[w] = "open"
         /\ ctx[w] = "NULL" => link[w] = Nil

\* The database a thread believes selected is the one its connection has,
\* whatever failed before, once the handshake is over (redis.c:9-21,57).
BelievedDb ==
    \A w \in Worker :
        ctx[w] = "open" /\ link[w] # Nil /\ pc[w] \notin {"auth", "select"}
        => link[w] = current_dbIdx[w]

\* A failed command or a closed connection costs the daemon at most one call:
\* after it the thread has no connection, and the next call makes a new one
\* (the redisFree of every helper).
FaultCostsOneCall == failures <= faults

\* A call runs each of its commands at most once, in order and in the database
\* it names, and returns 0 only if all were run: what SignupDaemon and
\* IpLimiter take a command to be.
Abs == INSTANCE RedisCall WITH
         Worker <- Worker, Db <- Db, Nil <- Nil,
         call <- call, ran <- ran, result <- result
RefinesRedisCall == Abs!AbsSpec
=============================================================================
