------------------------------ MODULE IpLimiter ------------------------------
(***************************************************************************)
(* The per-IP limit of redis_check_ip.c and redis_increment.c: a counter   *)
(* {type}Failed:{ip}:count, raised by one on every request and given a TTL *)
(* of SIGNUP_FAILED_TTL seconds by a second command.  Several threads run  *)
(* the check at once, and time passes in ticks of which Window make up     *)
(* that TTL.                                                               *)
(*                                                                         *)
(* A request is let through when the number INCR returned is at most       *)
(* MaxAllowed, so a counter above the largest limit only ever says "no":   *)
(* counts stop at one more than the limit of their type.                   *)
(***************************************************************************)
EXTENDS Integers, FiniteSets

CONSTANTS
    Worker, Ip,
    Types,      \* the post types that clients use
    Window,     \* SIGNUP_FAILED_TTL in ticks
    Outcomes,   \* how a Redis command may end, as in SignupDaemon
    Found,      \* what EXISTS {type}OK:{ip} may return
    MayCrash,   \* whether the process may die
    Nil         \* no value

ASSUME LimiterAssumption ==
    /\ IsFiniteSet(Worker)
    /\ Types \subseteq {"signup", "login", "admin"}
    /\ Window \in Nat \ {0}
    /\ Outcomes \subseteq {"ok", "lost", "err"}
    /\ Found \subseteq {0, 1}
    /\ MayCrash \in BOOLEAN
    /\ Nil \notin Types \X {5, 1, 12} \X Ip
    /\ Nil \notin [n : Nat, ttl : Int]

VARIABLES
    DbIdx_ipCountX, \* process memory: database of the last accepted request
    counter, \* Redis: per key its count and TTL, or Nil
    pc,      \* per worker: the next command of its call
    key,     \* per worker: the counter its call is about
    blocked, \* per worker: the OK key forbids this request
    count,   \* per worker: what INCR returned
    passes,  \* history: requests let through in the counter's lifetime
    current, \* history: per worker, its INCR was in that lifetime
    faulty   \* history: a command has failed, or the process has died

redis == counter
memory == DbIdx_ipCountX
call  == <<pc, key, blocked, count>>
past  == <<passes, current, faulty>>
vars  == <<memory, redis, call, past>>

DbIdx_ipCount == [signup |-> 5, login |-> 1, admin |-> 12]
Key == Types \X {5, 1, 12} \X Ip
Forever == 0 - 1  \* the TTL of a key without one

\* At most this many requests until the counter is gone (lines 34-36).
MaxAllowed == [signup |-> 5, login |-> 10, admin |-> 2]
Limit(k) == MaxAllowed[k[1]]
Smaller(a, b) == IF a < b THEN a ELSE b
-----------------------------------------------------------------------------
Init ==
    /\ DbIdx_ipCountX = -1
    /\ counter = [k \in Key |-> Nil]
    /\ pc = [w \in Worker |-> "idle"]
    /\ key = [w \in Worker |-> Nil]
    /\ blocked = [w \in Worker |-> FALSE]
    /\ count = [w \in Worker |-> 0]
    /\ passes = [k \in Key |-> 0]
    /\ current = [w \in Worker |-> FALSE]
    /\ faulty = FALSE

\* redis_check_ip returns, and its locals are gone.
Return(w) ==
    /\ pc' = [pc EXCEPT ![w] = "idle"]
    /\ key' = [key EXCEPT ![w] = Nil]
    /\ blocked' = [blocked EXCEPT ![w] = FALSE]
    /\ count' = [count EXCEPT ![w] = 0]
    /\ current' = [current EXCEPT ![w] = FALSE]

\* A request of a type is accepted, which sets the database global
\* (check_post_type_path.c:93); its key is yet to be named.
Accept(w) ==
    /\ pc[w] = "idle"
    /\ \E t \in Types, ip \in Ip :
         /\ DbIdx_ipCountX' = DbIdx_ipCount[t]
         /\ key' = [key EXCEPT ![w] = <<t, DbIdx_ipCount[t], ip>>]
    /\ pc' = [pc EXCEPT ![w] = "call"]
    /\ UNCHANGED <<redis, blocked, count, past>>

\* The handler reads the global as an argument and calls redis_check_ip.
Call(w) ==
    /\ pc[w] = "call"
    /\ key' = [key EXCEPT ![w][2] = DbIdx_ipCountX]
    /\ pc' = [pc EXCEPT ![w] = "exists"]
    /\ UNCHANGED <<memory, redis, blocked, count, past>>

Noted(o) == faulty' = (faulty \/ o # "ok")

\* EXISTS {type}OK:{ip} and the three limits on its answer.
OkBlocks(type, found) ==
    \/ type = "signup" /\ found # 0
    \/ type = "login"  /\ found > 6
    \/ type = "admin"  /\ found > 2

Exists(w) ==
    /\ pc[w] = "exists"
    /\ \E o \in Outcomes, found \in Found :
         /\ Noted(o)
         /\ IF o = "ok"
            THEN /\ blocked' = [blocked EXCEPT ![w] = OkBlocks(key[w][1], found)]
                 /\ pc' = [pc EXCEPT ![w] = "incr"]
                 /\ UNCHANGED <<key, count, current>>
            ELSE Return(w)
    /\ UNCHANGED <<memory, redis, passes>>

\* INCR creates the key without a TTL, or raises it and keeps its TTL.
Raised(k) ==
    IF counter[k] = Nil THEN [n |-> 1, ttl |-> Forever]
    ELSE [counter[k] EXCEPT !.n = Smaller(@ + 1, Limit(k) + 1)]

Incr(w) ==
    /\ pc[w] = "incr"
    /\ \E o \in Outcomes :
         /\ Noted(o)
         /\ counter' = IF o = "err" THEN counter
                       ELSE [counter EXCEPT ![key[w]] = Raised(key[w])]
         /\ IF o = "ok"
            THEN /\ count' = [count EXCEPT ![w] = counter'[key[w]].n]
                 /\ current' = [current EXCEPT ![w] = TRUE]
                 /\ pc' = [pc EXCEPT ![w] = "expire"]
                 /\ UNCHANGED <<key, blocked>>
            ELSE Return(w)
    /\ UNCHANGED <<memory, passes>>

\* Mutant: one request too many.
Over_Late(w) == count[w] > Limit(key[w]) + 1

Over(w) == count[w] > Limit(key[w])

\* Mutant: EXPIRE is sent before INCR, and finds no key the first time.
Renewed_Before(w) ==
    IF counter[key[w]] = Nil \/ count[w] = 1 THEN counter
    ELSE [counter EXCEPT ![key[w]].ttl = Window]

\* Mutant: the TTL is prolonged, not set.
Renewed_Added(w) ==
    IF counter[key[w]] = Nil THEN counter
    ELSE IF counter[key[w]].ttl = Forever THEN [counter EXCEPT ![key[w]].ttl = Window]
    ELSE [counter EXCEPT ![key[w]].ttl = @ + Window]

\* EXPIRE of a key that is gone does nothing and is not an error here.
Renewed(w) ==
    IF counter[key[w]] = Nil THEN counter
    ELSE [counter EXCEPT ![key[w]].ttl = Window]

Expire(w) ==
    /\ pc[w] = "expire"
    /\ \E o \in Outcomes :
         /\ Noted(o)
         /\ counter' = IF o = "err" THEN counter ELSE Renewed(w)
         /\ passes' = IF o = "ok" /\ ~blocked[w] /\ ~Over(w) /\ current[w]
                      THEN [passes EXCEPT ![key[w]] = Smaller(@ + 1, Limit(key[w]) + 1)]
                      ELSE passes
    /\ Return(w)
    /\ UNCHANGED memory
-----------------------------------------------------------------------------
\* One tick: every TTL goes down, and a key whose TTL is over is deleted.
Left(c) ==
    IF c = Nil \/ (c # Nil /\ c.ttl = 1) THEN Nil
    ELSE IF c.ttl = Forever THEN c
    ELSE [c EXCEPT !.ttl = @ - 1]

Tick ==
    /\ counter' = [k \in Key |-> Left(counter[k])]
    /\ passes' = [k \in Key |-> IF counter'[k] = Nil THEN 0 ELSE passes[k]]
    /\ current' = [w \in Worker |-> current[w] /\ counter'[key[w]] # Nil]
    /\ UNCHANGED <<memory, call, faulty>>

\* The process dies: calls end nowhere, Redis keeps the counters.
Crash ==
    /\ MayCrash
    /\ DbIdx_ipCountX' = -1
    /\ pc' = [w \in Worker |-> "idle"]
    /\ key' = [w \in Worker |-> Nil]
    /\ blocked' = [w \in Worker |-> FALSE]
    /\ count' = [w \in Worker |-> 0]
    /\ current' = [w \in Worker |-> FALSE]
    /\ faulty' = TRUE
    /\ UNCHANGED <<redis, passes>>

Step(w) == Call(w) \/ Exists(w) \/ Incr(w) \/ Expire(w)

Next ==
    \/ \E w \in Worker : Accept(w) \/ Step(w)
    \/ Tick
    \/ Crash

Spec == Init /\ [][Next]_vars

\* Time passes, and a call that has begun goes on.
FairSpec == Spec /\ WF_vars(Tick) /\ \A w \in Worker : WF_vars(Step(w))
-----------------------------------------------------------------------------
(* Properties.                                                             *)

\* Every variable has its type: a count stays within one of its limit, a key
\* in Redis has a whole tick to live, and an idle thread holds no call.
TypeOK ==
    /\ DbIdx_ipCountX \in {5, 1, 12, -1}
    /\ counter \in [Key -> [n : 1 .. 11, ttl : (1 .. Window) \cup {Forever}] \cup {Nil}]
    /\ \A k \in Key : counter[k] # Nil => counter[k].n <= Limit(k) + 1
    /\ pc \in [Worker -> {"idle", "call", "exists", "incr", "expire"}]
    /\ key \in [Worker -> Key \cup {Nil}]
    /\ \A w \in Worker : pc[w] = "idle" <=> key[w] = Nil
    /\ blocked \in [Worker -> BOOLEAN]
    /\ count \in [Worker -> 0 .. 11]
    /\ passes \in [Key -> 0 .. 11]
    /\ current \in [Worker -> BOOLEAN]
    /\ faulty \in BOOLEAN

\* While a counter lives it lets through at most its limit, however many
\* threads check at once and whatever is lost (redis_check_ip.c:30-43).
AtMostMaxAllowed == \A k \in Key : passes[k] <= Limit(k)

\* Until something fails, a counter without a TTL is one whose EXPIRE some
\* thread is about to send (redis_increment.c:15-24).
CounterExpires ==
    ~faulty => \A k \in Key : counter[k] # Nil /\ counter[k].ttl = Forever =>
        \E w \in Worker : pc[w] = "expire" /\ key[w] = k

\* If nothing fails, an IP that stops asking is forgotten: its counter goes
\* away (redis_increment.c:24).
QuietIpIsForgotten ==
    []~faulty /\ <>[](\A w \in Worker : pc[w] = "idle") =>
        <>[](\A k \in Key : counter[k] = Nil)
=============================================================================
