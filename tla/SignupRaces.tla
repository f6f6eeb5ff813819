----------------------------- MODULE SignupRaces -----------------------------
(***************************************************************************)
(* What the daemon promises a request that nobody disturbed, while other   *)
(* threads serve other requests beside it, commands fail and the process   *)
(* dies.                                                                   *)
(*                                                                         *)
(* The globals DbIdx_ipCountX and buf1 are unlocked and an account is      *)
(* saved by two commands, so a request may suffer from its neighbours.     *)
(* Two history variables, which no action of the daemon reads, record what *)
(* happened to each request and to each account; the properties say that a *)
(* request suffers from nothing else.                                      *)
(***************************************************************************)
EXTENDS SignupDaemon

VARIABLES
    met,    \* history, per worker: what others did to the request in hand
    untimed \* history: accounts whose EXPIRE may not have been carried out

rvars == <<vars, met, untimed>>

Disturbance == {"type", "buffer", "account"}

\* Another thread accepts a request of another type while w serves its own.
TypeChanged(w) ==
    Busy(w) /\ \E x \in Worker \ {w} :
                  ~Busy(x) /\ req'[x] # Nil /\ req'[x].type # req[w].type

\* Another thread is about to write buf1 while w has its cookie to put there
\* or to send from there.
BufferShared(w) ==
    pc'[w] \in {"buf", "send"} /\ \E x \in Worker \ {w} : pc'[x] = "buf"

\* Another thread sends its HSET for the user while w is between the two
\* commands that save that user's account.
AccountWritten(w) ==
    pc[w] = "userExp" /\ \E x \in Worker \ {w} :
                            pc[x] = "hset" /\ pc'[x] # "hset" /\ req[x].user = req[w].user

MetNow(w) ==
    IF pc'[w] = "accept" THEN {}
    ELSE met[w] \cup {d \in Disturbance : \/ d = "type" /\ TypeChanged(w)
                                          \/ d = "buffer" /\ BufferShared(w)
                                          \/ d = "account" /\ AccountWritten(w)}

\* A signup for u ends between HSET and EXPIRE, or after an EXPIRE that was
\* not confirmed: the thread gives up, or the process dies.
GivenUp(u) ==
    \E w \in Worker :
        /\ req[w] # Nil /\ req[w].user = u
        /\ \/ pc[w] = "hset" /\ pc'[w] = "close"
           \/ pc[w] = "userExp" /\ pc'[w] # "userExp" /\ status'[w] # 200

Confirmed(u) ==
    \E w \in Worker :
        req[w] # Nil /\ req[w].user = u /\ pc[w] = "userExp" /\ status'[w] = 200

RInit == Init /\ met = [w \in Worker |-> {}] /\ untimed = {}

RNext ==
    /\ Next
    /\ met' = [w \in Worker |-> MetNow(w)]
    /\ untimed' = {u \in User : /\ users'[u] # Nil
                                /\ u \in untimed \/ GivenUp(u)
                                /\ ~Confirmed(u)}

RSpec == RInit /\ [][RNext]_rvars
-----------------------------------------------------------------------------
\* Every Redis command of a request goes to the database of the request's
\* type, unless another thread accepted a request of another type meanwhile
\* (http_server_main_loop.c:22-28 and the reads of DbIdx_ipCountX).
UndisturbedUsesOwnDatabase ==
    \A w \in Worker : AtCommand(w) /\ "type" \notin met[w] =>
        dbIdx[w] = DbIdx_ipCount[req[w].type]

\* A client is sent the cookie made for its own session, unless another
\* thread was about to write buf1 between the writing and the sending
\* (send_response_sess.c:3-27).
UnsharedCookieIsOwn ==
    \A w \in Worker : setCookie[w] # Nil /\ "buffer" \notin met[w] =>
        setCookie[w] = NewCookie(w)

\* When a signup is answered 200 the account holds what that signup submitted
\* and will expire, unless another thread wrote the same account after this
\* one did (handler lines 111-118): keys that expire, lost replies and
\* earlier signups of the same user do not matter.
UndisturbedSignupIsStored ==
    [][\A w \in Worker :
         pc[w] = "userExp" /\ status'[w] = 200 /\ "account" \notin met[w] =>
           users'[req[w].user] = [hash |-> req[w].passwd, salt |-> req[w].salt, ttl |-> TRUE]
      ]_rvars

\* An account without a TTL is one whose EXPIRE a thread is about to send, or
\* one whose last signup was given up between HSET and EXPIRE or not confirmed
\* (redis_set_hset_key_value.c:32-121): no order of two signups, of an expiry
\* and of a later HSET leaves one without a TTL in another way.
TtlMissingOnlyByFault ==
    \A u \in User : users[u] # Nil /\ ~users[u].ttl =>
        u \in untimed \/ \E w \in Worker : pc[w] = "userExp" /\ req[w].user = u
=============================================================================
