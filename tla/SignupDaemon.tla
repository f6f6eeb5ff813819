---------------------------- MODULE SignupDaemon ----------------------------
(***************************************************************************)
(* The signup/login/admin daemon: a fixed set of worker threads that each  *)
(* accept one connection, serve its one request to the end, and go back to *)
(* accept (http_server_main_loop.c, http_server_main_loop_handler.c).      *)
(*                                                                         *)
(* The threads share two things.  One is Redis, where every command is     *)
(* atomic: one action here is one Redis command together with the local    *)
(* computation that follows it.  The other is process memory:              *)
(* DbIdx_ipCountX, the database index of the request in hand, and buf1,    *)
(* the text of the session cookie, are ordinary globals.  A read or a      *)
(* write of either is a step of its own, so that other threads can come in *)
(* between.  What the threads do not share is kept per worker.             *)
(*                                                                         *)
(* The request counters of redis_check_ip are in module IpLimiter; here    *)
(* the count may let any request pass or refuse it.                        *)
(***************************************************************************)
EXTENDS Integers, FiniteSets

CONSTANTS
    Worker,             \* the threads created by main
    User,               \* usernames, in lower case
    Ip,                 \* client addresses
    Addr,               \* the bytes of a heap address, as a key name
    Token,              \* 32-character hex strings: session ids and salts
    Passwd,             \* 64-character hex strings: what clients submit
    LoginHash(_, _, _), \* argon2id+sha256 of a session id, a user and a hash
    SessPairs,          \* <<sesv, sess>> that gen_a_new_md5sum may return
    AdminUser,          \* users with an adminUser: key, written by others
    Requests,           \* the requests clients may send
    Outcomes,           \* how a Redis command may end
    MayCrash,           \* whether the process may die and be restarted
    Garbled,            \* the text of a buf1 written by two threads at once
    Nil                 \* no value

PostType == {"signup", "login", "admin"}

\* A request as the daemon sees it.  type "other" is a path that does not
\* name a post type; body "bad" is one parse_session_json refuses, "new" one
\* with neither passwd nor salt, "submit" one with both.
Request ==
    [type : PostType \cup {"other"}, ip : Ip, user : User,
     body : {"none", "bad", "new", "submit"},
     salt : Token \cup {Nil}, cookie : Token \cup {Nil}, passwd : Passwd \cup {Nil}]

ASSUME ConstAssumption ==
    /\ Requests \subseteq Request
    /\ \A r \in Requests : r.body = "submit" => r.salt # Nil /\ r.passwd # Nil
    /\ SessPairs \subseteq Token \X Token
    /\ AdminUser \subseteq User
    /\ Outcomes \subseteq {"ok", "lost", "err"}
    /\ MayCrash \in BOOLEAN
    /\ Nil \notin Requests /\ Nil \notin SessPairs /\ Nil \notin Token \cup Passwd
    /\ Addr \cap Ip = {}        \* at most 6 bytes, too short for an address

\* Redis databases (common.h).  Accounts live in database 0.
DbIdx_ipCount == [signup |-> 5, login |-> 1, admin |-> 12]
DbIndex == {5, 1, 12}

\* A cookie as sent: which {type}_sess it sets, and to what.
Cookie == [type : PostType, sess : Token]
Session == [db : DbIndex, type : PostType, user : User, sesv : Token, sess : Token]
Account == [hash : Passwd, salt : Token, ttl : BOOLEAN]
Label ==
    {"accept", "ipDb", "okExists", "count", "sessDb", "sessSet", "saltGet", "buf",
     "send", "getDb", "sessGet", "userExists", "okDb", "okSet", "hset", "userExp",
     "hashGet", "verify", "close"}

VARIABLES
    DbIdx_ipCountX, \* process memory: database of the last accepted request
    buf1,           \* process memory: the session cookie's text
    pc,             \* per worker: what it does next
    req,            \* per worker: the request in hand
    dbIdx,          \* per worker: the argument a Redis helper was called with
    new,            \* per worker: signup_sesv and signup_sess
    hash,           \* per worker: the stored hash read for a login
    status,         \* per worker: the status sent, 0 while none is
    setCookie,      \* per worker: the session cookie sent
    okKeys,         \* Redis: signupOK keys, with the ip each was set for
    sessions,       \* Redis: {type}_sess:{user}:{sesv} keys and their values
    users,          \* Redis: loginUser:{user}, and whether it has a TTL
    issued,         \* history: every session ever stored
    stored          \* history: every <<user, hash>> ever stored

memory == <<DbIdx_ipCountX, buf1>>
local  == <<pc, req, dbIdx, new, hash, status, setCookie>>
redis  == <<okKeys, sessions, users>>
past   == <<issued, stored>>
vars   == <<memory, local, redis, past>>
-----------------------------------------------------------------------------
Init ==
    /\ DbIdx_ipCountX = -1
    /\ buf1 = Nil
    /\ pc = [w \in Worker |-> "accept"]
    /\ req = [w \in Worker |-> Nil]
    /\ dbIdx = [w \in Worker |-> -1]
    /\ new = [w \in Worker |-> Nil]
    /\ hash = [w \in Worker |-> Nil]
    /\ status = [w \in Worker |-> 0]
    /\ setCookie = [w \in Worker |-> Nil]
    /\ okKeys = {}
    /\ sessions = {}
    /\ users = [u \in User |-> Nil]
    /\ issued = {}
    /\ stored = {}

Goto(w, l) == pc' = [pc EXCEPT ![w] = l]

\* send_response without a session cookie; the caller then returns.
Respond(w, code) ==
    /\ status' = [status EXCEPT ![w] = code]
    /\ Goto(w, "close")

\* Mutant: the caller returns its error code and nobody sends it.
Refuse_Silent(w) == Goto(w, "close") /\ UNCHANGED status

\* Every error path of the handler but the one after sess_handle_new_request.
Refuse(w) == Respond(w, 422)

\* A Redis helper returns an error unless the command ran and its reply came
\* back.  "lost": it ran, the reply did not arrive.  "err": it did not run.
Ran(o) == o # "err"
-----------------------------------------------------------------------------
\* Mutant: the database is chosen once, for the first request.
PathDb_Once(r) == IF DbIdx_ipCountX = -1 THEN DbIdx_ipCount[r.type] ELSE DbIdx_ipCountX

\* Mutant: the neighbouring table, DbIdx_salt, is used.
PathDb_Salt(r) == [signup |-> -1, login |-> 0, admin |-> 10][r.type]

PathDb(r) == DbIdx_ipCount[r.type]

\* One connection is accepted and its request read; check_post_type_path
\* fails and leaves everything as it is, or sets the type and the database.
Accept(w) ==
    /\ pc[w] = "accept"
    /\ \E r \in Requests :
         IF r.type = "other"
         THEN Refuse(w) /\ UNCHANGED <<req, DbIdx_ipCountX>>
         ELSE /\ req' = [req EXCEPT ![w] = r]
              /\ DbIdx_ipCountX' = PathDb(r)
              /\ Goto(w, "ipDb")
              /\ UNCHANGED status
    /\ UNCHANGED <<buf1, dbIdx, new, hash, setCookie, redis, past>>

\* DbIdx_ipCountX is read as the argument of a call, before the command of
\* that call is sent: for redis_check_ip, for the SET and the GET of a
\* session, and for the SET of signupOK.
AfterLoad == [ipDb |-> "okExists", sessDb |-> "sessSet", getDb |-> "sessGet", okDb |-> "okSet"]

LoadDb(w) ==
    /\ pc[w] \in DOMAIN AfterLoad
    /\ dbIdx' = [dbIdx EXCEPT ![w] = DbIdx_ipCountX]
    /\ Goto(w, AfterLoad[pc[w]])
    /\ UNCHANGED <<memory, req, new, hash, status, setCookie, redis, past>>

\* EXISTS {type}OK:{ip}.  Nothing writes loginOK or adminOK, and EXISTS of
\* one key is at most 1, so the limits of 6 and of 2 never apply.
OkBlocks(w) ==
    /\ req[w].type = "signup"
    /\ \E k \in okKeys : k.db = dbIdx[w] /\ k.name = req[w].ip

OkExists(w) ==
    /\ pc[w] = "okExists"
    /\ \E o \in Outcomes :
         IF o = "ok" /\ ~OkBlocks(w)
         THEN Goto(w, "count") /\ UNCHANGED status
         ELSE Refuse(w)
    /\ UNCHANGED <<memory, req, dbIdx, new, hash, setCookie, redis, past>>

\* INCR and EXPIRE of {type}Failed:{ip}:count and the comparison with the
\* limit (module IpLimiter); then the body is looked at.
Count(w) ==
    /\ pc[w] = "count"
    /\ \/ /\ req[w].body \in {"new", "submit"}
          /\ Goto(w, IF req[w].body = "new" THEN "sessDb" ELSE "getDb")
          /\ UNCHANGED status
       \/ Refuse(w)
    /\ UNCHANGED <<memory, req, dbIdx, new, hash, setCookie, redis, past>>
-----------------------------------------------------------------------------
(* A request for a new session (sess_handle_new_request).                  *)

\* SET {type}_sess:{user}:{sesv} {sess} EX 300.  Setting a key that exists
\* replaces its value.
SameKey(s, t) == s.db = t.db /\ s.type = t.type /\ s.user = t.user /\ s.sesv = t.sesv

SessSet(w) ==
    /\ pc[w] = "sessSet"
    /\ \E p \in SessPairs, o \in Outcomes :
         LET s == [db |-> dbIdx[w], type |-> req[w].type, user |-> req[w].user,
                   sesv |-> p[1], sess |-> p[2]]
         IN  /\ new' = [new EXCEPT ![w] = p]
             /\ IF Ran(o)
                THEN /\ sessions' = {t \in sessions : ~SameKey(s, t)} \cup {s}
                     /\ issued' = issued \cup
                          {[type |-> s.type, user |-> s.user, sesv |-> s.sesv, sess |-> s.sess]}
                ELSE UNCHANGED <<sessions, issued>>
             /\ Goto(w, IF o # "ok" THEN "close"
                        ELSE IF req[w].type = "login" THEN "saltGet" ELSE "buf")
    /\ UNCHANGED <<memory, req, dbIdx, hash, status, setCookie, okKeys, users, stored>>

\* HGET loginUser:{user} salt.  Without it the connection is closed with no
\* response.
SaltGet(w) ==
    /\ pc[w] = "saltGet"
    /\ \E o \in Outcomes :
         Goto(w, IF o = "ok" /\ users[req[w].user] # Nil THEN "buf" ELSE "close")
    /\ UNCHANGED <<memory, req, dbIdx, new, hash, status, setCookie, redis, past>>

\* The text of a session cookie.  buf1 is shared: with another thread inside
\* the same snprintf what is written, or copied out, may be a mixture.
NewCookie(w) == [type |-> req[w].type, sess |-> new[w][2]]
Overlap(w) == IF \E x \in Worker \ {w} : pc[x] = "buf" THEN {Garbled} ELSE {}

\* Mutant: the buffer is filled once.
BufText_Once(w) == IF buf1 = Nil THEN {NewCookie(w)} ELSE {buf1}

BufText(w) == {NewCookie(w)} \cup Overlap(w)

WriteBuf(w) ==
    /\ pc[w] = "buf"
    /\ buf1' \in BufText(w)
    /\ Goto(w, "send")
    /\ UNCHANGED <<DbIdx_ipCountX, req, dbIdx, new, hash, status, setCookie, redis, past>>

SendSess(w) ==
    /\ pc[w] = "send"
    /\ \E c \in {buf1} \cup Overlap(w) : setCookie' = [setCookie EXCEPT ![w] = c]
    /\ Respond(w, 200)
    /\ UNCHANGED <<memory, req, dbIdx, new, hash, redis, past>>
-----------------------------------------------------------------------------
(* A submit: the session first.                                            *)

\* Mutant: the cookie is not compared.
SessionHeld_AnyCookie(w) ==
    \E s \in sessions : s.db = dbIdx[w] /\ s.type = req[w].type /\ s.user = req[w].user
                        /\ s.sesv = req[w].salt

\* Mutant: the post type is not part of the key.
SessionHeld_AnyType(w) ==
    \E s \in sessions : s.user = req[w].user /\ s.sesv = req[w].salt
                        /\ s.sess = req[w].cookie

\* GET {type}_sess:{user}:{salt}, and the request's cookie equal to it.
SessionHeld(w) ==
    \E s \in sessions :
       /\ s.db = dbIdx[w]
       /\ s.type = req[w].type
       /\ s.user = req[w].user
       /\ s.sesv = req[w].salt
       /\ s.sess = req[w].cookie

SessGet(w) ==
    /\ pc[w] = "sessGet"
    /\ \E o \in Outcomes :
         IF o = "ok" /\ SessionHeld(w)
         THEN Goto(w, "userExists") /\ UNCHANGED status
         ELSE Refuse(w)
    /\ UNCHANGED <<memory, req, dbIdx, new, hash, setCookie, redis, past>>

\* EXISTS {type}User:{user} in database 0.  Accounts are loginUser keys;
\* nothing writes a signupUser key, and adminUser keys come from elsewhere.
UserFound(w) ==
    CASE req[w].type = "signup" -> FALSE
      [] req[w].type = "login"  -> users[req[w].user] # Nil
      [] req[w].type = "admin"  -> req[w].user \in AdminUser

UserExists(w) ==
    /\ pc[w] = "userExists"
    /\ \E o \in Outcomes :
         IF o = "ok" /\ (UserFound(w) <=> req[w].type # "signup")
         THEN /\ Goto(w, IF req[w].type = "signup" THEN "okDb" ELSE "hashGet")
              /\ UNCHANGED status
         ELSE Refuse(w)
    /\ UNCHANGED <<memory, req, dbIdx, new, hash, setCookie, redis, past>>
-----------------------------------------------------------------------------
(* A signup: the two records.                                              *)

\* SET signupOK:%s 1 EX 3600, where the argument is the char ** the handler
\* was given: the key is named by the bytes of the pointer it points to.  If
\* they hold a blank or a % the command is malformed and fails.
OkName(w) == Addr

OkSet(w) ==
    /\ pc[w] = "okSet"
    /\ \E n \in OkName(w), o \in Outcomes \cup {"err"} :
         LET k == [db |-> dbIdx[w], name |-> n, ip |-> req[w].ip]
         IN  /\ okKeys' = IF Ran(o)
                          THEN {j \in okKeys : j.db # k.db \/ j.name # n} \cup {k}
                          ELSE okKeys
             /\ IF o = "ok" THEN Goto(w, "hset") /\ UNCHANGED status ELSE Refuse(w)
    /\ UNCHANGED <<memory, req, dbIdx, new, hash, setCookie, sessions, users, past>>

\* HSET loginUser:{user} hash .. salt .. level 0 status active.  HSET on a
\* key that exists overwrites the fields and leaves its TTL alone.
HasTtl(u) == users[u] # Nil /\ users[u].ttl

\* Mutant: fields that exist are kept, as HSETNX would.
Written_KeepsOld(w) ==
    IF users[req[w].user] = Nil
    THEN [hash |-> req[w].passwd, salt |-> req[w].salt, ttl |-> FALSE]
    ELSE users[req[w].user]

Written(w) ==
    [hash |-> req[w].passwd, salt |-> req[w].salt, ttl |-> HasTtl(req[w].user)]

HSet(w) ==
    /\ pc[w] = "hset"
    /\ \E o \in Outcomes :
         /\ IF Ran(o)
            THEN /\ users' = [users EXCEPT ![req[w].user] = Written(w)]
                 /\ stored' = stored \cup {<<req[w].user, req[w].passwd>>}
            ELSE UNCHANGED <<users, stored>>
         /\ IF o = "ok" THEN Goto(w, "userExp") /\ UNCHANGED status ELSE Refuse(w)
    /\ UNCHANGED <<memory, req, dbIdx, new, hash, setCookie, okKeys, sessions, issued>>

\* Mutant: EXPIRE of another key.
Expiring_Other(u) == users[u]

\* EXPIRE loginUser:{user} 2592000, a command of its own.
Expiring(u) == [users[u] EXCEPT !.ttl = TRUE]

UserExpire(w) ==
    /\ pc[w] = "userExp"
    /\ \E o \in Outcomes :
         /\ IF Ran(o) /\ users[req[w].user] # Nil
            THEN users' = [users EXCEPT ![req[w].user] = Expiring(req[w].user)]
            ELSE UNCHANGED users
         /\ Respond(w, IF o = "ok" /\ users[req[w].user] # Nil THEN 200 ELSE 422)
    /\ UNCHANGED <<memory, req, dbIdx, new, hash, setCookie, okKeys, sessions, past>>
-----------------------------------------------------------------------------
(* A login, or an admin login: the password.                               *)

\* HGET loginUser:{user} hash, for both types.
HashGet(w) ==
    /\ pc[w] = "hashGet"
    /\ \E o \in Outcomes :
         IF o = "ok" /\ users[req[w].user] # Nil
         THEN /\ hash' = [hash EXCEPT ![w] = users[req[w].user].hash]
              /\ Goto(w, "verify")
              /\ UNCHANGED status
         ELSE Refuse(w) /\ UNCHANGED hash
    /\ UNCHANGED <<memory, req, dbIdx, new, setCookie, redis, past>>

\* Mutant: the result of the comparison is not looked at.
HashMatches_Ignored(w) == TRUE

\* calc_hash_for_login and the comparison with what the client sent.
HashMatches(w) == req[w].passwd = LoginHash(req[w].salt, req[w].user, hash[w])

\* HGET loginUser:{user} salt, only for its error, then the comparison.
Verify(w) ==
    /\ pc[w] = "verify"
    /\ \E o \in Outcomes :
         Respond(w, IF o = "ok" /\ users[req[w].user] # Nil /\ HashMatches(w)
                    THEN 200 ELSE 422)
    /\ UNCHANGED <<memory, req, dbIdx, new, hash, setCookie, redis, past>>

\* http_main_loop_clean_before_exit, and the locals going out of scope.
Close(w) ==
    /\ pc[w] = "close"
    /\ Goto(w, "accept")
    /\ req' = [req EXCEPT ![w] = Nil]
    /\ dbIdx' = [dbIdx EXCEPT ![w] = -1]
    /\ new' = [new EXCEPT ![w] = Nil]
    /\ hash' = [hash EXCEPT ![w] = Nil]
    /\ status' = [status EXCEPT ![w] = 0]
    /\ setCookie' = [setCookie EXCEPT ![w] = Nil]
    /\ UNCHANGED <<memory, redis, past>>
-----------------------------------------------------------------------------
(* The environment: keys reaching their TTL, and the process dying.        *)

ExpireOk(k) ==
    /\ okKeys' = okKeys \ {k}
    /\ UNCHANGED <<memory, local, sessions, users, past>>

ExpireSession(s) ==
    /\ sessions' = sessions \ {s}
    /\ UNCHANGED <<memory, local, okKeys, users, past>>

\* A user whose 30 days are over; only keys with a TTL expire.
ExpireUser(u) ==
    /\ HasTtl(u)
    /\ users' = [users EXCEPT ![u] = Nil]
    /\ UNCHANGED <<memory, local, okKeys, sessions, past>>

\* The process dies (SIGTERM, or SIGPIPE from a client that hung up before
\* its response) and is started again; Redis keeps its keys.
Crash ==
    /\ MayCrash
    /\ DbIdx_ipCountX' = -1
    /\ buf1' = Nil
    /\ pc' = [w \in Worker |-> "accept"]
    /\ req' = [w \in Worker |-> Nil]
    /\ dbIdx' = [w \in Worker |-> -1]
    /\ new' = [w \in Worker |-> Nil]
    /\ hash' = [w \in Worker |-> Nil]
    /\ status' = [w \in Worker |-> 0]
    /\ setCookie' = [w \in Worker |-> Nil]
    /\ UNCHANGED <<redis, past>>

Serve(w) ==
    \/ LoadDb(w) \/ OkExists(w) \/ Count(w)
    \/ SessSet(w) \/ SaltGet(w) \/ WriteBuf(w) \/ SendSess(w)
    \/ SessGet(w) \/ UserExists(w)
    \/ OkSet(w) \/ HSet(w) \/ UserExpire(w)
    \/ HashGet(w) \/ Verify(w)
    \/ Close(w)

Next ==
    \/ \E w \in Worker : Accept(w) \/ Serve(w)
    \/ \E k \in okKeys : ExpireOk(k)
    \/ \E s \in sessions : ExpireSession(s)
    \/ \E u \in User : ExpireUser(u)
    \/ Crash

Spec == Init /\ [][Next]_vars

\* A thread that is serving a request keeps running: the scheduler is fair
\* and every Redis command ends, by its reply or by its error.
Fairness == \A w \in Worker : WF_vars(Serve(w))
FairSpec == Spec /\ Fairness
-----------------------------------------------------------------------------
(* Properties.                                                             *)

Busy(w) == req[w] # Nil
AtCommand(w) == pc[w] \in Label \ ({"accept", "close"} \cup DOMAIN AfterLoad)

\* Every variable has its type.  A thread that waits for a connection holds
\* nothing of the previous one, a thread with a request in hand leaves the
\* database global set, and no Redis command goes to database -1.
TypeOK ==
    /\ DbIdx_ipCountX \in DbIndex \cup {-1}
    /\ buf1 \in Cookie \cup {Garbled, Nil}
    /\ pc \in [Worker -> Label]
    /\ req \in [Worker -> Requests \cup {Nil}]
    /\ dbIdx \in [Worker -> DbIndex \cup {-1}]
    /\ new \in [Worker -> SessPairs \cup {Nil}]
    /\ hash \in [Worker -> Passwd \cup {Nil}]
    /\ status \in [Worker -> {0, 200, 422}]
    /\ setCookie \in [Worker -> Cookie \cup {Garbled, Nil}]
    /\ okKeys \subseteq [db : DbIndex, name : Addr, ip : Ip]
    /\ sessions \subseteq Session
    /\ users \in [User -> Account \cup {Nil}]
    /\ issued \subseteq [type : PostType, user : User, sesv : Token, sess : Token]
    /\ stored \subseteq User \X Passwd
    /\ \A w \in Worker :
         /\ pc[w] = "accept" => ~Busy(w) /\ new[w] = Nil /\ hash[w] = Nil
                                /\ status[w] = 0 /\ setCookie[w] = Nil
         /\ Busy(w) => req[w].type # "other" /\ DbIdx_ipCountX \in DbIndex
         /\ AtCommand(w) => Busy(w) /\ dbIdx[w] \in DbIndex

\* Keys of one post type are all in that type's database: what a request
\* stores is where the next request of its type will look for it
\* (http_server_main_loop.c:22-28).
OwnDatabase ==
    /\ \A s \in sessions : s.db = DbIdx_ipCount[s.type]
    /\ \A k \in okKeys : k.db = DbIdx_ipCount["signup"]

\* An account exists only because a signup session was once given out for
\* its user name and its salt, whatever fails, restarts or expires between.
AccountsComeFromSessions ==
    \A u \in User : users[u] # Nil =>
        \E i \in issued : i.type = "signup" /\ i.user = u /\ i.sesv = users[u].salt

\* A submit is answered 200 only to a client that named a session of its type
\* and user and held that session's cookie (handler lines 59-82).
HeldSession(w) ==
    \E i \in issued : /\ i.type = req[w].type
                      /\ i.user = req[w].user
                      /\ i.sesv = req[w].salt
                      /\ i.sess = req[w].cookie

AcceptedSubmitHeldSession ==
    \A w \in Worker :
        status[w] = 200 /\ Busy(w) /\ req[w].body = "submit" => HeldSession(w)

\* A login or admin login is answered 200 only if the client computed the
\* login hash from a hash some signup stored for that user
\* (handler lines 120-151).
LoginProvesPassword ==
    \A w \in Worker :
        /\ status[w] = 200 /\ Busy(w)
        /\ req[w].body = "submit" /\ req[w].type # "signup"
        => \E h \in Passwd : /\ <<req[w].user, h>> \in stored
                             /\ req[w].passwd = LoginHash(req[w].salt, req[w].user, h)

\* The request is served, and a response was sent.  One request may do without:
\* that for a new session, once its key was stored or tried to be.
Responded(w) ==
    /\ Busy(w) /\ pc[w] = "close"
    /\ status[w] # 0 \/ (req[w].body = "new" /\ new[w] # Nil)

\* Every request that was read is answered, whichever command fails and
\* whatever other requests leave behind, unless the process dies first, which
\* leaves the database global unset (handler 42-154, sess_handle_new_request.c:11-23).
RequestsAreAnswered ==
    \A w \in Worker : Busy(w) ~> Responded(w) \/ DbIdx_ipCountX = -1

\* A signup never overwrites an account that exists.
NoDoubleUsername ==
    [][\A u \in User : users[u] # Nil /\ users'[u] # Nil =>
         users'[u].hash = users[u].hash /\ users'[u].salt = users[u].salt]_vars

\* No account is saved for an IP while the record of an earlier signup from
\* that IP, which lives an hour, is still there.
OneSignupPerIp ==
    [][\A w \in Worker : pc[w] = "okSet" /\ pc'[w] = "hset" =>
         \A k \in okKeys : k.ip # req[w].ip]_vars
=============================================================================
