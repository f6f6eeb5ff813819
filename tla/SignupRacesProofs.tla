-------------------------- MODULE SignupRacesProofs --------------------------
(***************************************************************************)
(* What the daemon promises an undisturbed request, for any number of      *)
(* threads, any Redis faults and any crashes.                              *)
(*                                                                         *)
(* The inductive invariant says how long each piece of shared state stays  *)
(* a request's own: the global and the argument read from it until another *)
(* type is accepted (OneDb), buf1 until another thread is about to write   *)
(* it (Unshared, OwnText), the account until another HSET (Saved).  A      *)
(* missing TTL always has someone to blame (TtlMissingOnlyByFault).  All   *)
(* of it rests on SignupDaemonProofs!IInv.                                 *)
(***************************************************************************)
EXTENDS SignupRaces, SignupDaemonProofs

OneDb ==
    \A w \in Worker : "type" \notin met[w] =>
        /\ Busy(w) => DbIdx_ipCountX = DbIdx_ipCount[req[w].type]
        /\ AtCommand(w) => dbIdx[w] = DbIdx_ipCount[req[w].type]

Unshared ==
    \A w \in Worker : pc[w] \in {"buf", "send"} /\ "buffer" \notin met[w] =>
        \A x \in Worker \ {w} : pc[x] # "buf"

OwnText ==
    \A w \in Worker :
        /\ pc[w] = "send" /\ "buffer" \notin met[w] => buf1 = NewCookie(w)
        /\ setCookie[w] # Nil =>
             pc[w] = "close" /\ ("buffer" \notin met[w] => setCookie[w] = NewCookie(w))

Saved ==
    \A w \in Worker :
        pc[w] = "userExp" /\ users[req[w].user] # Nil /\ "account" \notin met[w] =>
            /\ users[req[w].user].hash = req[w].passwd
            /\ users[req[w].user].salt = req[w].salt

RInv == OneDb /\ Unshared /\ OwnText /\ Saved /\ TtlMissingOnlyByFault
-----------------------------------------------------------------------------
USE DEF NewLabel, SignupLabel, LoginLabel, HeldLabel, SubmitLabel, Label, AfterLoad

\* The types the proofs below look at.
LEMMA Local ==
    ASSUME IInv
    PROVE  /\ pc \in [Worker -> Label] /\ req \in [Worker -> Requests \cup {Nil}]
           /\ dbIdx \in [Worker -> DbIndex \cup {-1}] /\ new \in [Worker -> SessPairs \cup {Nil}]
           /\ status \in [Worker -> {0, 200, 422}]
           /\ setCookie \in [Worker -> Cookie \cup {Garbled, Nil}]
           /\ users \in [User -> Account \cup {Nil}]
BY DEF IInv, TypeOK

\* A thread with something to do has a request in hand, and none has one
\* that waits for a connection.
LEMMA AtWork ==
    ASSUME IInv, NEW w \in Worker
    PROVE  /\ pc[w] \notin {"accept", "close"} =>
                Busy(w) /\ status[w] = 0 /\ req[w] \in Requests /\ req[w].user \in User
           /\ Busy(w) => pc[w] # "accept"
           /\ pc[w] = "accept" => setCookie[w] = Nil
BY RequestFields DEF IInv, Control, TypeOK

\* Two accounts with the same fields are one.
LEMMA AccountIs ==
    ASSUME NEW a \in Account, a.ttl = TRUE
    PROVE  a = [hash |-> a.hash, salt |-> a.salt, ttl |-> TRUE]
BY DEF Account

\* EXPIRE on an account sets its TTL and keeps the rest.
LEMMA TtlSet ==
    ASSUME NEW u \in User, users[u] \in Account
    PROVE  /\ Expiring(u) = [hash |-> users[u].hash, salt |-> users[u].salt, ttl |-> TRUE]
           /\ Expiring(u).ttl = TRUE
           /\ Expiring(u).hash = users[u].hash /\ Expiring(u).salt = users[u].salt
<1>1. Expiring(u) \in Account /\ Expiring(u).ttl = TRUE
  BY DEF Expiring, Account
<1>2. Expiring(u).hash = users[u].hash /\ Expiring(u).salt = users[u].salt
  BY DEF Expiring, Account
<1> QED BY <1>1, <1>2, AccountIs

\* A disturbance recorded stays recorded until the request is over.
LEMMA MetStays ==
    ASSUME RNext, NEW w \in Worker, pc'[w] # "accept"
    PROVE  /\ "type" \notin met'[w] => "type" \notin met[w] /\ ~TypeChanged(w)
           /\ "buffer" \notin met'[w] => "buffer" \notin met[w] /\ ~BufferShared(w)
           /\ "account" \notin met'[w] => "account" \notin met[w] /\ ~AccountWritten(w)
<1>1. met'[w] = met[w] \cup {d \in Disturbance : \/ d = "type" /\ TypeChanged(w)
                                                 \/ d = "buffer" /\ BufferShared(w)
                                                 \/ d = "account" /\ AccountWritten(w)}
  BY DEF RNext, MetNow
<1> QED BY <1>1, Zenon DEF Disturbance
-----------------------------------------------------------------------------
(* What a step of a thread leaves alone. *)

\* A step of one thread leaves the locals of the others as they are.
LEMMA OthersRest ==
    ASSUME IInv, NEW w \in Worker, Accept(w) \/ Serve(w), NEW v \in Worker, v # w
    PROVE  /\ pc'[v] = pc[v] /\ req'[v] = req[v] /\ dbIdx'[v] = dbIdx[v]
           /\ new'[v] = new[v] /\ status'[v] = status[v] /\ setCookie'[v] = setCookie[v]
<1> USE DEF Goto, Refuse, Respond
<1>1. CASE Accept(w)
  BY <1>1, Local DEF Accept
<1>2. CASE Close(w)
  BY <1>2, Local DEF Close
<1>3. CASE Serve(w) /\ ~Close(w)
  <2>1. \E l : pc' = [pc EXCEPT ![w] = l]
    BY <1>3 DEF Serve, LoadDb, OkExists, Count, SessSet, SaltGet, WriteBuf, SendSess, SessGet,
       UserExists, OkSet, HSet, UserExpire, HashGet, Verify
  <2>2. req' = req
    BY <1>3 DEF Serve, LoadDb, OkExists, Count, SessSet, SaltGet, WriteBuf, SendSess, SessGet,
       UserExists, OkSet, HSet, UserExpire, HashGet, Verify
  <2>3. dbIdx' = dbIdx \/ \E n : dbIdx' = [dbIdx EXCEPT ![w] = n]
    BY <1>3 DEF Serve, LoadDb, OkExists, Count, SessSet, SaltGet, WriteBuf, SendSess, SessGet,
       UserExists, OkSet, HSet, UserExpire, HashGet, Verify
  <2>4. new' = new \/ \E n : new' = [new EXCEPT ![w] = n]
    BY <1>3 DEF Serve, LoadDb, OkExists, Count, SessSet, SaltGet, WriteBuf, SendSess, SessGet,
       UserExists, OkSet, HSet, UserExpire, HashGet, Verify
  <2>5. status' = status \/ \E n : status' = [status EXCEPT ![w] = n]
    BY <1>3 DEF Serve, LoadDb, OkExists, Count, SessSet, SaltGet, WriteBuf, SendSess, SessGet,
       UserExists, OkSet, HSet, UserExpire, HashGet, Verify
  <2>6. setCookie' = setCookie \/ \E n : setCookie' = [setCookie EXCEPT ![w] = n]
    BY <1>3 DEF Serve, LoadDb, OkExists, Count, SessSet, SaltGet, WriteBuf, SendSess, SessGet,
       UserExists, OkSet, HSet, UserExpire, HashGet, Verify
  <2> QED BY <2>1, <2>2, <2>3, <2>4, <2>5, <2>6, Local
<1> QED BY <1>1, <1>2, <1>3

\* A step that is not one of the first three is that of a command, or the
\* write or the read of buf1: it leaves the database and its argument alone.
LEMMA Onward ==
    ASSUME NEW w \in Worker, Serve(w), ~LoadDb(w), ~Close(w)
    PROVE  AtCommand(w) /\ UNCHANGED <<DbIdx_ipCountX, req, dbIdx>>
BY DEF Serve, OkExists, Count, SessSet, SaltGet, WriteBuf, SendSess, SessGet, UserExists,
   OkSet, HSet, UserExpire, HashGet, Verify, memory, AtCommand

\* Only WriteBuf writes buf1 and goes to "send"; new is set before.
LEMMA TextRests ==
    ASSUME IInv, NEW w \in Worker, Accept(w) \/ Serve(w), ~WriteBuf(w)
    PROVE  buf1' = buf1 /\ pc'[w] # "send"
<1>1. buf1' = buf1
  BY DEF Serve, Accept, LoadDb, OkExists, Count, SessSet, SaltGet, SendSess, SessGet,
     UserExists, OkSet, HSet, UserExpire, HashGet, Verify, Close, memory
<1>2. \E l \in Label \ {"send"} : pc' = [pc EXCEPT ![w] = l]
  <2>1. CASE Accept(w)
    BY <2>1 DEF Accept, Goto, Refuse, Respond
  <2>2. CASE OkExists(w) \/ Count(w) \/ SaltGet(w) \/ SendSess(w)
    BY <2>2 DEF OkExists, Count, SaltGet, SendSess, Goto, Refuse, Respond
  <2>3. CASE SessGet(w) \/ UserExists(w) \/ OkSet(w) \/ HSet(w) \/ UserExpire(w)
           \/ HashGet(w) \/ Verify(w) \/ Close(w)
    BY <2>3 DEF SessGet, UserExists, OkSet, HSet, UserExpire, HashGet, Verify, Close, Goto,
       Refuse, Respond
  <2>4. CASE LoadDb(w)
    <3>1. pc[w] \in {"ipDb", "sessDb", "getDb", "okDb"}
      BY <2>4 DEF LoadDb
    <3>2. AfterLoad[pc[w]] \in {"okExists", "sessSet", "sessGet", "okSet"}
      BY <3>1
    <3>3. pc' = [pc EXCEPT ![w] = AfterLoad[pc[w]]]
      BY <2>4 DEF LoadDb, Goto
    <3> QED BY <3>2, <3>3
  <2>5. CASE SessSet(w)
    BY <2>5 DEF SessSet, Goto
  <2> QED BY <2>1, <2>2, <2>3, <2>4, <2>5 DEF Serve
<1>3. pc'[w] # "send"
  BY <1>2, Local
<1> QED BY <1>1, <1>3

\* Only SendSess sends a cookie, and Close forgets it.
LEMMA CookieRests ==
    ASSUME NEW w \in Worker, Accept(w) \/ Serve(w), ~SendSess(w), ~Close(w)
    PROVE  setCookie' = setCookie /\ pc[w] # "close"
BY DEF Serve, Accept, LoadDb, OkExists, Count, SessSet, SaltGet, WriteBuf, SessGet,
   UserExists, OkSet, HSet, UserExpire, HashGet, Verify

\* Only HSet and UserExpire write an account; only they go to and from
\* "userExp".
LEMMA AccountRests ==
    ASSUME IInv, NEW w \in Worker, Accept(w) \/ Serve(w), ~HSet(w), ~UserExpire(w)
    PROVE  users' = users /\ pc[w] # "userExp" /\ pc'[w] # "userExp"
<1>1. users' = users /\ pc[w] # "userExp"
  BY DEF Serve, Accept, LoadDb, OkExists, Count, SessSet, SaltGet, WriteBuf, SendSess, SessGet,
     UserExists, OkSet, HashGet, Verify, Close, redis
<1>2. \E l \in Label \ {"userExp"} : pc' = [pc EXCEPT ![w] = l]
  <2>1. CASE Accept(w)
    BY <2>1 DEF Accept, Goto, Refuse, Respond
  <2>2. CASE OkExists(w) \/ Count(w) \/ SaltGet(w) \/ WriteBuf(w)
    BY <2>2 DEF OkExists, Count, SaltGet, WriteBuf, Goto, Refuse, Respond
  <2>3. CASE SendSess(w) \/ SessGet(w) \/ UserExists(w) \/ OkSet(w)
           \/ HashGet(w) \/ Verify(w) \/ Close(w)
    BY <2>3 DEF SendSess, SessGet, UserExists, OkSet, HashGet, Verify, Close, Goto, Refuse, Respond
  <2>4. CASE LoadDb(w)
    <3>1. pc[w] \in {"ipDb", "sessDb", "getDb", "okDb"}
      BY <2>4 DEF LoadDb
    <3>2. AfterLoad[pc[w]] \in {"okExists", "sessSet", "sessGet", "okSet"}
      BY <3>1
    <3>3. pc' = [pc EXCEPT ![w] = AfterLoad[pc[w]]]
      BY <2>4 DEF LoadDb, Goto
    <3> QED BY <3>2, <3>3
  <2>5. CASE SessSet(w)
    BY <2>5 DEF SessSet, Goto
  <2> QED BY <2>1, <2>2, <2>3, <2>4, <2>5 DEF Serve
<1>3. pc'[w] # "userExp"
  BY <1>2, Local
<1> QED BY <1>1, <1>3

\* The environment but for a crash takes keys away and does nothing else.
LEMMA KeysGo ==
    ASSUME IInv,
           \/ \E k \in okKeys : ExpireOk(k)
           \/ \E s \in sessions : ExpireSession(s)
           \/ \E u \in User : ExpireUser(u)
    PROVE  /\ UNCHANGED <<memory, local>>
           /\ \A u \in User : users'[u] \in {users[u], Nil}
BY Local DEF ExpireOk, ExpireSession, ExpireUser
-----------------------------------------------------------------------------
(* One lemma per conjunct of RInv; its cases are the actions that matter. *)

\* A thread that is in the middle of something did not just begin to wait.
LEMMA NotIdle ==
    ASSUME IInv', NEW w \in Worker
    PROVE  /\ Busy(w)' => pc'[w] # "accept"
           /\ AtCommand(w)' => pc'[w] # "accept" /\ Busy(w)'
BY DEF IInv, TypeOK, AtCommand

LEMMA OneDbStep ==
    ASSUME IInv, IInv', OneDb, RNext, NEW w \in Worker, Accept(w) \/ Serve(w)
    PROVE  OneDb'
<1> SUFFICES ASSUME NEW v \in Worker, "type" \notin met'[v]
             PROVE  /\ Busy(v)' => DbIdx_ipCountX' = DbIdx_ipCount[req'[v].type]
                    /\ AtCommand(v)' => dbIdx'[v] = DbIdx_ipCount[req'[v].type]
  BY DEF OneDb
<1>1. CASE ~Busy(v)'
  BY <1>1, NotIdle
<1>2. CASE Busy(v)'
  <2>1. "type" \notin met[v] /\ ~TypeChanged(v)
    BY <1>2, NotIdle, MetStays
  <2>2. CASE Accept(w)
    <3>1. PICK r \in Requests :
             \/ /\ req' = req /\ DbIdx_ipCountX' = DbIdx_ipCountX
                /\ pc' = [pc EXCEPT ![w] = "close"]
             \/ /\ req' = [req EXCEPT ![w] = r] /\ DbIdx_ipCountX' = DbIdx_ipCount[r.type]
                /\ pc' = [pc EXCEPT ![w] = "ipDb"]
      BY <2>2 DEF Accept, PathDb, Goto, Refuse, Respond
    <3>2. ~Busy(w) /\ dbIdx' = dbIdx
      BY <2>2, AtWork DEF Accept
    <3>3. CASE v = w
      BY <1>2, <3>1, <3>2, <3>3, Local DEF Busy, AtCommand
    <3>4. CASE v # w
      <4>1. /\ pc'[v] = pc[v] /\ req'[v] = req[v] /\ dbIdx'[v] = dbIdx[v]
        BY <2>2, <3>4, OthersRest
      <4>2. DbIdx_ipCountX = DbIdx_ipCount[req[v].type]
            /\ (AtCommand(v) => dbIdx[v] = DbIdx_ipCount[req[v].type])
        BY <1>2, <2>1, <4>1 DEF OneDb, Busy
      <4>3. DbIdx_ipCountX' = DbIdx_ipCount[req[v].type]
        BY <1>2, <2>1, <3>1, <3>2, <3>4, <4>1, <4>2, ConstAssumption, Local
           DEF TypeChanged, Busy
      <4> QED BY <4>1, <4>2, <4>3 DEF AtCommand
    <3> QED BY <3>3, <3>4
  <2>3. CASE LoadDb(w)
    <3>1. /\ DbIdx_ipCountX' = DbIdx_ipCountX /\ req' = req
          /\ dbIdx' = [dbIdx EXCEPT ![w] = DbIdx_ipCountX]
      BY <2>3 DEF LoadDb, memory
    <3>2. DbIdx_ipCountX = DbIdx_ipCount[req[v].type]
      BY <1>2, <2>1, <3>1 DEF OneDb, Busy
    <3>3. CASE v = w
      BY <3>1, <3>2, <3>3, Local
    <3>4. CASE v # w
      <4>1. pc'[v] = pc[v] /\ dbIdx'[v] = dbIdx[v]
        BY <2>3, <3>4, OthersRest DEF Serve
      <4> QED BY <2>1, <3>1, <3>2, <4>1 DEF OneDb, AtCommand
    <3> QED BY <3>3, <3>4
  <2>4. CASE Close(w)
    <3>1. v # w /\ UNCHANGED memory
      BY <1>2, <2>4, Local DEF Close, Busy
    <3>2. pc'[v] = pc[v] /\ req'[v] = req[v] /\ dbIdx'[v] = dbIdx[v]
      BY <2>4, <3>1, OthersRest DEF Serve
    <3> QED BY <1>2, <2>1, <3>1, <3>2 DEF OneDb, Busy, AtCommand, memory
  <2>5. CASE ~Accept(w) /\ ~LoadDb(w) /\ ~Close(w)
    <3>1. AtCommand(w) /\ UNCHANGED <<DbIdx_ipCountX, req, dbIdx>>
      BY <2>5, Onward
    <3>2. AtCommand(v)' => AtCommand(v)
      BY <2>5, <3>1, OthersRest DEF AtCommand
    <3> QED BY <1>2, <2>1, <3>1, <3>2 DEF OneDb, Busy
  <2> QED BY <2>2, <2>3, <2>4, <2>5
<1> QED BY <1>1, <1>2

LEMMA UnsharedStep == ASSUME RNext PROVE Unshared'
<1> SUFFICES ASSUME NEW v \in Worker, pc'[v] \in {"buf", "send"}, "buffer" \notin met'[v],
                    NEW x \in Worker \ {v}
             PROVE  pc'[x] # "buf"
  BY DEF Unshared
<1>1. ~BufferShared(v)
  BY MetStays
<1> QED BY <1>1 DEF BufferShared

LEMMA OwnTextStep ==
    ASSUME IInv, Unshared, OwnText, RNext, NEW w \in Worker, Accept(w) \/ Serve(w)
    PROVE  OwnText'
<1> SUFFICES ASSUME NEW v \in Worker
             PROVE  /\ pc'[v] = "send" /\ "buffer" \notin met'[v] => buf1' = NewCookie(v)'
                    /\ setCookie'[v] # Nil =>
                         /\ pc'[v] = "close"
                         /\ "buffer" \notin met'[v] => setCookie'[v] = NewCookie(v)'
  BY DEF OwnText
<1>1. pc'[v] \in {"send", "close"} /\ "buffer" \notin met'[v] => "buffer" \notin met[v]
  BY MetStays
<1>2. v # w => pc'[v] = pc[v] /\ NewCookie(v)' = NewCookie(v) /\ setCookie'[v] = setCookie[v]
  BY OthersRest DEF NewCookie
<1>3. pc'[v] = "send" /\ "buffer" \notin met'[v] => buf1' = NewCookie(v)'
  <2> SUFFICES ASSUME pc'[v] = "send", "buffer" \notin met'[v] PROVE buf1' = NewCookie(v)'
    OBVIOUS
  <2>1. CASE WriteBuf(w)
    <3>1. pc[w] = "buf" /\ buf1' \in BufText(w) /\ req' = req /\ new' = new
      BY <2>1 DEF WriteBuf
    <3>2. v = w
      BY <1>1, <1>2, <3>1 DEF Unshared
    <3>3. Overlap(w) = {}
      BY <1>1, <3>1, <3>2 DEF Unshared, Overlap
    <3> QED BY <3>1, <3>2, <3>3 DEF BufText, NewCookie
  <2>2. CASE ~WriteBuf(w)
    <3>1. buf1' = buf1 /\ v # w
      BY <2>2, TextRests
    <3> QED BY <1>1, <1>2, <3>1 DEF OwnText
  <2> QED BY <2>1, <2>2
<1>4. setCookie'[v] # Nil =>
        /\ pc'[v] = "close"
        /\ "buffer" \notin met'[v] => setCookie'[v] = NewCookie(v)'
  <2> SUFFICES ASSUME setCookie'[v] # Nil
               PROVE  /\ pc'[v] = "close"
                      /\ "buffer" \notin met'[v] => setCookie'[v] = NewCookie(v)'
    OBVIOUS
  <2>1. CASE v # w
    BY <1>1, <1>2, <2>1 DEF OwnText
  <2>2. CASE v = w /\ SendSess(w)
    <3>1. /\ pc[w] = "send" /\ pc'[w] = "close" /\ req' = req /\ new' = new
      BY <2>2, Local DEF SendSess, Respond, Goto
    <3>2. PICK c \in {buf1} \cup Overlap(w) : setCookie' = [setCookie EXCEPT ![w] = c]
      BY <2>2 DEF SendSess
    <3>3. "buffer" \notin met'[v] => Overlap(w) = {} /\ buf1 = NewCookie(w)
      BY <1>1, <2>2, <3>1 DEF Unshared, OwnText, Overlap
    <3>4. setCookie'[v] = c
      BY <2>2, <3>2, Local
    <3> QED BY <2>2, <3>1, <3>2, <3>3, <3>4 DEF NewCookie
  <2>3. CASE v = w /\ Close(w)
    BY <2>3, Local DEF Close
  <2>4. CASE v = w /\ ~SendSess(w) /\ ~Close(w)
    BY <2>4, CookieRests DEF OwnText
  <2> QED BY <2>1, <2>2, <2>3, <2>4
<1> QED BY <1>3, <1>4

\* HSet and UserExpire write the account of their own user, if any.
LEMMA Writes ==
    ASSUME IInv, NEW w \in Worker
    PROVE  /\ HSet(w) =>
                /\ pc[w] = "hset" /\ pc'[w] \in {"userExp", "close"} /\ req' = req
                /\ \A u \in User : u # req[w].user => users'[u] = users[u]
                /\ pc'[w] = "userExp" => users'[req[w].user] = Written(w)
           /\ UserExpire(w) =>
                /\ pc[w] = "userExp" /\ pc'[w] = "close" /\ req' = req
                /\ \A u \in User : \/ users'[u] = users[u]
                                   \/ u = req[w].user /\ users[u] # Nil /\ users'[u] = Expiring(u)
                /\ status'[w] = 200 =>
                     /\ users[req[w].user] # Nil
                     /\ users'[req[w].user] = Expiring(req[w].user)
<1>1. ASSUME HSet(w)
      PROVE  /\ pc[w] = "hset" /\ pc'[w] \in {"userExp", "close"} /\ req' = req
             /\ \A u \in User : u # req[w].user => users'[u] = users[u]
             /\ pc'[w] = "userExp" => users'[req[w].user] = Written(w)
  <2>1. PICK o \in Outcomes :
           /\ IF Ran(o) THEN users' = [users EXCEPT ![req[w].user] = Written(w)]
                        ELSE UNCHANGED users
           /\ IF o = "ok" THEN Goto(w, "userExp") /\ UNCHANGED status ELSE Refuse(w)
    BY <1>1 DEF HSet
  <2>2. pc[w] = "hset" /\ req' = req /\ req[w].user \in User
    BY <1>1, AtWork DEF HSet
  <2>3. pc'[w] \in {"userExp", "close"} /\ (pc'[w] = "userExp" => Ran(o))
    BY <2>1, Local DEF Goto, Refuse, Respond, Ran
  <2> QED BY <2>1, <2>2, <2>3, Local
<1>2. ASSUME UserExpire(w)
      PROVE  /\ pc[w] = "userExp" /\ pc'[w] = "close" /\ req' = req
             /\ \A u \in User : \/ users'[u] = users[u]
                                \/ u = req[w].user /\ users[u] # Nil /\ users'[u] = Expiring(u)
             /\ status'[w] = 200 =>
                  /\ users[req[w].user] # Nil
                  /\ users'[req[w].user] = Expiring(req[w].user)
  <2>1. PICK o \in Outcomes :
           /\ IF Ran(o) /\ users[req[w].user] # Nil
              THEN users' = [users EXCEPT ![req[w].user] = Expiring(req[w].user)]
              ELSE UNCHANGED users
           /\ Respond(w, IF o = "ok" /\ users[req[w].user] # Nil THEN 200 ELSE 422)
    BY <1>2 DEF UserExpire
  <2>2. pc[w] = "userExp" /\ req' = req /\ req[w].user \in User
    BY <1>2, AtWork DEF UserExpire
  <2>3. pc'[w] = "close" /\ (status'[w] = 200 => Ran(o) /\ users[req[w].user] # Nil)
    BY <2>1, Local DEF Goto, Respond, Ran
  <2>4. PICK u0 \in User : u0 = req[w].user
    BY <2>2
  <2>5. \A u \in User : \/ users'[u] = users[u]
                        \/ u = u0 /\ users[u] # Nil /\ users'[u] = Expiring(u)
    BY <2>1, <2>4, Local
  <2>6. status'[w] = 200 => users[u0] # Nil /\ users'[u0] = Expiring(u0)
    BY <2>1, <2>3, <2>4, Local
  <2> QED BY <2>2, <2>3, <2>4, <2>5, <2>6
<1> QED BY <1>1, <1>2

LEMMA SavedStep ==
    ASSUME IInv, Saved, RNext, NEW w \in Worker, Accept(w) \/ Serve(w)
    PROVE  Saved'
<1> SUFFICES ASSUME NEW v \in Worker, pc'[v] = "userExp", users'[req'[v].user] # Nil,
                    "account" \notin met'[v]
             PROVE  /\ users'[req'[v].user].hash = req'[v].passwd
                    /\ users'[req'[v].user].salt = req'[v].salt
  BY DEF Saved
<1>1. "account" \notin met[v] /\ ~AccountWritten(v)
  BY MetStays
<1>2. CASE v = w
  <2>1. HSet(w) /\ req' = req
    BY <1>2, Writes, AccountRests
  <2>2. users'[req[w].user] = Written(w)
    BY <1>2, <2>1, Writes
  <2> QED BY <1>2, <2>1, <2>2 DEF Written
<1>3. CASE v # w
  <2>1. pc[v] = "userExp" /\ req'[v] = req[v] /\ req[v].user \in User
    BY <1>3, OthersRest, AtWork
  <2>2. PICK u \in User : u = req[v].user
    BY <2>1
  <2>3. CASE HSet(w)
    <3>1. req[w].user # u
      BY <1>1, <1>3, <2>1, <2>2, <2>3, Writes DEF AccountWritten
    <3>2. users'[u] = users[u]
      BY <2>3, <3>1, Writes
    <3> QED BY <1>1, <2>1, <2>2, <3>2 DEF Saved
  <2>4. CASE UserExpire(w)
    <3>1. users'[u] = users[u] \/ (users[u] # Nil /\ users'[u] = Expiring(u))
      BY <2>2, <2>4, Writes
    <3>2. users[u] # Nil =>
            Expiring(u).hash = users[u].hash /\ Expiring(u).salt = users[u].salt
      BY <2>2, TtlSet, Local
    <3> QED BY <1>1, <2>1, <2>2, <3>1, <3>2 DEF Saved
  <2>5. CASE ~HSet(w) /\ ~UserExpire(w)
    BY <1>1, <2>1, <2>5, AccountRests DEF Saved
  <2> QED BY <2>3, <2>4, <2>5
<1> QED BY <1>2, <1>3

\* While no EXPIRE is confirmed, an account in untimed stays there, and is put
\* there by a signup that is given up.
LEMMA UntimedStays ==
    ASSUME RNext, NEW u \in User, users'[u] # Nil, u \notin untimed', ~Confirmed(u)
    PROVE  u \notin untimed /\ ~GivenUp(u)
BY DEF RNext

LEMMA TtlStep ==
    ASSUME IInv, TtlMissingOnlyByFault, RNext, NEW w \in Worker, Accept(w) \/ Serve(w)
    PROVE  TtlMissingOnlyByFault'
<1> SUFFICES ASSUME NEW u \in User, users'[u] # Nil, ~users'[u].ttl, u \notin untimed'
             PROVE  \E x \in Worker : pc'[x] = "userExp" /\ req'[x].user = u
  BY DEF TtlMissingOnlyByFault
<1>1. \A x \in Worker : x # w => pc'[x] = pc[x] /\ req'[x] = req[x] /\ status'[x] = status[x]
  BY OthersRest
<1>2. \A x \in Worker : pc[x] = "userExp" => status[x] = 0 /\ Busy(x)
  BY AtWork
<1>3. Confirmed(u) => UserExpire(w) /\ req[w].user = u /\ status'[w] = 200
  <2> SUFFICES ASSUME NEW x \in Worker, req[x].user = u, pc[x] = "userExp", status'[x] = 200
               PROVE  UserExpire(w) /\ req[w].user = u /\ status'[w] = 200
    BY DEF Confirmed
  <2>1. x = w
    BY <1>1, <1>2
  <2> QED BY <2>1, Writes, AccountRests
<1>4. CASE UserExpire(w) /\ req[w].user = u
  <2>1. status'[w] = 200 => users[u] # Nil /\ users'[u] = Expiring(u)
    BY <1>4, Writes, Zenon
  <2>2. status'[w] # 200
    <3>1. users[u] # Nil => Expiring(u).ttl = TRUE
      BY Local, TtlSet
    <3> QED BY <2>1, <3>1
  <2>3. GivenUp(u)
    BY <1>2, <1>4, <2>2, Writes DEF GivenUp, Busy
  <2> QED BY <1>3, <2>2, <2>3, UntimedStays
<1>5. CASE HSet(w) /\ req[w].user = u
  <2>1. ~GivenUp(u)
    BY <1>3, <1>5, Writes, UntimedStays
  <2>2. Busy(w)
    BY <1>5, Writes, AtWork
  <2>3. pc'[w] = "userExp" /\ req' = req
    BY <1>5, <2>1, <2>2, Writes DEF GivenUp, Busy
  <2> QED BY <1>5, <2>3
<1>6. CASE ~(UserExpire(w) /\ req[w].user = u) /\ ~(HSet(w) /\ req[w].user = u)
  <2>1. users'[u] = users[u]
    BY <1>6, Writes, AccountRests
  <2>2. u \notin untimed
    BY <1>3, <1>6, UntimedStays
  <2>3. PICK x \in Worker : pc[x] = "userExp" /\ req[x].user = u
    BY <2>1, <2>2 DEF TtlMissingOnlyByFault
  <2>4. x # w
    BY <1>6, <2>3, Writes, AccountRests
  <2> QED BY <1>1, <2>3, <2>4
<1> QED BY <1>4, <1>5, <1>6
-----------------------------------------------------------------------------
LEMMA InitRInv == RInit => RInv
BY ConstAssumption DEF RInit, Init, RInv, OneDb, Unshared, OwnText, Saved,
   TtlMissingOnlyByFault, Busy, AtCommand

LEMMA ThreadRInv ==
    ASSUME IInv, IInv', RInv, RNext, NEW w \in Worker, Accept(w) \/ Serve(w)
    PROVE  RInv'
BY OneDbStep, UnsharedStep, OwnTextStep, SavedStep, TtlStep DEF RInv

LEMMA KeysGoRInv ==
    ASSUME IInv, RInv, RNext,
           \/ \E k \in okKeys : ExpireOk(k)
           \/ \E s \in sessions : ExpireSession(s)
           \/ \E u \in User : ExpireUser(u)
    PROVE  RInv'
<1>1. /\ UNCHANGED <<memory, local>>
      /\ \A u \in User : users'[u] \in {users[u], Nil}
  BY KeysGo
<1>2. \A w \in Worker :
        /\ pc'[w] = pc[w] /\ req'[w] = req[w] /\ NewCookie(w)' = NewCookie(w)
        /\ pc[w] # "accept" =>
             \A d \in Disturbance : d \notin met'[w] => d \notin met[w]
  BY <1>1, MetStays DEF local, NewCookie, Disturbance
<1>3. OneDb'
  <2> SUFFICES ASSUME NEW w \in Worker, "type" \notin met'[w], Busy(w) \/ AtCommand(w)
               PROVE  "type" \notin met[w]
    BY <1>1 DEF RInv, OneDb, Busy, AtCommand, memory, local
  <2> QED BY <1>2, AtWork DEF AtCommand, Disturbance
<1>4. OwnText'
  <2> SUFFICES ASSUME NEW w \in Worker, "buffer" \notin met'[w],
                      pc[w] = "send" \/ setCookie[w] # Nil
               PROVE  "buffer" \notin met[w]
    BY <1>1, <1>2 DEF RInv, OwnText, memory, local
  <2> QED BY <1>2, AtWork DEF Disturbance
<1>5. Saved'
  <2> SUFFICES ASSUME NEW w \in Worker, pc[w] = "userExp", users'[req[w].user] # Nil,
                      "account" \notin met'[w]
               PROVE  /\ users'[req[w].user].hash = req[w].passwd
                      /\ users'[req[w].user].salt = req[w].salt
    BY <1>2 DEF Saved
  <2>1. users'[req[w].user] = users[req[w].user] /\ "account" \notin met[w]
    BY <1>1, <1>2, AtWork DEF Disturbance
  <2> QED BY <2>1 DEF RInv, Saved
<1>6. TtlMissingOnlyByFault'
  <2> SUFFICES ASSUME NEW u \in User, users'[u] # Nil, ~users'[u].ttl, u \notin untimed'
               PROVE  \E x \in Worker : pc'[x] = "userExp" /\ req'[x].user = u
    BY DEF TtlMissingOnlyByFault
  <2>1. ~Confirmed(u)
    BY <1>1, AtWork DEF Confirmed, local
  <2>2. u \notin untimed /\ users'[u] = users[u]
    BY <1>1, <2>1, UntimedStays
  <2> QED BY <1>2, <2>2 DEF RInv, TtlMissingOnlyByFault
<1> QED BY <1>3, <1>4, <1>5, <1>6, UnsharedStep DEF RInv

LEMMA CrashRInv == ASSUME IInv, RInv, RNext, Crash PROVE RInv'
<1>1. /\ \A w \in Worker : pc'[w] = "accept" /\ req'[w] = Nil /\ setCookie'[w] = Nil
                           /\ status'[w] = 0
      /\ users' = users
  BY DEF Crash, redis
<1>2. OneDb' /\ Unshared' /\ OwnText' /\ Saved'
  BY <1>1 DEF OneDb, Unshared, OwnText, Saved, Busy, AtCommand
<1>3. TtlMissingOnlyByFault'
  <2> SUFFICES ASSUME NEW u \in User, users'[u] # Nil, ~users'[u].ttl, u \notin untimed'
               PROVE  FALSE
    BY DEF TtlMissingOnlyByFault
  <2>1. ~Confirmed(u)
    BY <1>1 DEF Confirmed
  <2>2. u \notin untimed /\ ~GivenUp(u)
    BY <2>1, UntimedStays
  <2>3. PICK x \in Worker : pc[x] = "userExp" /\ req[x].user = u
    BY <1>1, <2>2 DEF RInv, TtlMissingOnlyByFault
  <2>4. GivenUp(u)
    BY <1>1, <2>3, AtWork DEF GivenUp, Busy
  <2> QED BY <2>2, <2>4
<1> QED BY <1>2, <1>3 DEF RInv

LEMMA StutterRInv == ASSUME RInv, UNCHANGED rvars PROVE RInv'
BY DEF RInv, OneDb, Unshared, OwnText, Saved, TtlMissingOnlyByFault, NewCookie, Busy,
   AtCommand, rvars, vars, memory, local, redis, past
-----------------------------------------------------------------------------
\* The histories constrain nothing: what holds of the daemon holds here.
LEMMA Daemon == RSpec => Spec
<1>1. RInit => Init
  BY DEF RInit
<1>2. [RNext]_rvars => [Next]_vars
  BY DEF RNext, rvars
<1> QED BY <1>1, <1>2, PTL DEF RSpec, Spec

\* The stronger invariant holds in every reachable state.
THEOREM RacesInvariance == RSpec => []RInv
<1>1. IInv /\ IInv' /\ RInv /\ [RNext]_rvars => RInv'
  <2> SUFFICES ASSUME IInv, IInv', RInv, [RNext]_rvars PROVE RInv'
    OBVIOUS
  <2>1. CASE UNCHANGED rvars
    BY <2>1, StutterRInv
  <2>2. CASE RNext
    BY <2>2, ThreadRInv, KeysGoRInv, CrashRInv DEF RNext, Next
  <2> QED BY <2>1, <2>2
<1> QED BY InitRInv, <1>1, Daemon, Invariance, PTL DEF RSpec

\* A request's commands go to its own type's database unless another type was
\* accepted meanwhile (http_server_main_loop.c:22-28), for any number of
\* threads, whatever Redis and the process do.
THEOREM OwnDatabaseUnlessChanged == RSpec => []UndisturbedUsesOwnDatabase
<1>1. RInv => UndisturbedUsesOwnDatabase
  BY DEF RInv, OneDb, UndisturbedUsesOwnDatabase
<1> QED BY RacesInvariance, <1>1, PTL

\* A client gets the cookie of its own session unless another thread was about
\* to write the buffer (send_response_sess.c:3-27).
THEOREM OwnCookieUnlessShared == RSpec => []UnsharedCookieIsOwn
<1>1. RInv => UnsharedCookieIsOwn
  BY DEF RInv, OwnText, UnsharedCookieIsOwn
<1> QED BY RacesInvariance, <1>1, PTL

\* A signup answered 200 is what the account holds, with a TTL, unless another
\* thread wrote the account after it (handler lines 111-118).
THEOREM SignupStoredUnlessWritten == RSpec => UndisturbedSignupIsStored
<1> DEFINE Stored ==
      \A w \in Worker :
         pc[w] = "userExp" /\ status'[w] = 200 /\ "account" \notin met[w] =>
           users'[req[w].user] = [hash |-> req[w].passwd, salt |-> req[w].salt, ttl |-> TRUE]
<1>1. IInv /\ RInv /\ [RNext]_rvars => [Stored]_rvars
  <2> SUFFICES ASSUME IInv, RInv, RNext, NEW w \in Worker, pc[w] = "userExp",
                      status'[w] = 200, "account" \notin met[w]
               PROVE  users'[req[w].user] =
                        [hash |-> req[w].passwd, salt |-> req[w].salt, ttl |-> TRUE]
    OBVIOUS
  <2>1. status[w] = 0 /\ req[w].user \in User
    BY AtWork
  <2>2. UserExpire(w)
    <3>1. ~Crash
      BY DEF Crash
    <3>2. ~(\E k \in okKeys : ExpireOk(k)) /\ ~(\E s \in sessions : ExpireSession(s))
          /\ ~(\E u \in User : ExpireUser(u))
      BY <2>1, KeysGo DEF local
    <3>3. PICK x \in Worker : Accept(x) \/ Serve(x)
      BY <3>1, <3>2 DEF RNext, Next
    <3>4. x = w
      BY <2>1, <3>3, OthersRest
    <3> QED BY <3>3, <3>4, Writes, AccountRests
  <2>3. PICK u \in User : u = req[w].user
    BY <2>1
  <2>4. users[u] # Nil /\ users'[u] = Expiring(u)
    BY <2>2, <2>3, Writes
  <2>5. users[u] \in Account /\ users[u].hash = req[w].passwd /\ users[u].salt = req[w].salt
    BY <2>3, <2>4, Local DEF RInv, Saved
  <2>6. Expiring(u) = [hash |-> users[u].hash, salt |-> users[u].salt, ttl |-> TRUE]
    BY <2>5, TtlSet
  <2> QED BY <2>3, <2>4, <2>5, <2>6
<1> QED BY RacesInvariance, Daemon, Invariance, <1>1, PTL DEF RSpec, UndisturbedSignupIsStored

\* An account without a TTL has a thread about to send its EXPIRE, or the last
\* signup that touched it was given up or not confirmed
\* (redis_set_hset_key_value.c:32-121): with failing commands and crashes.
THEOREM TtlMissing == RSpec => []TtlMissingOnlyByFault
<1>1. RInv => TtlMissingOnlyByFault
  BY DEF RInv
<1> QED BY RacesInvariance, <1>1, PTL
=============================================================================
