------------------------- MODULE SignupDaemonProofs -------------------------
(***************************************************************************)
(* Safety of the daemon for any number of threads, users and sessions, any *)
(* generator of session ids, any Redis faults and any crashes.             *)
(*                                                                         *)
(* The inductive invariant follows a session through the store: what Redis *)
(* holds was issued (Kept); a thread past the comparison of line 75 holds  *)
(* an issued session (Passed); an account's hash and salt came from such a *)
(* thread (Accounts); a hash read for a login was stored (Read); and a 200 *)
(* is only sent at the end of those paths (Answered).                      *)
(***************************************************************************)
EXTENDS SignupDaemon, TLAPS

NewLabel == {"sessDb", "sessSet", "saltGet", "buf", "send"}
SignupLabel == {"okDb", "okSet", "hset", "userExp"}
LoginLabel == {"hashGet", "verify"}
HeldLabel == {"userExists"} \cup SignupLabel \cup LoginLabel
SubmitLabel == {"getDb", "sessGet"} \cup HeldLabel

\* Which request a thread has in hand, by where it is.
Control ==
    \A w \in Worker :
        /\ pc[w] \notin {"accept", "close"} => Busy(w) /\ status[w] = 0
        /\ pc[w] \in NewLabel => req[w].body = "new"
        /\ pc[w] \in {"saltGet", "buf", "send"} => new[w] # Nil
        /\ pc[w] \in SubmitLabel => req[w].body = "submit"
        /\ pc[w] \in SignupLabel => req[w].type = "signup"
        /\ pc[w] \in LoginLabel => req[w].type # "signup"

Kept ==
    \A s \in sessions :
        \E i \in issued : /\ i.type = s.type /\ i.user = s.user
                          /\ i.sesv = s.sesv /\ i.sess = s.sess

Passed == \A w \in Worker : pc[w] \in HeldLabel => HeldSession(w)

Accounts ==
    \A u \in User : users[u] # Nil =>
        /\ <<u, users[u].hash>> \in stored
        /\ \E i \in issued : i.type = "signup" /\ i.user = u /\ i.sesv = users[u].salt

Read == \A w \in Worker : pc[w] = "verify" => <<req[w].user, hash[w]>> \in stored

Proved(w) ==
    \E h \in Passwd : /\ <<req[w].user, h>> \in stored
                      /\ req[w].passwd = LoginHash(req[w].salt, req[w].user, h)

Answered ==
    \A w \in Worker : status[w] = 200 /\ Busy(w) /\ req[w].body = "submit" =>
        /\ HeldSession(w)
        /\ req[w].type # "signup" => Proved(w)

IInv == TypeOK /\ Control /\ Kept /\ Passed /\ Accounts /\ Read /\ Answered
-----------------------------------------------------------------------------
(* The sets of labels are abbreviations: every proof below looks into them. *)
USE DEF NewLabel, SignupLabel, LoginLabel, HeldLabel, SubmitLabel, Label, AfterLoad

\* The fields of a request in hand.
LEMMA RequestFields ==
    ASSUME TypeOK, NEW w \in Worker, Busy(w)
    PROVE  /\ req[w] \in Requests
           /\ req[w].type \in PostType /\ req[w].ip \in Ip /\ req[w].user \in User
           /\ req[w].body = "submit" => req[w].salt \in Token /\ req[w].passwd \in Passwd
BY ConstAssumption DEF TypeOK, Busy, Request, PostType

\* A step that leaves Redis and the histories alone keeps what is known of
\* the keys.
LEMMA StoreSame ==
    ASSUME IInv, UNCHANGED <<redis, past>>
    PROVE  Kept' /\ Accounts'
BY DEF IInv, Kept, Accounts, redis, past

\* A step that sends no response, or a 422, accepts nobody.
LEMMA NobodyAccepted ==
    ASSUME IInv, NEW w \in Worker, UNCHANGED <<req, past>>,
           status' = status \/ status' = [status EXCEPT ![w] = 422]
    PROVE  Answered'
BY SMTT(30) DEF IInv, TypeOK, Answered, HeldSession, Proved, Busy, past

LEMMA InitIInv == Init => IInv
BY ConstAssumption DEF Init, IInv, TypeOK, Control, Kept, Passed, Accounts, Read, Answered,
   Busy, AtCommand
-----------------------------------------------------------------------------
(* One lemma per action; its steps are the conjuncts of IInv. *)

LEMMA AcceptInv == ASSUME IInv, NEW w \in Worker, Accept(w) PROVE IInv'
<1> USE DEF IInv, Goto, Refuse, Respond
<1>1. PICK r \in Requests :
         \/ /\ r.type = "other"
            /\ pc' = [pc EXCEPT ![w] = "close"] /\ status' = [status EXCEPT ![w] = 422]
            /\ UNCHANGED <<req, DbIdx_ipCountX>>
         \/ /\ r.type \in PostType
            /\ pc' = [pc EXCEPT ![w] = "ipDb"] /\ req' = [req EXCEPT ![w] = r]
            /\ DbIdx_ipCountX' = DbIdx_ipCount[r.type]
            /\ UNCHANGED status
  BY ConstAssumption DEF Accept, Request, PathDb
<1>2. /\ pc[w] = "accept" /\ ~Busy(w)
      /\ UNCHANGED <<buf1, dbIdx, new, hash, setCookie, redis, past>>
  BY DEF Accept, TypeOK
<1>3. CASE r.type = "other"
  <2>1. /\ pc' = [pc EXCEPT ![w] = "close"] /\ status' = [status EXCEPT ![w] = 422]
        /\ UNCHANGED <<req, DbIdx_ipCountX>>
    BY <1>1, <1>3 DEF PostType
  <2>2. TypeOK'
    BY <1>2, <2>1 DEF TypeOK, Busy, AtCommand, redis, past
  <2>3. Control' /\ Passed' /\ Read'
    BY <1>2, <2>1 DEF TypeOK, Control, Passed, Read, HeldSession, Busy, past
  <2>4. QED  BY <1>2, <2>1, <2>2, <2>3, StoreSame, NobodyAccepted
<1>4. CASE r.type \in PostType
  <2>1. /\ pc' = [pc EXCEPT ![w] = "ipDb"] /\ req' = [req EXCEPT ![w] = r]
        /\ DbIdx_ipCountX' \in DbIndex
        /\ UNCHANGED status
    BY <1>1, <1>4 DEF PostType, DbIdx_ipCount, DbIndex
  <2>2. r # Nil /\ r.type # "other" /\ status[w] = 0
    BY ConstAssumption, <1>2, <1>4 DEF PostType, TypeOK
  <2>3. TypeOK'
    BY <1>2, <2>1, <2>2 DEF TypeOK, Busy, AtCommand, redis, past
  <2>4. Control' /\ Passed' /\ Read'
    BY <1>2, <2>1, <2>2 DEF TypeOK, Control, Passed, Read, HeldSession, Busy, past
  <2>5. Answered'
    BY <1>2, <2>1, <2>2 DEF TypeOK, Answered, HeldSession, Proved, Busy, past
  <2>6. QED  BY <1>2, <2>3, <2>4, <2>5, StoreSame
<1>5. QED  BY <1>1, <1>3, <1>4

LEMMA LoadDbInv == ASSUME IInv, NEW w \in Worker, LoadDb(w) PROVE IInv'
<1> USE DEF IInv, LoadDb, Goto, redis, past
<1>1. TypeOK'
  BY SMTT(30) DEF TypeOK, Control, Busy, AtCommand, memory
<1>2. Control'
  BY SMTT(30) DEF TypeOK, Control, Busy
<1>3. Passed'
  BY SMTT(30) DEF TypeOK, Passed, HeldSession
<1>4. Read'
  BY SMTT(30) DEF TypeOK, Control, Read
<1>5. QED  BY <1>1, <1>2, <1>3, <1>4, StoreSame, NobodyAccepted

LEMMA OkExistsInv == ASSUME IInv, NEW w \in Worker, OkExists(w) PROVE IInv'
<1> USE DEF IInv, OkExists, Goto, Refuse, Respond, redis, past
<1>1. TypeOK'
  BY SMTT(30) DEF TypeOK, Control, Busy, AtCommand, memory
<1>2. Control'
  BY SMTT(30) DEF TypeOK, Control, Busy
<1>3. Passed'
  BY SMTT(30) DEF TypeOK, Passed, HeldSession
<1>4. Read'
  BY SMTT(30) DEF TypeOK, Control, Read
<1>5. QED  BY <1>1, <1>2, <1>3, <1>4, StoreSame, NobodyAccepted

LEMMA CountInv == ASSUME IInv, NEW w \in Worker, Count(w) PROVE IInv'
<1> USE DEF IInv, Count, Goto, Refuse, Respond, redis, past
<1>1. TypeOK'
  BY SMTT(30) DEF TypeOK, Control, Busy, AtCommand, memory
<1>2. Control'
  BY SMTT(30) DEF TypeOK, Control, Busy
<1>3. Passed'
  BY SMTT(30) DEF TypeOK, Passed, HeldSession
<1>4. Read'
  BY SMTT(30) DEF TypeOK, Control, Read
<1>5. QED  BY <1>1, <1>2, <1>3, <1>4, StoreSame, NobodyAccepted

LEMMA SessSetInv == ASSUME IInv, NEW w \in Worker, SessSet(w) PROVE IInv'
<1> USE DEF IInv, Goto, past
<1>1. PICK p \in SessPairs, o \in Outcomes :
         LET s == [db |-> dbIdx[w], type |-> req[w].type, user |-> req[w].user,
                   sesv |-> p[1], sess |-> p[2]]
         IN  /\ new' = [new EXCEPT ![w] = p]
             /\ IF Ran(o)
                THEN /\ sessions' = {t \in sessions : ~SameKey(s, t)} \cup {s}
                     /\ issued' = issued \cup
                          {[type |-> s.type, user |-> s.user, sesv |-> s.sesv, sess |-> s.sess]}
                ELSE UNCHANGED <<sessions, issued>>
             /\ Goto(w, IF o # "ok" THEN "close"
                        ELSE IF req[w].type = "login" THEN "saltGet" ELSE "buf")
  BY DEF SessSet
<1>2. /\ pc[w] = "sessSet"
      /\ UNCHANGED <<memory, req, dbIdx, hash, status, setCookie, okKeys, users, stored>>
  BY DEF SessSet
<1>3. Busy(w) /\ dbIdx[w] \in DbIndex /\ req[w].body = "new" /\ status[w] = 0
  BY <1>2 DEF TypeOK, Control, AtCommand
<1>4. p # Nil /\ p[1] \in Token /\ p[2] \in Token
  BY ConstAssumption
<1>5. issued \subseteq issued'
  BY <1>1
<1>6. TypeOK'
  <2>1. sessions' \subseteq Session
    BY <1>1, <1>3, <1>4, RequestFields DEF TypeOK, Session
  <2>2. issued' \subseteq [type : PostType, user : User, sesv : Token, sess : Token]
    BY <1>1, <1>3, <1>4, RequestFields DEF TypeOK
  <2>3. QED
    BY <1>1, <1>2, <1>3, <2>1, <2>2, SMTT(30) DEF TypeOK, Busy, AtCommand, memory
<1>7. Control'
  BY <1>1, <1>2, <1>4 DEF TypeOK, Control, Busy
<1>8. Kept'
  <2> SUFFICES ASSUME NEW t \in sessions'
               PROVE  \E i \in issued' : /\ i.type = t.type /\ i.user = t.user
                                         /\ i.sesv = t.sesv /\ i.sess = t.sess
    BY DEF Kept
  <2>1. CASE t \in sessions
    BY <1>5, <2>1 DEF Kept
  <2>2. CASE t \notin sessions
    <3>1. /\ Ran(o)
          /\ t = [db |-> dbIdx[w], type |-> req[w].type, user |-> req[w].user,
                  sesv |-> p[1], sess |-> p[2]]
      BY <1>1, <2>2
    <3>2. [type |-> req[w].type, user |-> req[w].user, sesv |-> p[1], sess |-> p[2]] \in issued'
      BY <1>1, <3>1
    <3>3. QED  BY <3>1, <3>2
  <2>3. QED  BY <2>1, <2>2
<1>9. Accounts' /\ Read'
  BY <1>1, <1>2, <1>5 DEF TypeOK, Accounts, Read
<1>10. Passed'
  BY <1>1, <1>2, <1>5 DEF TypeOK, Passed, HeldSession
<1>11. Answered'
  BY <1>2, <1>3, <1>5 DEF TypeOK, Answered, HeldSession, Proved, Busy
<1>12. QED  BY <1>6, <1>7, <1>8, <1>9, <1>10, <1>11

LEMMA SaltGetInv == ASSUME IInv, NEW w \in Worker, SaltGet(w) PROVE IInv'
<1> USE DEF IInv, SaltGet, Goto, redis, past
<1>1. TypeOK'
  BY SMTT(30) DEF TypeOK, Control, Busy, AtCommand, memory
<1>2. Control'
  BY SMTT(30) DEF TypeOK, Control, Busy
<1>3. Passed'
  BY SMTT(30) DEF TypeOK, Passed, HeldSession
<1>4. Read'
  BY SMTT(30) DEF TypeOK, Control, Read
<1>5. QED  BY <1>1, <1>2, <1>3, <1>4, StoreSame, NobodyAccepted

LEMMA WriteBufInv == ASSUME IInv, NEW w \in Worker, WriteBuf(w) PROVE IInv'
<1> USE DEF IInv, WriteBuf, Goto, NewCookie, BufText, Overlap, redis, past
<1>1. TypeOK'
  BY ConstAssumption, RequestFields, SMTT(30) DEF TypeOK, Control, Busy, AtCommand, memory, Cookie
<1>2. Control'
  BY ConstAssumption, RequestFields, SMTT(30) DEF TypeOK, Control, Busy
<1>3. Passed'
  BY SMTT(30) DEF TypeOK, Passed, HeldSession
<1>4. Read'
  BY SMTT(30) DEF TypeOK, Control, Read
<1>5. QED  BY <1>1, <1>2, <1>3, <1>4, StoreSame, NobodyAccepted

LEMMA SendSessInv == ASSUME IInv, NEW w \in Worker, SendSess(w) PROVE IInv'
<1> USE DEF IInv, SendSess, Respond, Goto, Overlap, redis, past
<1>1. TypeOK'
  BY SMTT(30) DEF TypeOK, Control, Busy, AtCommand, memory
<1>2. Control'
  BY DEF TypeOK, Control, Busy
<1>3. Passed' /\ Read'
  BY DEF TypeOK, Passed, Read, HeldSession
<1>4. Answered'
  <2>1. req[w].body = "new" /\ \A x \in Worker : x # w => status'[x] = status[x]
    BY DEF TypeOK, Control
  <2>2. QED  BY <2>1 DEF Answered, HeldSession, Proved, Busy
<1>5. QED  BY <1>1, <1>2, <1>3, <1>4, StoreSame

LEMMA SessGetInv == ASSUME IInv, NEW w \in Worker, SessGet(w) PROVE IInv'
<1> USE DEF IInv, SessGet, Goto, SessionHeld, Refuse, Respond, redis, past
<1>1. TypeOK'
  BY SMTT(30) DEF TypeOK, Control, Busy, AtCommand, memory
<1>2. Control'
  BY SMTT(30) DEF TypeOK, Control, Busy
<1>3. Passed'
  BY SMTT(30) DEF TypeOK, Passed, HeldSession, Kept
<1>4. Read'
  BY SMTT(30) DEF TypeOK, Control, Read
<1>5. QED  BY <1>1, <1>2, <1>3, <1>4, StoreSame, NobodyAccepted

LEMMA UserExistsInv == ASSUME IInv, NEW w \in Worker, UserExists(w) PROVE IInv'
<1> USE DEF IInv, UserExists, Goto, Refuse, Respond, redis, past
<1>1. TypeOK'
  BY RequestFields, SMTT(30) DEF TypeOK, Control, Busy, AtCommand, memory
<1>2. Control'
  BY RequestFields, SMTT(30) DEF TypeOK, Control, Busy, PostType
<1>3. Passed'
  BY SMTT(30) DEF TypeOK, Passed, HeldSession
<1>4. Read'
  BY SMTT(30) DEF TypeOK, Control, Read
<1>5. QED  BY <1>1, <1>2, <1>3, <1>4, StoreSame, NobodyAccepted

LEMMA OkSetInv == ASSUME IInv, NEW w \in Worker, OkSet(w) PROVE IInv'
<1> USE DEF IInv, OkSet, OkName, Goto, Refuse, Respond, past
<1>1. TypeOK'
  BY RequestFields, SMTT(30) DEF TypeOK, Control, Busy, AtCommand, memory
<1>2. Control'
  BY SMTT(30) DEF TypeOK, Control, Busy
<1>3. Kept' /\ Accounts'
  BY DEF Kept, Accounts
<1>4. Passed' /\ Read'
  BY DEF TypeOK, Passed, Read, HeldSession
<1>5. QED  BY <1>1, <1>2, <1>3, <1>4, NobodyAccepted

LEMMA HSetInv == ASSUME IInv, NEW w \in Worker, HSet(w) PROVE IInv'
<1> USE DEF IInv, Goto, Refuse, Respond
<1>1. PICK o \in Outcomes :
         /\ IF Ran(o)
            THEN /\ users' = [users EXCEPT ![req[w].user] = Written(w)]
                 /\ stored' = stored \cup {<<req[w].user, req[w].passwd>>}
            ELSE UNCHANGED <<users, stored>>
         /\ IF o = "ok" THEN Goto(w, "userExp") /\ UNCHANGED status ELSE Refuse(w)
  BY DEF HSet
<1>2. /\ pc[w] = "hset"
      /\ UNCHANGED <<memory, req, dbIdx, new, hash, setCookie, okKeys, sessions, issued>>
  BY DEF HSet
<1>3. /\ Busy(w) /\ req[w].user \in User /\ req[w].type = "signup" /\ status[w] = 0
      /\ req[w].salt \in Token /\ req[w].passwd \in Passwd
  BY <1>2, RequestFields DEF Control
<1>4. Written(w) \in Account
  BY <1>3 DEF TypeOK, Written, HasTtl, Account
<1>5. stored \subseteq stored' /\ stored' \subseteq User \X Passwd
  BY <1>1, <1>3 DEF TypeOK
<1>6. TypeOK'
  <2>1. users' \in [User -> Account \cup {Nil}]
    BY <1>1, <1>4 DEF TypeOK
  <2>2. QED  BY <1>1, <1>2, <1>5, <2>1, SMTT(30) DEF TypeOK, Control, Busy, AtCommand, memory
<1>7. Control'
  BY <1>1, <1>2, <1>3 DEF TypeOK, Control, Busy
<1>8. Kept' /\ Passed' /\ Read'
  BY <1>1, <1>2, <1>5 DEF TypeOK, Kept, Passed, Read, HeldSession
<1>9. Accounts'
  <2>1. \E i \in issued : i.type = "signup" /\ i.user = req[w].user /\ i.sesv = req[w].salt
    BY <1>2, <1>3 DEF Passed, HeldSession
  <2>2. CASE Ran(o)
    BY <1>1, <1>2, <2>1, <2>2 DEF TypeOK, Accounts, Written
  <2>3. CASE ~Ran(o)
    BY <1>1, <1>2, <2>3 DEF Accounts
  <2>4. QED  BY <2>2, <2>3
<1>10. Answered'
  <2>1. status'[w] # 200 /\ \A x \in Worker : x # w => status'[x] = status[x]
    BY <1>1, <1>3 DEF TypeOK
  <2>2. QED  BY <1>2, <1>5, <2>1 DEF Answered, HeldSession, Proved, Busy
<1>11. QED  BY <1>6, <1>7, <1>8, <1>9, <1>10

LEMMA UserExpireInv == ASSUME IInv, NEW w \in Worker, UserExpire(w) PROVE IInv'
<1> USE DEF IInv, Goto, Respond, Expiring, past
<1>1. PICK o \in Outcomes :
         /\ IF Ran(o) /\ users[req[w].user] # Nil
            THEN users' = [users EXCEPT ![req[w].user] = Expiring(req[w].user)]
            ELSE UNCHANGED users
         /\ Respond(w, IF o = "ok" /\ users[req[w].user] # Nil THEN 200 ELSE 422)
  BY DEF UserExpire
<1>2. /\ pc[w] = "userExp"
      /\ UNCHANGED <<memory, req, dbIdx, new, hash, setCookie, okKeys, sessions, past>>
  BY DEF UserExpire
<1>3. Busy(w) /\ req[w].user \in User /\ req[w].type = "signup" /\ HeldSession(w)
  BY <1>2, RequestFields DEF Control, Passed
<1>4. users' \in [User -> Account \cup {Nil}]
  <2>1. CASE users[req[w].user] # Nil
    <3>1. users[req[w].user] \in Account
      BY <1>3, <2>1 DEF TypeOK
    <3>2. [users[req[w].user] EXCEPT !.ttl = TRUE] \in Account
      BY <3>1 DEF Account
    <3>3. QED  BY <1>1, <3>2 DEF TypeOK
  <2>2. CASE users[req[w].user] = Nil
    BY <1>1, <2>2 DEF TypeOK
  <2>3. QED  BY <2>1, <2>2
<1>5. \A u \in User : users'[u] # Nil =>
         users[u] # Nil /\ users'[u].hash = users[u].hash /\ users'[u].salt = users[u].salt
  BY <1>1, <1>3 DEF TypeOK, Account
<1>6. pc' = [pc EXCEPT ![w] = "close"] /\ status' \in [Worker -> {0, 200, 422}]
  BY <1>1 DEF TypeOK
<1>7. TypeOK'
  BY <1>2, <1>4, <1>6, <1>1, SMTT(30) DEF TypeOK, Busy, AtCommand, memory
<1>8. Control' /\ Passed' /\ Read'
  BY <1>1, <1>2, <1>6 DEF TypeOK, Control, Passed, Read, HeldSession, Busy
<1>9. Kept' /\ Accounts'
  BY <1>2, <1>5 DEF Kept, Accounts
<1>10. \A x \in Worker : x # w => status'[x] = status[x]
  BY <1>1 DEF TypeOK
<1>11. Answered'
  BY <1>2, <1>3, <1>10 DEF Answered, HeldSession, Proved, Busy
<1>12. QED  BY <1>7, <1>8, <1>9, <1>11

LEMMA HashGetInv == ASSUME IInv, NEW w \in Worker, HashGet(w) PROVE IInv'
<1> USE DEF IInv, HashGet, Goto, Refuse, Respond, redis, past
<1>1. TypeOK'
  BY RequestFields, SMTT(30) DEF TypeOK, Control, Busy, AtCommand, memory, Account
<1>2. Control'
  BY RequestFields, SMTT(30) DEF TypeOK, Control, Busy
<1>3. Passed'
  BY SMTT(30) DEF TypeOK, Passed, HeldSession
<1>4. Read'
  BY RequestFields, SMTT(30) DEF TypeOK, Control, Read, Accounts
<1>5. QED  BY <1>1, <1>2, <1>3, <1>4, StoreSame, NobodyAccepted

LEMMA VerifyInv == ASSUME IInv, NEW w \in Worker, Verify(w) PROVE IInv'
<1> USE DEF IInv, Verify, Respond, Goto, redis, past
<1>1. TypeOK'
  BY SMTT(30) DEF TypeOK, Control, Busy, AtCommand, memory
<1>2. Control'
  BY DEF TypeOK, Control, Busy
<1>3. Passed' /\ Read'
  BY DEF TypeOK, Passed, Read, HeldSession
<1>4. Answered'
  <2>1. HeldSession(w)
    BY DEF Passed
  <2>2. HashMatches(w) => Proved(w)
    BY DEF TypeOK, Read, HashMatches, Proved
  <2>3. /\ status'[w] = 200 => HashMatches(w)
        /\ \A x \in Worker : x # w => status'[x] = status[x]
    BY DEF TypeOK
  <2>4. \A x \in Worker : (HeldSession(x) => HeldSession(x)') /\ (Proved(x) => Proved(x)')
    BY DEF HeldSession, Proved
  <2>5. QED
    BY <2>1, <2>2, <2>3, <2>4 DEF Answered, Busy
<1>5. QED  BY <1>1, <1>2, <1>3, <1>4, StoreSame

LEMMA CloseInv == ASSUME IInv, NEW w \in Worker, Close(w) PROVE IInv'
<1> USE DEF IInv, Close, Goto, redis, past
<1>1. TypeOK'
  BY SMTT(30) DEF TypeOK, Control, Busy, AtCommand, memory
<1>2. Control'
  BY DEF TypeOK, Control, Busy
<1>3. Passed' /\ Read'
  BY DEF TypeOK, Passed, Read, HeldSession
<1>4. Answered'
  BY DEF TypeOK, Answered, HeldSession, Proved, Busy
<1>5. QED  BY <1>1, <1>2, <1>3, <1>4, StoreSame
-----------------------------------------------------------------------------
(* The environment. *)

LEMMA ExpireInv ==
    ASSUME IInv,
           \/ \E k \in okKeys : ExpireOk(k)
           \/ \E s \in sessions : ExpireSession(s)
           \/ \E u \in User : ExpireUser(u)
    PROVE  IInv'
<1>1. /\ okKeys' \subseteq okKeys /\ sessions' \subseteq sessions
      /\ users' \in [User -> Account \cup {Nil}]
      /\ \A u \in User : users'[u] \in {users[u], Nil}
      /\ UNCHANGED <<memory, local, past>>
  BY DEF ExpireOk, ExpireSession, ExpireUser, IInv, TypeOK
<1> USE <1>1 DEF IInv, memory, local, past
<1>2. TypeOK'
  BY DEF TypeOK, Busy, AtCommand
<1>3. Control' /\ Passed' /\ Read'
  BY DEF Control, Passed, Read, HeldSession, Busy
<1>4. Kept' /\ Accounts'
  BY DEF Kept, Accounts
<1>5. Answered'
  BY DEF Answered, HeldSession, Proved, Busy
<1>6. QED  BY <1>2, <1>3, <1>4, <1>5

LEMMA CrashInv == ASSUME IInv, Crash PROVE IInv'
<1> USE DEF IInv, Crash, redis, past
<1>1. TypeOK'
  BY DEF TypeOK, Busy, AtCommand
<1>2. Control' /\ Passed' /\ Read' /\ Answered'
  BY DEF Control, Passed, Read, Answered
<1>3. QED  BY <1>1, <1>2, StoreSame

LEMMA StutterInv == ASSUME IInv, UNCHANGED vars PROVE IInv'
BY DEF IInv, TypeOK, Control, Kept, Passed, Accounts, Read, Answered, HeldSession, Proved,
   Busy, AtCommand, vars, memory, local, redis, past
-----------------------------------------------------------------------------
\* The inductive invariant holds in every reachable state.
THEOREM Invariance == Spec => []IInv
<1>1. IInv /\ [Next]_vars => IInv'
  <2> SUFFICES ASSUME IInv, [Next]_vars PROVE IInv'
    OBVIOUS
  <2>1. ASSUME NEW w \in Worker, Accept(w) \/ Serve(w) PROVE IInv'
    BY <2>1, AcceptInv, LoadDbInv, OkExistsInv, CountInv, SessSetInv, SaltGetInv, WriteBufInv,
       SendSessInv, SessGetInv, UserExistsInv, OkSetInv, HSetInv, UserExpireInv, HashGetInv,
       VerifyInv, CloseInv DEF Serve
  <2>2. QED  BY <2>1, ExpireInv, CrashInv, StutterInv DEF Next
<1>2. QED  BY InitIInv, <1>1, PTL DEF Spec

\* Every variable has its type, an idle thread holds nothing of an earlier
\* request, and no command goes to a database outside common.h.
THEOREM TypeCorrect == Spec => []TypeOK
<1>1. IInv => TypeOK
  BY DEF IInv
<1>2. QED  BY Invariance, <1>1, PTL

\* Every account descends from a signup session issued for its user name and
\* salt (handler lines 59-118), whatever the interleaving and the faults.
THEOREM AccountsFromSessions == Spec => []AccountsComeFromSessions
<1>1. IInv => AccountsComeFromSessions
  BY DEF IInv, Accounts, AccountsComeFromSessions
<1>2. QED  BY Invariance, <1>1, PTL

\* A 200 to a submit goes only to a holder of an issued session and cookie
\* (handler lines 59-82).
THEOREM SessionChecked == Spec => []AcceptedSubmitHeldSession
<1>1. IInv => AcceptedSubmitHeldSession
  BY DEF IInv, Answered, AcceptedSubmitHeldSession
<1>2. QED  BY Invariance, <1>1, PTL

\* A 200 to a login goes only to a client that proved knowledge of a stored
\* hash of that user (handler lines 120-151).
THEOREM PasswordChecked == Spec => []LoginProvesPassword
<1>1. IInv => LoginProvesPassword
  BY DEF IInv, Answered, Proved, LoginProvesPassword
<1>2. QED  BY Invariance, <1>1, PTL
=============================================================================
