--------------------------- MODULE MCSignupDaemon ---------------------------
(* Small instances of SignupDaemon. *)
EXTENDS SignupDaemon

CONSTANTS w1, w2, u1, u2, i1, a1, ta, tb, p1, p2

\* A login hash is taken to determine what it was computed from.
MCLoginHash(t, u, h) == <<t, u, h>>
MCPasswd == {p1, p2} \cup {<<t, u, p>> : t \in Token, u \in User, p \in {p1, p2}}

Other == [type |-> "other", ip |-> i1, user |-> u1, body |-> "none",
          salt |-> Nil, cookie |-> Nil, passwd |-> Nil]
Bad(type) == [Other EXCEPT !.type = type, !.body = "bad"]
New(type, u) == [Other EXCEPT !.type = type, !.user = u, !.body = "new"]
Submit(type, u, p) ==
    [type |-> type, ip |-> i1, user |-> u, body |-> "submit",
     salt |-> ta, cookie |-> tb, passwd |-> p]
Login(type, u, p) == Submit(type, u, <<ta, u, p>>)
\* The session's id without its cookie.
NoCookie(r) == [r EXCEPT !.cookie = Nil]

\* One session value for all: every new session repeats it, as a race in the
\* generator can make it do.
OnePair == {<<ta, tb>>}

\* The same session id with either cookie: a second session replaces a first.
SameId == {<<ta, tb>>, <<ta, ta>>}

Sequential ==
    {Other, Bad("signup"), New("signup", u1), Submit("signup", u1, p1),
     New("login", u1), Login("login", u1, p1), Login("login", u1, p2),
     New("admin", u1), Login("admin", u1, p1), NoCookie(Login("login", u1, p1))}

\* A signup while a login, of another database, comes in between.
SignupBesideLogin ==
    {New("signup", u1), Submit("signup", u1, p1), Login("login", u1, p1)}

Signups == {New("signup", u1), Submit("signup", u1, p1), Submit("signup", u1, p2)}
TwoUsers == {New("signup", u1), New("signup", u2), Submit("signup", u1, p1),
             Submit("signup", u2, p1)}
=============================================================================
