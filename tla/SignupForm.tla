------------------------------ MODULE SignupForm ------------------------------
(***************************************************************************)
(* The page in front of the daemon: signup_html/, shared by the login page *)
(* through login_html/env.js.  One submission asks the daemon for a        *)
(* session (first fetch), hashes the password with the session's salt, and *)
(* posts the result (second fetch).  A browser page has one thread, but    *)
(* every `await` lets other events in: the user types, presses Enter in a  *)
(* field (which works while the button is disabled), or changes the        *)
(* language, and a second submission runs between the steps of the first.  *)
(* They share the page's globals: realUsername, realPassword,              *)
(* argon2saltsalt, the browser's session cookie, the button and the        *)
(* message line.                                                           *)
(*                                                                         *)
(* Bounds and abstractions.  Submission is the finite set of submissions   *)
(* of one page view.  Names and passwords are values of small sets, with   *)
(* the subset the validators accept given as a constant.  A salt or a      *)
(* session is named by the submission the daemon made it for; the salt of  *)
(* a login, which belongs to the account, is named by the user name.  A    *)
(* hash is the record of what went into it.  Time is left out: the session *)
(* cookie does not expire (it lives 300 s) between two fetches.            *)
(***************************************************************************)
EXTENDS Naturals

CONSTANTS
    Submission,     \* the submissions of one page view
    Name,           \* what the user may type as a name
    Password,       \* what the user may type as a password
    ValidName,      \* the names isValidUsername accepts
    ValidPassword,  \* the passwords the four password checks accept
    Empty,          \* the text of an empty field
    None            \* no value yet

ASSUME FormAssumption ==
    /\ ValidName \subseteq Name
    /\ ValidPassword \subseteq Password
    /\ Empty \in Name \ ValidName
    /\ Empty \in Password \ ValidPassword

VARIABLES
    funcName,       \* which page: env.js says "signup" or "login"
    identity,       \* the text of the name field
    realPassword,   \* the global behind the masked password field
    realUsername,   \* the global handleFormSubmit assigns
    argon2saltsalt, \* the global argon2_calc salts with
    wasm,           \* the Argon2 module: "loading", "loaded" or "failed"
    cookie,         \* the session cookie the browser holds
    disabled,       \* submitButton.disabled
    message,        \* what the message line says
    redirecting,    \* handleSignupSuccess started its countdown
    page,           \* "open", or "left" once the countdown moved on
    job             \* the progress of every submission

globals == <<realPassword, realUsername, argon2saltsalt>>
button  == <<disabled, message, redirecting>>
vars == <<funcName, identity, globals, wasm, cookie, button, page, job>>

Stages == {"session", "refusedText", "sessionText", "hash1", "hash2", "post",
           "errorText"}

\* Submission s is somewhere between handleFormSubmit's call and its return.
InFlight(s) == job[s].pc \in Stages

\* A submission nobody made yet.  `name` and `password` are what was
\* validated, `hash` the last hash, `posted` the second fetch's body with the
\* cookie it carried.  `alone` is not in the code: it says that the password
\* was not edited and no other submission made or running since this one was.
Fresh == [pc |-> "new", name |-> None, password |-> None, hash |-> None,
          posted |-> None, alone |-> TRUE]

\* DOMContentLoaded has run: listeners set, fields empty, Argon2 loading.
Init ==
    /\ funcName \in {"signup", "login"}
    /\ identity = Empty
    /\ realPassword = Empty
    /\ realUsername = None
    /\ argon2saltsalt = None
    /\ wasm = "loading"
    /\ cookie = None
    /\ disabled = FALSE
    /\ message = ""
    /\ redirecting = FALSE
    /\ page = "open"
    /\ job = [s \in Submission |-> Fresh]

-----------------------------------------------------------------------------
(* The user and the loader                                                 *)

\* A page that was left runs nothing any more.
Open == page = "open" /\ UNCHANGED page

TypeName ==
    /\ Open
    /\ identity' \in Name
    /\ UNCHANGED <<funcName, globals, wasm, cookie, button, job>>

\* Every submission in flight, except those of S, has been disturbed.
Disturb(S) == [s \in Submission |->
    IF InFlight(s) /\ s \notin S THEN [job[s] EXCEPT !.alone = FALSE]
                                 ELSE job[s]]

\* An edit assigns realPassword and redraws the field; nothing looks whether a
\* submission runs.
SetPassword(p) ==
    /\ Open
    /\ realPassword' = p
    /\ job' = Disturb({})
    /\ UNCHANGED <<funcName, identity, realUsername, argon2saltsalt, wasm,
                   cookie, button>>

\* Typing, deleting, pasting and clearing; no listener is ever removed.
TypePassword == \E p \in Password : SetPassword(p)

\* applyLanguage rewrites the button's text and empties the message line.
ChangeLanguage ==
    /\ Open
    /\ message' = ""
    /\ UNCHANGED <<funcName, identity, globals, wasm, cookie, disabled,
                   redirecting, job>>

\* The wasm file and argon2.js arrive, or one of them does not; nothing
\* tries again.
LoadArgon2 ==
    /\ Open
    /\ wasm = "loading"
    /\ wasm' \in {"loaded", "failed"}
    /\ UNCHANGED <<funcName, identity, globals, cookie, button, job>>

\* The countdown reaches zero: window.location.href = funcSucceed.
Redirect ==
    /\ redirecting
    /\ page = "open"
    /\ page' = "left"
    /\ UNCHANGED <<funcName, identity, globals, wasm, cookie, button, job>>

-----------------------------------------------------------------------------
(* handleFormSubmit, up to its first await                                 *)

\* Mutant: the name is not validated.
Accepts_AnyName(n, p) == p \in ValidPassword

Accepts(n, p) == n \in ValidName /\ p \in ValidPassword

\* Nothing is in flight.
Quiet == \A s \in Submission : ~InFlight(s)

\* A submission of the fields' content that is about to ask for its session.
Started == [pc |-> "session", name |-> identity, password |-> realPassword,
            hash |-> None, posted |-> None, alone |-> Quiet]

\* The name becomes global before it is validated.
Submit(s) ==
    /\ Open
    /\ job[s].pc = "new"
    /\ realUsername' = identity
    /\ IF Accepts(identity, realPassword)
         THEN /\ job' = [Disturb({s}) EXCEPT ![s] = Started]
              /\ disabled' = TRUE
              /\ message' = ""
         ELSE /\ job' = [Disturb({s}) EXCEPT ![s].pc = "ended"]
              /\ message' = "invalid"
              /\ UNCHANGED disabled
    /\ UNCHANGED <<funcName, identity, realPassword, argon2saltsalt, wasm,
                   cookie, redirecting>>

\* A disabled button gets no click; the keydown listener of the two fields
\* does not look at the button.
Click(s) == ~disabled /\ Submit(s)

Enter(s) == Submit(s)

-----------------------------------------------------------------------------
(* How a submission goes on or ends                                        *)

GoOn(s, stage) == job' = [job EXCEPT ![s].pc = stage]

\* Mutant: the button is not freed.
Released_Kept(text) == message' = text /\ UNCHANGED disabled

\* handleSessionError, handleSignupError and the error branches of
\* getOrAskForAtmpSession and calc_passHash: say something, free the button.
Released(text) == message' = text /\ disabled' = FALSE

End(s, text) ==
    /\ GoOn(s, "ended")
    /\ Released(text)
    /\ UNCHANGED redirecting

\* fetch #1 resolves: a session, a refusal, or nothing (the fetch rejects).
\* A refusal frees the button before its text is awaited.
SessionReply(s) ==
    /\ Open
    /\ job[s].pc = "session"
    /\ \/ /\ GoOn(s, "sessionText")
          /\ cookie' = s
          /\ UNCHANGED button
       \/ /\ GoOn(s, "refusedText")
          /\ Released("session")
          /\ UNCHANGED <<cookie, redirecting>>
       \/ /\ End(s, "tries")
          /\ UNCHANGED cookie
    /\ UNCHANGED <<funcName, identity, globals, wasm>>

\* The refusal's text arrives (or does not): getOrAskForAtmpSession reports
\* it and frees the button again.
RefusedText(s) ==
    /\ Open
    /\ job[s].pc = "refusedText"
    /\ End(s, "tries")
    /\ UNCHANGED <<funcName, identity, globals, wasm, cookie>>

\* Mutant: the salt global is set after the hash was computed.
Hashed_Before(salt, of) ==
    [salt |-> argon2saltsalt, input |-> salt, name |-> realUsername, of |-> of]

\* What calc_passHash gives argon2_calc: the salt, the global name, and the
\* global password or, for the second hash of a login, the first hash.
Hashed(salt, of) ==
    [salt |-> argon2saltsalt', input |-> salt, name |-> realUsername, of |-> of]

\* One Argon2 computation of s: the salt global is set, then argon2_calc runs
\* to its end, and `await sha256` lets others in at stage `stage`.  It fails
\* when the module is not loaded or Argon2 refuses.
Argon2(s, salt, of, stage) ==
    /\ argon2saltsalt' = salt
    /\ \/ /\ wasm = "loaded"
          /\ job' = [job EXCEPT ![s].pc = stage, ![s].hash = Hashed(salt, of)]
          /\ UNCHANGED button
       \/ End(s, "status")

\* jsonGetHexLen finds no version 1 or no 32 hex digits: the salt is null,
\* which Argon2 refuses.
NullSalt(s) == argon2saltsalt' = None /\ End(s, "status")

\* Mutant: a login hashes twice with its session.
Salt1_Session(s) == s

\* The salt of the first hash: signup_sess, or the account's login_salt.
Salt1(s) == IF funcName = "signup" THEN s ELSE job[s].name

\* The session's text arrives, and all runs on to the first hash; a text that
\* is no JSON, or JSON's null, or no text at all ends the submission before.
SessionText(s) ==
    /\ Open
    /\ job[s].pc = "sessionText"
    /\ \/ Argon2(s, Salt1(s), realPassword, "hash1")
       \/ NullSalt(s)
       \/ End(s, "tries") /\ UNCHANGED argon2saltsalt
    /\ UNCHANGED <<funcName, identity, realPassword, realUsername, wasm,
                   cookie>>

\* The body of fetch #2 names the global realUsername of that moment; the
\* browser adds the cookie it holds.
Body(s) == [name |-> realUsername, salt |-> s, hash |-> job[s].hash,
            cookie |-> cookie]

Post(s) ==
    /\ job' = [job EXCEPT ![s].pc = "post", ![s].posted = Body(s)]
    /\ UNCHANGED button

\* sha256 of the first hash resolves: a signup posts, a login hashes again
\* with login_sess.  Without crypto.subtle sha256 returns null.
Hash1(s) ==
    /\ Open
    /\ job[s].pc = "hash1"
    /\ \/ funcName = "signup" /\ Post(s) /\ UNCHANGED argon2saltsalt
       \/ funcName = "login" /\ Argon2(s, s, job[s].hash, "hash2")
       \/ funcName = "login" /\ NullSalt(s)
       \/ End(s, "status") /\ UNCHANGED argon2saltsalt
    /\ UNCHANGED <<funcName, identity, realPassword, realUsername, wasm,
                   cookie>>

Hash2(s) ==
    /\ Open
    /\ job[s].pc = "hash2"
    /\ Post(s) \/ End(s, "status")
    /\ UNCHANGED <<funcName, identity, globals, wasm, cookie>>

\* Mutant: no countdown.
Succeed_Silent(s) ==
    /\ GoOn(s, "ended")
    /\ message' = "success"
    /\ UNCHANGED <<redirecting, disabled>>

\* handleSignupSuccess: the message and the countdown; the button is left as
\* it is.
Succeed(s) ==
    /\ GoOn(s, "ended")
    /\ message' = "success"
    /\ redirecting' = TRUE
    /\ UNCHANGED disabled

\* fetch #2 resolves with 200, with 422 whose text is awaited first, or with
\* anything else (or rejects).
PostReply(s) ==
    /\ Open
    /\ job[s].pc = "post"
    /\ \/ Succeed(s)
       \/ GoOn(s, "errorText") /\ UNCHANGED button
       \/ End(s, "status")
    /\ UNCHANGED <<funcName, identity, globals, wasm, cookie>>

\* On the signup page get_cookie_md5_6 is not loaded: the ReferenceError goes
\* to the catch, which reports status 0.
ErrorText(s) ==
    /\ Open
    /\ job[s].pc = "errorText"
    /\ End(s, "status")
    /\ UNCHANGED <<funcName, identity, globals, wasm, cookie>>

Resume(s) ==
    \/ SessionReply(s) \/ RefusedText(s) \/ SessionText(s)
    \/ Hash1(s) \/ Hash2(s)
    \/ PostReply(s) \/ ErrorText(s)

Next ==
    \/ TypeName \/ TypePassword \/ ChangeLanguage
    \/ LoadArgon2 \/ Redirect
    \/ \E s \in Submission : Click(s) \/ Enter(s) \/ Resume(s)

\* A browser resolves or rejects every fetch and digest in the end, and runs
\* a timer that is due.  Nothing makes the user do anything.
Fairness ==
    /\ \A s \in Submission : WF_vars(Resume(s))
    /\ WF_vars(Redirect)

Spec == Init /\ [][Next]_vars /\ Fairness

-----------------------------------------------------------------------------
(* Properties                                                              *)

Salts == Submission \cup Name

Hash1s == [salt : Salts, input : Salts, name : Name, of : Password]
Hashes == Hash1s \cup [salt : Salts, input : Salts, name : Name, of : Hash1s]
Bodies == [name : Name, salt : Submission, hash : Hashes, cookie : Submission]

\* Every global of the page keeps its type, and a submission's record has the
\* fields its stage has filled (form_submit.js, calc_passHash.js).
TypeOK ==
    /\ funcName \in {"signup", "login"}
    /\ identity \in Name
    /\ realPassword \in Password
    /\ realUsername \in Name \cup {None}
    /\ argon2saltsalt \in Salts \cup {None}
    /\ wasm \in {"loading", "loaded", "failed"}
    /\ cookie \in Submission \cup {None}
    /\ disabled \in BOOLEAN
    /\ message \in {"", "invalid", "session", "tries", "status", "success"}
    /\ redirecting \in BOOLEAN
    /\ page \in {"open", "left"}
    /\ job \in [Submission ->
          [pc : {"new", "ended"} \cup Stages,
           name : ValidName \cup {None}, password : ValidPassword \cup {None},
           hash : Hashes \cup {None}, posted : Bodies \cup {None},
           alone : BOOLEAN]]

\* What the daemon will recompute for a submission of n and p in session s.
Answer(s, n, p) ==
    IF funcName = "signup"
      THEN [salt |-> s, input |-> s, name |-> n, of |-> p]
      ELSE [salt |-> s, input |-> s, name |-> n,
            of |-> [salt |-> n, input |-> n, name |-> n, of |-> p]]

\* A submission that nobody disturbed posts what it validated: the name and
\* the password of the fields, hashed with its own session's salt, under its
\* own session's cookie -- although every one of these travels through a
\* global that other events assign (form_submit.js:10, calc_passHash.js:14-42).
PostsWhatWasChecked ==
    \A s \in Submission :
        job[s].alone /\ job[s].posted # None =>
            job[s].posted =
                [name |-> job[s].name, salt |-> s, cookie |-> s,
                 hash |-> Answer(s, job[s].name, job[s].password)]

\* Whatever runs between its steps, a submission's last hash is salted with
\* its own session, on both sides of the salt: argon2saltsalt is a global,
\* but no await separates its assignment from argon2_calc
\* (calc_passHash.js:15-16 and 34-35, load_argon2.js:54).
SaltIsOwn ==
    \A s \in Submission :
        job[s].posted # None =>
            /\ job[s].posted.salt = s
            /\ job[s].posted.hash.salt = s
            /\ job[s].posted.hash.input = s

\* No submission ends in silence: the step that ends it leaves a message, and
\* either a button that works or a countdown (form_submit.js:33-80,
\* calc_passHash.js:50-103).
EndsReported ==
    [][\A s \in Submission :
         InFlight(s) /\ job'[s].pc = "ended" =>
             message' # "" /\ (~disabled' \/ redirecting')]_vars

\* A disabled button does not stay so: it works again, or the page moves on
\* (form_submit.js:28-32, form_submit_handle.js:7-53).
ButtonComesBack == disabled ~> (~disabled \/ page = "left")

\* README.md:17 says that a password has 14 characters at least.  The page
\* alone can see to that, as the daemon gets a hash; it hashes realPassword
\* when the session has arrived, not the string it validated.
PostedPasswordIsValid ==
    \A s \in Submission :
        job[s].posted # None /\ funcName = "signup" =>
            job[s].posted.hash.of \in ValidPassword
=============================================================================
