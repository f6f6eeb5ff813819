# Specifications of the signup daemon

TLA+ models of the signup/login/admin daemon under `src/src` (C, one process,
several threads, one Redis), the TLC runs that check them and the TLAPS proofs
about them. Line numbers below refer to the files as they stand in this
repository.

## 1. The system and its parts

The daemon listens on a UNIX socket behind a web server. `main` creates a
fixed number of threads; each of them accepts one connection, reads one HTTP
request, serves it to the end, closes it and goes back to `accept`. Accounts,
sessions and per-IP counters live in Redis; each thread has its own Redis
connection. Browsers run the form under `src/signup_html`, which hashes the
password, asks for a session, submits, and shows the answer. Administrators have pages of their own
under `src/admin_html`, for a server that is not in this repository.

| Part (files) | State it keeps | Operations | Status |
|---|---|---|---|
| request handling (`http_server_main_loop.c`, `http_server_main_loop_handler.c`, `check_post_type_path.c`, `sess_handle_new_request.c`, `send_response_sess.c`, `http_main_loop_clean_before_exit.c`) | globals `DbIdx_ipCountX` and `buf1`, shared by all threads; locals of the request in hand | accept and parse; new session; submit of a signup, of a login, of an admin login; close | `SignupDaemon` |
| IP limiter (`redis_check_ip.c`, `redis_increment.c`) | Redis counters `{type}Failed:{ip}:count` and their TTLs | one check: EXISTS, INCR, EXPIRE | `IpLimiter` |
| Redis access (`redis.c`, `redis_get_int.c`, `redis_get_hget_string.c`, `redis_set_hset_key_value.c`) | thread-local connection `ctx` and `current_dbIdx` | connect, AUTH, SELECT, a command, HSET followed by EXPIRE | `RedisConn`, which implements `RedisCall`; the outcomes of a command in `SignupDaemon` |
| password hashes (`calc_hash_for_login.c`, `calc_hash_passwd_argon.c`) | none | login hash from session id, user and stored hash | comparison in `SignupDaemon`; the function itself is a parameter |
| session ids (`gen_a_new_md5sum_hex_32byte.c`) | static digest context and seed | next pair of 32-character values | a set of possible pairs in `SignupDaemon`; planned as `TokenGen` |
| parsing and validation (`http_parser.c`, `http_utils.c`, `cookie_extract.c`, `http_get_client_ip.c`) | none | body, user name, cookie, client address | the outcomes the handler tells apart in `SignupDaemon`; planned as `RequestPath` |
| responses (`send_response.c`) | none | status line, headers, body, one `write` | status and session cookie in `SignupDaemon` |
| process lifecycle (`main.c`, `server.c`, the loop of `http_server_main_loop.c`) | listening socket, its path, run flag, threads | start, signal, shutdown, restart | `Lifecycle`; death of the process in `SignupDaemon` and `IpLimiter` |
| signup and login form (`signup_html/form*.js`, `calc_passHash.js`, `validators.js`) | session cookie and storage, button state, password | validate, get a session, hash, submit, show the answer | `SignupForm`; two rules of the validators in `Validators` |
| password field (`signup_html/password*.js`, `ui_update.js`) | masked text, real password, selection, label, preview, strength | key, paste, delete, clear, show, hide | `PasswordField`, which implements `TextField`; an edit of the password in `SignupForm` |
| argon2 loader (`js/load_argon2.js`) | load state and one callback | load, wait, call | loaded or failed in `SignupForm`; planned as `Argon2Loader` |
| admin pages (`admin_html`) | permissions, page, list shown, rows, requests in flight, message | ask for the permissions, load, turn the page, approve, reject | `AdminPages`: `main.js`, `index.html`, `approve-users.html` |
| executable fingerprint, unused helpers, presentation, vendored argon2 | | | not modelled |

How the parts interact:

* Threads share Redis. Every command is atomic there; nothing spans two
  commands (no MULTI, no script), so every pair of commands of a handler can be
  separated by commands of other threads, by a key reaching its TTL, or by the
  end of the process.
* Threads share two pieces of process memory without a lock. `DbIdx_ipCountX`
  is the Redis database of "the request in hand" and is set by every thread on
  accept (`check_post_type_path.c:93`) and read by every thread later
  (`http_server_main_loop_handler.c`, `sess_handle_new_request.c`). The post
  type it is derived from is `thread_local`; it is not. `buf1` in
  `send_response_sess.c` is a static text buffer for the session cookie.
* The submit path trusts what the session path stored: `{type}_sess:{user}:{sesv}`
  in Redis, the pair's other half as a cookie at the client.
* The login path trusts what the signup path stored: `loginUser:{user}` with a
  hash and a salt.

What is hard to test here: interleavings of two threads around the two globals
and around check-then-write on a user name; a Redis command that ran although
its reply was lost; the second of two commands failing; the process ending
between two commands (SIGPIPE is not ignored, so a client that hangs up before
its response ends all threads); keys expiring between two reads. `PROJECT.json`
lists each of these at its line with the properties that are about it.

Correctness, by part:

* request handling: a submit is accepted only from a client that holds a session
  given out for its type and user; a login only from one that knows a stored
  hash; accounts come from signup sessions; an accepted signup is stored, once,
  with a TTL; every request is answered; a client gets its own cookie; keys of
  a type stay in that type's database; one account per name; one per IP and hour;
* IP limiter: no more requests than the limit in a counter's lifetime; counters
  do not live forever;
* Redis access: a command runs at most once, in the database asked for, and is
  reported as done only if it ran;
* lifecycle: a daemon can be reached at its path until it is told to end, also
  after another was killed there; shutdown ends; connections are served;
* password field: the password that is submitted is what the user typed;
* form: what is hashed is what was validated; overlapping submissions keep their
  salts apart; an end is always reported and gives the button back;
* admin pages: the list shown is the one asked for, what is taken away or
  announced as done was done, nothing is asked for without the right or twice at once, and spinners
  and disabled buttons come to an end.

## 2. Modules

### SignupDaemon

State: the two globals, the locals of each thread (`pc`, `req`, `dbIdx`, `new`,
`hash`, `status`, `setCookie`), Redis (`okKeys`, `sessions`, `users`) and two
history variables used by properties only (`issued`, `stored`).

| Action | Code |
|---|---|
| `Accept` | `http_server_main_loop.c:43-81`, `check_post_type_path.c:82-96`: accept, read, parse, choose the type, set `DbIdx_ipCountX` |
| `LoadDb` | each read of `DbIdx_ipCountX` as an argument, before the command of that call |
| `OkExists`, `Count` | `redis_check_ip`: EXISTS of the OK key; the counter, abstracted to "passes or not" (it is the subject of `IpLimiter`) |
| `SessSet`, `SaltGet`, `WriteBuf`, `SendSess` | a new session: SET of the session key, the user's salt for a login, `snprintf` into `buf1`, the response |
| `SessGet`, `UserExists` | a submit: the session and the cookie, then the user name |
| `OkSet`, `HSet`, `UserExpire` | a signup: the OK key, the account, its TTL |
| `HashGet`, `Verify` | a login: the stored hash, the comparison |
| `Close` | `http_main_loop_clean_before_exit` |
| `ExpireOk`, `ExpireSession`, `ExpireUser` | Redis deletes a key whose TTL is over |
| `Crash` | the process ends and is started again; Redis keeps its keys |

One action is one Redis command with the local computation after it, or one
access to a shared global. A command has three outcomes (`Outcomes`): it ran and
was answered; it ran and the answer was lost; it did not run. The helpers treat
the last two alike. Hashes and session values are opaque; the login hash is an
operator parameter `LoginHash`, and nothing is assumed of it in the proofs.

Two places where the model may surprise a reader. `OkName` is a set of byte
strings that are never an address: the handler formats its `char **ip` with
`%s` (line 102), so the key written is named by the bytes of a pointer.
`UserFound` is FALSE for a signup: the handler looks for `signupUser:{user}`
(line 87), which nothing writes.

### SignupRaces

What the daemon promises a request that no other thread disturbed. It extends
`SignupDaemon` by two history variables, which no action reads: `met`, per
thread, what others did while its request was in hand, and `untimed`, the
accounts whose last EXPIRE was not confirmed. A request is disturbed in three
ways and no other: another thread accepts a request of another type (`"type"`,
which moves `DbIdx_ipCountX`); another thread is about to write `buf1` while
this one has a cookie to put there or to send from there (`"buffer"`); another
thread sends its HSET for the same user between this one's HSET and EXPIRE
(`"account"`). The properties say where the faults of the unlocked globals and
of the two commands end: threads, failed commands and crashes are as in
`SignupDaemon`, and none is assumed away.

### IpLimiter

State: the counters with their count and TTL in ticks, each thread's call in
progress, and history variables `passes` (requests let through in a counter's
lifetime) and `current`. `Accept` and `Call` set and read the database global,
`Exists`, `Incr`, `Expire` are the three commands, `Tick` is time, `Crash` the
end of the process. A count stops one above its limit: above the limit the
number is only ever compared with it. `faulty` becomes TRUE when a command
fails or the process ends: what an EXPIRE promises holds until then, and
`AtMostMaxAllowed` also after.

### RedisCall and RedisConn

`RedisCall` is what the two modules above take a Redis helper to be: a call
names a database and one or two commands, each of them runs at most once, in
order and in that database, and the helper returns 0 only if all ran. After an
error nothing is known, which is their `"lost"` and `"err"`.

`RedisConn` is how the code does it. Per thread: `ctx` and `current_dbIdx` (the
thread-local variables of `redis.c`), `link` (the server's end: the database
selected there, or closed), `reply`, and the call in progress. `Begin` is the
entry of a helper; `Reuse`, `Connect`, `Auth`, `Select` are
`redis_connect_thread`; `Send`, `NoReply`, `Reply` are the command, and EXPIRE
after an HSET; `ServerCloses` may happen at any time. A reply may be what the
helper wants, of another kind, an error, or never come. Two helpers call
`redis_connect_thread` once more before they call another helper
(`redis_check_ip.c:5`, `redis_increment.c:11`); that call either finds the
right database or does what the next one would, and is not repeated here.
`faults` counts failures up to `MaxFaults`, `failures` the calls they cost.

### SignupForm

State: the page's globals (`realUsername`, `realPassword`, `argon2saltsalt`), the
name field, the session cookie, the button and the message line, the loader's
state, and for each submission of the page view the stage it awaits.

| Action | Code |
|---|---|
| `TypeName`, `TypePassword`, `ChangeLanguage` | the listeners of the fields and of the language list, which work at any time |
| `LoadArgon2` | `load_argon2.js:133-230`, success or failure for good |
| `Click`, `Enter` | `form.js:2-20`: a click needs an enabled button, Enter does not; both run `handleFormSubmit` up to its first await |
| `SessionReply`, `RefusedText`, `SessionText` | the first fetch, its status and its text |
| `Hash1`, `Hash2` | `calc_passHash`: what runs after each `await sha256`; a login hashes twice |
| `PostReply`, `ErrorText` | the second fetch |
| `Redirect` | the end of the countdown |

One action is what runs between two awaits that give way to other events; an
await of a value that is already there does not. A hash is the record of what
went into it: the global salt, the salt in the text, the name, and the password
or the first hash. `alone` in a submission's record is a history variable: it
becomes FALSE when the password is edited, or another submission is made, while
the submission runs. It lets one run and one theorem speak of undisturbed
submissions while all others overlap as they can. `Empty` is the text of an
empty field, with which the page starts.

### Lifecycle

One daemon, which may be started again whenever it has ended, and of another
one what it does to the socket path they share. State: `path` (what
`DEFAULT_SOCKET_PATH` leads to), `main` (where `main` is), `keep_running`,
`handling` (the threads that run the handler of SIGINT), the listening socket and the queue the kernel holds for it, per
thread where `http_serve` is and its connection, and per client what it has
done.

| Action | Code |
|---|---|
| `Start`, `Unlink`, `Bind`, `Chmod`, `Listen`, `ListenFails` | `main.c:9-28`, `server.c:28-68`: each system call another daemon can come between |
| `Spawn`, `SpawnFails`, `Join`, `Remove` | `main.c:30-57` |
| `Interrupt`, `HandlerUnlink` | `sigint_handler`, on `Main` or on any thread that lives, which does nothing else between its two effects |
| `Kill` | SIGTERM (reset to its default), SIGKILL, SIGINT before its handler is set, a crash |
| `Enter`, `Loop`, `Accept`, `AcceptFails`, `Read`, `Respond` | `http_serve`; the answer to a client that has hung up raises SIGPIPE, which ends the process |
| `Connect`, `Speak`, `HangUp` | the web server |
| `OtherStarts`, `OtherUnlinks`, `OtherBinds`, `OtherEnds` | another daemon |

`server_fd` is never reset, so neither of the two tests of it is ever false:
`main` closes and unlinks once more after the handler did. `together` records
that two daemons were alive at once; then the path is anybody's. The kernel gives
SIGINT to any thread that does not block it, and none does; several may be in
the handler at once.

### TextField, Validators and PasswordField

The field is an element that holds asterisks. The browser edits the asterisks
and the handler guesses, from the kind of the event and the caret, what happened
to the password. One action of `PasswordField` is the browser's edit and the
handler after it: `InsertText`, `DeleteBackward`, `DeleteForward`, `OtherInput`
are the branches of `handlePasswordInput`; `DeleteKey`, `Paste` and
`ClearPassword` replace the browser's edit; `Select`, `ToggleVisibility` and
`ApplyLanguage` move the caret or redraw. `TextField` is what a user takes a
text field to be: an edit replaces what is selected. `plain` is a history
variable: it becomes FALSE with the first edit the handlers do not get right,
which are typing or deleting over a selection, inserting several characters in
the middle, and, while the field is masked, every other kind of input (cutting,
deleting a word, dropping a text, composing). Until then the field implements
`TextField`. `Validators` has the rules about rows of equal, ascending and
descending characters, beside a definition by the length of the rows.

### AdminPages

One tab. `boot` is the request for the permissions, `load` the loads of the list
under way, `act` the approvals and rejections, `table`, `enabled` and `hidden`
the rows. A request is `"sent"`, then `"body"` when the head of its answer has
arrived in time, and ends when the body is there; every stage may fail instead.
`fetchWithTimeout` covers the first stage only (`main.js:66`).

| Action | Code |
|---|---|
| `Visit`, `BootHead`, `BootDone`, `BootFails`, `BootRejected` | `checkAdminPermissions`, `initializeDashboard`, `checkModulePermission`, `handlePermissionError` |
| `LoadHead`, `LoadDone`, `LoadFails`, `LoadBreaks` | `fetchModuleData`, `loadPendingUsers`, `renderPendingUsers` |
| `ChangePage` | a button of `createPagination` |
| `Press`, `ActHead`, `ActDone`, `ActFails`, `ActBreaks` | `approveUser` and `rejectUser`, which do the same to the page, with `submitModuleData` |
| `HideError` | the timer of a success |
| `SignsUp`, `Gone` | the server alone: a user signs up; an account expires, or a request the page gave up is carried out |

The server lists the waiting users in a fixed order, `PerPage` to a page, so that
later users move up when earlier ones are decided: who is on a page follows from
how many wait before him (`Before`). Users sign up
(`SignsUp`) and stop waiting (`Gone`) at any time, and a user who was decided may
sign up again. A page may be left or loaded again with requests under way; the
server may still carry those out, which is `Gone`. `decided`, `crossed` and
`overlapped` are history variables: the users for whom the server has carried
out a request of this page, two loads were under way at once, and rows were taken
off the page while a request for one was under way.

### Proof modules

`SignupDaemonProofs`, `SignupRacesProofs`, `RedisConnProofs`,
`IpLimiterProofs`, `LifecycleProofs`, `SignupFormProofs`, `PasswordFieldProofs`
and `AdminPagesProofs` each extend the module they are named after and hold the
theorems about it, for all values of its constants (section 5).
`SignupRacesProofs` extends `SignupRaces` and `SignupDaemonProofs`.

### MC modules

Each component has an `MC` module, which names the model values and the sets (of
requests, for the daemon) that the `.cfg` files choose from.

## 3. Runs

| Run | Instance | What it shows |
|---|---|---|
| `one_thread` | one thread, all request types, a second cookie for the same session id, all faults, crashes, fairness | `AccountsComeFromSessions`, `AcceptedSubmitHeldSession`, `LoginProvesPassword` across every fault and restart; `RequestsAreAnswered` from the first signup to logins and admin logins |
| `races` | two threads, a user who has an account signs up again while a login comes in, two cookies, all faults, crashes | `TypeOK`; `UndisturbedUsesOwnDatabase`, `UnsharedCookieIsOwn`: nothing but the other thread's accept, or its writing of the buffer, makes a request use another database or cookie; `UndisturbedSignupIsStored`: a 200 to a signup means the account holds what was submitted, with a TTL, unless the other thread wrote it in between; `TtlMissingOnlyByFault` |
| `limiter` | two threads, one address, one type, all faults, crashes, fairness | `AtMostMaxAllowed`: no counter lets through more than its limit in its lifetime; until a command fails `CounterExpires` and `QuietIpIsForgotten` |
| `redis_conn` | two threads, two databases, two faults | `BelievedDb`: the cached index is the selected database; `FaultCostsOneCall`; `RefinesRedisCall` |
| `signup_form` | two submissions, two valid names and an empty one, a valid and an empty password, both pages, fairness | `SaltIsOwn`: the shared salt global never mixes two submissions; `PostsWhatWasChecked` of undisturbed ones; `EndsReported`: no silent end; `ButtonComesBack` |
| `lifecycle` | two threads, three clients, another daemon, fairness | `Reachable` unless two daemons were alive at once; `ShutdownEnds` unless a silent client holds a thread; `QueueIsServed` unless silent clients hold all |
| `password_field` | four characters, two at once, passwords of up to four edited in every way and typed on up to six | `FieldShowsPassword`, `PreviewIsCurrent`: five copies of one text stay in step; `EditsLikeTextField`; `RulesAgree`, with rows at the beginning, in the middle and at the end, and which rows of three pass against the page's word |
| `admin_pages` | two users on two pages, two loads, one request and two timers at once, fairness | `PermissionFirst`, `ShownPage`, `PageExists`, `OneRequestPerUser`; `ShownAsDone`: rows taken away and successes announced were done, and a success does not stay; `LoadingEnds` and `RowsComeBack`, unless a body never ends or the page is opened over and over |
| `database_race` | two threads, no faults | violated: a signup's command goes to the login database |
| `double_username` | one thread, no faults | violated: a second signup of a name overwrites the account |
| `signup_per_ip` | two users, one address, no faults | violated: two accounts from one address |
| `password_edited` | as `signup_form` | violated: a password edited while the session is on its way is posted without validation |

Bounds. Two threads suffice for every race the code has: each global is
written and then read by one thread, and one more thread comes in between. One
user suffices where a property is about one account, two where one request may
touch another's data. Every set that bounds a run is a constant named in its
`.cfg`: threads, users, tokens, requests, outcomes; there is no counter to cap
in `SignupDaemon`, and in `IpLimiter` the cap on counts is part of the module.
`OnePair` makes the generator repeat one value for ever, the worst a generator
can do to sessions, and `SameId` repeats the id with changing cookies. Two
threads with every fault and crash are in `races`, `limiter` and `redis_conn`;
the requests of the first (`SignupBesideLogin`) are those that can race for what
its properties are about, and it begins at `Later`, where the user signed up
once before with another password, so that an account is there to be
overwritten. The steps from `Init` to such an account are in `one_thread`. The
threads are symmetric, and `races`, which checks no liveness, says so to TLC
(`AnyThread`). The answer to a request waits for nothing another thread does, so
that `RequestsAreAnswered` is checked with one. `MaxFaults` is 2, so that a second
failure can hit the connection that replaces the first. `Window` is 3 ticks, so
a key can expire before, between and after any two commands of a call.

In `signup_form` two submissions suffice for what two can do to each other's
globals; the theorems are for any number.

In `lifecycle` three clients are one more than the threads, so that a connection
can wait in the queue while silent clients hold every thread; the kernel's limit
of the queue is not reached. `password_field` needs four characters for a word
inserted with characters on both sides of the caret (`EditLen`), and passwords of
six, so that a row of four can begin at three places and be followed and
preceded by others; those come about by typing on.
`MediumFrom` and `StrongFrom` are 2 and 4 where the page has 14 and 20. In
`admin_pages` one user to a page makes every decision move the other up. Two
loads can cross each other and the decision; while rows stay in place a page of
one user has one decision under way at most. The window of five page buttons
is wider than the list there. `Timers` caps the timers under way, which users who
sign up again could otherwise start without end: with two, one can hide the
message of the other.

Fairness. `FairSpec` asks weak fairness of each thread's step while it serves a
request (`Serve`), of a limiter call that has begun (`Step`) and of time
(`Tick`); never of `Accept`, of expiring keys or of faults. It is justified by
the operating system's scheduler and by Redis answering or closing the
connection. The code has no command timeout (`redis.c:26` is a connect timeout
only), so a Redis that accepts a command and stays silent is outside it. The
process may die at any time, and `RequestsAreAnswered` then owes nothing.
`SignupForm` asks weak fairness of each submission's next step (`Resume`), as a
browser settles every fetch and digest in the end, and of the countdown; the
user owes nothing. `Lifecycle` asks weak fairness of the handler on each thread,
and strong fairness of `main` and of the threads, each of which SIGINT may
interrupt again and again; nothing of clients, signals and the other daemon. `accept` returns within
a second (`SO_RCVTIMEO`), and handling a request is one step there, so Redis is
taken to answer. `AdminPages` asks weak fairness of timers only: the five seconds
of a request without a head, and the three of a message. A page that is loaded
again starts its five seconds anew, which weak fairness does not see; `LoadingEnds`
therefore excepts an administrator who does it for ever.

## 4. Findings

1. `http_server_main_loop_handler.c:87`: double user names are not detected
   (`double_username`).
2. `http_server_main_loop_handler.c:102`: the record of an address that signed
   up is written under a name nobody looks for (`signup_per_ip`).
3. `http_server_main_loop.c:27`: the database index is a plain global that each
   thread sets on accept and reads at later points, while the type it is
   derived from is thread-local (`database_race`).
4. `calc_passHash.js:14`: the password hashed is the one in the field when the
   session arrives, not the one validated (`password_edited`). Only the page can
   enforce the rule of `README.md:17`; the daemon gets a hash.

Four more the passing runs show by what their properties have to except.

5. `send_response_sess.c:3`: the cookie buffer is shared in the same way. A
   client may be sent another client's session cookie, or a mixture, which is why
   `UnsharedCookieIsOwn` needs its exception.
6. `redis_set_hset_key_value.c:97`: an account whose HSET ran and whose EXPIRE
   did not stays without a TTL, where `README.md:15` promises its end
   (`untimed` in `TtlMissingOnlyByFault`).
7. `sess_handle_new_request.c:16`: a login session for an unknown user is stored
   and then neither given out nor refused: the connection is closed without a
   response, as after every error of that function, where
   `calc_hash_passwd_argon.c:28` says "if not found, reject"
   (the exception of `RequestsAreAnswered`).
8. `validators.js:16,22`: three characters in a row are accepted, of which the
   messages of `lang.js:22-23` say they are refused: a character "repeated 3
   times", and "character sequences like abc, 123 or cba". The comments of
   `validators.js:14,19` say more than three, as the code does. The last part of
   `RulesAgree` says which passwords pass against the page's word.

Seen while modelling, and not the subject of a run.

In the daemon: refused requests renew the TTL of the counter, so an address that
keeps asking stays blocked (`redis_increment.c:24`). A second daemon that is
started by mistake takes the path from the first, which goes on without being
reachable; and when the first then ends it removes the path of the second
(`server.c:44`, `main.c:55`). A client that sends nothing holds a thread for
ever, also through a shutdown (`http_server_main_loop.c:58`).

In the form, Enter starts a second submission while
the button is disabled, even of a name the validators refuse, and the first
then posts that name (`form_submit.js:10`, `calc_passHash.js:23`); a refused
session enables the button one await too early
(`form_submit_session-manager.js:142`); and the signup page does not load
`cookie_get.js`, so that an error 422 is shown as 0 (`form_submit.js:64`). In the
masked password field every edit that makes `plain` FALSE can leave asterisks,
or characters the user did not type, in the password that is submitted
(`password_input.js:25-47`). The clear button leaves preview and strength as
they were (`ui_listener.js:56-62`).

On the admin pages, a page turned while a list is under way shows the answer that
comes last beside the buttons of the page asked for last
(`approve-users.html:69`); a failed request enables the buttons of a row drawn
since, and throws if there is none (`approve-users.html:214`); the timer of a
success hides an error that came after it; the level pages report a success as
a failure when the row is gone by then (`modify-basic-levels.html`,
`updateUserLevel`); the links of `NAV_ITEMS` have underscores and the files
hyphens (`main.js:22-35`); users who move up a page while the administrator
turns to the next are not shown.

## 5. Proofs

`SignupDaemonProofs` proves, for every value of the constants that satisfies
`ConstAssumption`:

* `TypeCorrect`: `Spec => []TypeOK`;
* `AccountsFromSessions`: `Spec => []AccountsComeFromSessions`;
* `SessionChecked`: `Spec => []AcceptedSubmitHeldSession`;
* `PasswordChecked`: `Spec => []LoginProvesPassword`.

All four follow from `Invariance: Spec => []IInv`. `IInv` strengthens the
properties with what a thread knows at each label: which kind of request can be
at a label (`Control`), that every session in Redis was issued (`Kept`), that a
thread past the session check held its session (`Passed`), that every account
has its session and its hash in the history (`Accounts`), that a hash read was
stored (`Read`), and that an answer of 200 kept the evidence for it
(`Answered`). It is needed because a session may expire, and an account may be
replaced, between the check and the answer: the properties alone say nothing of
the labels between. The proof of
the step has one lemma per action, with one step per conjunct. This inductive
invariant, like those below, was model-checked before it was proved.

`ConstAssumption` says that the requests are well formed, that a submit carries
a salt and a password (`parse_session_json` refuses it otherwise), and that the
bytes of a pointer are no address. Nothing is assumed of the generator or of
the hash: the theorems hold for a generator that repeats itself and for a hash
with collisions (a login is then accepted for what collides).

`SignupRacesProofs` proves, of `SignupRaces` and under the same assumption, for
any number of threads, any faults and any crashes:

* `OwnDatabaseUnlessChanged`: `RSpec => []UndisturbedUsesOwnDatabase`;
* `OwnCookieUnlessShared`: `RSpec => []UnsharedCookieIsOwn`;
* `SignupStoredUnlessWritten`: `RSpec => UndisturbedSignupIsStored`;
* `TtlMissing`: `RSpec => []TtlMissingOnlyByFault`.

Without their exceptions none of them holds (section 4, 3, 1, 5 and 6). The theorems say that nothing else can come between
the write and the read of a global, or between the two commands of an account.
`RSpec` implies `Spec`, so that `IInv` is at hand. What is added to it follows a
request step by step, as long as it is not disturbed: the global and the argument
read from it belong to its type (`OneDb`), the buffer is its own from `snprintf` to
`write` (`Unshared`, `OwnText`), and what its HSET stored is still there when
EXPIRE is sent, or is gone (`Saved`). The proof keeps what a step does to the
thread that takes it apart from what it does to the others.

`RedisConnProofs` proves, under `ConnAssumption` (databases are naturals, the
threads are finitely many):

* `TypeCorrect`, `DatabaseBelieved`: `Spec => []TypeOK`, `Spec => []BelievedDb`;
* `Refinement`: `Spec => RefinesRedisCall`;
* `FaultCost`: `Spec => []FaultCostsOneCall`.

The inductive invariant adds to the properties how many commands of a call have
run at each label and that from the first command on the believed database is
the call's (`Progress`): with `BelievedDb` a command then runs where it was
asked to. Each step maps to a step of `RedisCall` or to none. For `FaultCost`
the count needs what is not yet noticed: `Paid` says that the failed calls plus
the connections already lost are at most the faults, and each step either
pays, loses, or gives up one connection.

`SignupFormProofs` proves, under `FormAssumption` (the valid names and passwords
are names and passwords, and do not include the empty one):

* `TypeCorrect`: `Spec => []TypeOK`;
* `OwnSalt`: `Spec => []SaltIsOwn`;
* `CheckedIsPosted`: `Spec => []PostsWhatWasChecked`;
* `EndIsReported`: `Spec => EndsReported`.

`TypeOK` is strengthened by what each stage has filled (`Staged`): a body has a
cookie because a session came before it. `PostInv` adds, per submission, that
its hash is salted with its session (`Own`), and, if it is alone, that the
globals hold its name and its password, that the cookie is its own, and that no
other submission is in flight (`Undisturbed`). The last is why a step of one
submission cannot spoil another that is alone: it would have to be in flight.

`EndsReported` is an action property; it needs of the
invariant only the types, and that a click, an edit or another submission ends
none that runs.

`IpLimiterProofs` proves, under `LimiterAssumption` (finitely many threads, a
window of at least a tick, `Nil` is no counter):

* `TypeCorrect`, `LimitHolds`, `ExpirySent`: `Spec => []TypeOK`,
  `Spec => []AtMostMaxAllowed`, `Spec => []CounterExpires`.

The limit is about requests let through, and a thread decides that after its
INCR, when EXPIRE was answered; several may be between the two. What is
inductive counts them: the requests a counter let through and the threads that
still may (`Entitled`) are together at most the numbers within the limit that
INCR has returned (`Spent`). That threads are finitely many is needed to count
them; `main` creates a fixed number. `CounterExpires` is inductive with the
types and holds until `faulty`.

`LifecycleProofs` proves, under `LifecycleAssumption` (`None` is no client):

* `TypeCorrect`, `ReachableAtPath`: `Spec => []TypeOK`, `Spec => []Reachable`.

`TypeOK` says that a client is connected just when the queue or a thread has its
connection. It is inductive only when no connection is held twice (`HeldOnce`),
or closing one would leave the other behind. For `Reachable`, `SetUp` says what the steps before them have
done and `Owned` who has the path meanwhile, if no other daemon was alive.

`PasswordFieldProofs` proves, under `FieldAssumption` (characters are numbers, the
asterisk is none of them, the bounds are naturals):

* `TypeCorrect`, `ShowsPassword`, `PreviewCurrent`: `Spec => []TypeOK`,
  `Spec => []FieldShowsPassword`, `Spec => []PreviewIsCurrent`;
* `Refinement`: `Spec => EditsLikeTextField`;
* `RulesHold`: `Spec => []RulesAgree`.

The invariant is the conjunction of the first three: the handlers apply offsets
in the element to `realPassword`, so the selection stays in range only because
the two texts have one length, and they keep one length only because the
selection is in range. The refinement has one lemma per handler: an edit at the
caret is `AbsReplace` of what is selected, of the character before or of the one
after; everything else moves the caret or stutters. `RulesHold` is first proved
of every sequence of characters: `Streak` is a recursive function, and of a
recursive function the library gives its defining equation only with a solution
at hand, so the proof gives one (the distance to where the row began, which
exists because the naturals are well founded).

`AdminPagesProofs` proves, under `AdminPagesAssumption` (pages and page windows are
not empty, the listing is a sequence of users with as many places as there are
users):

* `TypeCorrect`, `PermissionComesFirst`, `NoRequestTwice`, `DoneIsDone`,
  `ShowsCurrentPage`, `LeadsToPages`: `[]` of `TypeOK`, `PermissionFirst`,
  `OneRequestPerUser`, `ShownAsDone`, `ShownPage` and `PageExists`.

Each property is about what an answer does when it comes, so the invariant says
what is known of the requests under way: the page they were made on has the
permission (`Granted`); an answer that lists users is about a page the server
has (`Listed`), which rests on how `UsersOn` and `TotalPages` count; a user who
is the subject of a request has no enabled buttons, until rows are taken away
(`Disabled`), and is on the page, if the request is of this list (`Fresh`); the
server has carried out what it reports as done (`Told`); one load at a time, for the
page asked for (`Single`).

Model-checked only: liveness (`RequestsAreAnswered`, `QuietIpIsForgotten`,
`ButtonComesBack`, `ShutdownEnds`, `QueueIsServed`, `LoadingEnds`,
`RowsComeBack`), which needs fairness and ENABLED and is out of the provers'
reach. Every safety invariant, action property and refinement of the passing
runs is a theorem.

## 6. Not modelled, and why

Text: URL, header and JSON scanning, the layout of responses, logging. The
digest functions: their values are opaque. `get_executable_md5.c` runs once
before the threads exist. `redis_store.c` and `string_check_a2f_0to9.c` are
called by nobody. The pages of the administrator that call `checkPermission`
(limits, new administrators, deletion, whitelist, permissions, passwords, logs,
statistics) stop there, because `main.js` does not define it; the user list and
the level pages load and turn pages as `AdminPages` does. The hidden element
`credential-real` is written and never read. In the form: wording, layout, and time (the session cookie's
300 s do not run out between two fetches of a submission). Memory allocation failures end a request like a failed
command does.

## 7. Plan

Done: `SignupDaemon`, `SignupRaces`, `IpLimiter`, `RedisCall`, `RedisConn`, `SignupForm`,
`Lifecycle`, `TextField`, `Validators`, `PasswordField`, `AdminPages`, with the
proofs of section 5. Next, in order of weight:

1. `EndToEnd`: the form's hash and cookie against the daemon's checks, with the
   theorem that a name and a password that signed up log in.
2. `TokenGen`, `RequestPath`, `Argon2Loader`.

The abstract specifications are `RedisCall`, implemented by `RedisConn`, and
`TextField`, implemented by `PasswordField`. Bounds as in section 3: two actors
of a kind, one of each thing they share.
