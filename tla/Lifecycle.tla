------------------------------ MODULE Lifecycle ------------------------------
(***************************************************************************)
(* A daemon from start to end, any number of times (main.c, server.c), and *)
(* the loop of its threads around accept and read                          *)
(* (http_server_main_loop.c), with what the kernel does to sockets, paths  *)
(* and signals.                                                            *)
(*                                                                         *)
(* Another daemon may be started beside it: of that one the model has only *)
(* what it does to the path of the listening socket, which they share.     *)
(* What a thread does with a request it has read is one step here and      *)
(* module SignupDaemon elsewhere.  server_fd is set before the signal      *)
(* handler is and never reset, so neither of the tests of it is ever false.*)
(***************************************************************************)
EXTENDS Integers, Sequences, FiniteSets

CONSTANTS
    Thread, \* num_threads of them
    Client,
    None,   \* no client
    Main    \* the thread that runs main

ASSUME LifecycleAssumption == None \notin Client /\ Main \notin Thread

VARIABLES
    path,         \* what DEFAULT_SOCKET_PATH leads to: "none" (no such file),
                  \* "own" (this daemon's socket) or "other"
    main,         \* where main is
    keep_running,
    handling,     \* the threads, Main among them, that are in sigint_handler
    sock,         \* the listening socket
    queue,        \* connections the kernel holds for accept
    pc,           \* per thread
    conn,         \* per thread: the client accepted
    client,       \* per client: "off", or what it has done on its connection
    other,        \* the other daemon: "off" or "on"
    together      \* history: both were alive at once

proc   == <<main, keep_running, handling, sock>>
thread == <<pc, conn>>
beside == <<other, together>>
vars   == <<path, proc, queue, thread, client, beside>>

Alive == main # "off"
Threads == {t \in Thread : pc[t] # "none"}

\* The clients whose connections end when the daemon does.
InQueue == {queue[i] : i \in 1 .. Len(queue)}
Connected == (InQueue \cup {conn[t] : t \in Thread}) \ {None}
Reset(S) == client' = [c \in Client |-> IF c \in S THEN "off" ELSE client[c]]

\* The process is gone, with all its threads; the kernel closes what it had
\* open, and a path that still led to its socket leads to nobody.
Die(left) ==
    /\ main' = "off"
    /\ keep_running' = TRUE
    /\ handling' = {}
    /\ sock' = "none"
    /\ queue' = <<>>
    /\ pc' = [t \in Thread |-> "none"]
    /\ conn' = [t \in Thread |-> None]
    /\ Reset(Connected)
    /\ path' = IF left = "own" THEN "other" ELSE left
-----------------------------------------------------------------------------
Init ==
    /\ path = "none"
    /\ main = "off" /\ keep_running = TRUE /\ handling = {}
    /\ sock = "none" /\ queue = <<>>
    /\ pc = [t \in Thread |-> "none"]
    /\ conn = [t \in Thread |-> None]
    /\ client = [c \in Client |-> "off"]
    /\ other = "off" /\ together = FALSE

\* main up to the creation of the socket.
Start ==
    /\ main = "off"
    /\ main' = "unlink"
    /\ together' = (together \/ other = "on")
    /\ UNCHANGED <<path, keep_running, handling, sock, queue, thread, client, other>>

\* Main stands at a step, and does not run the signal handler there.
At(l) == main = l /\ Main \notin handling
Goto(l) == main' = l

\* setup_server_socket: whatever has the path is removed ..
Unlink ==
    /\ At("unlink")
    /\ path' = "none"
    /\ Goto("bind")
    /\ UNCHANGED <<keep_running, handling, sock, queue, thread, client, beside>>

\* .. the socket is bound to it; if it exists again, main returns 1 ..
Bind ==
    /\ At("bind")
    /\ IF path = "none"
       THEN /\ path' = "own"
            /\ sock' = "bound"
            /\ Goto("chmod")
            /\ UNCHANGED <<keep_running, handling, queue, thread, client>>
       ELSE Die(path)
    /\ UNCHANGED beside

\* .. the path is opened to everybody; if it is gone, main returns 1 and
\* removes what is there by then ..
Chmod ==
    /\ At("chmod")
    /\ Goto(IF path # "none" THEN "listen" ELSE "remove")
    /\ UNCHANGED <<path, keep_running, handling, sock, queue, thread, client, beside>>

\* .. and clients may connect.  server_fd and the signal handlers are set ..
Listen ==
    /\ At("listen")
    /\ sock' = "listening"
    /\ Goto("spawn")
    /\ UNCHANGED <<path, keep_running, handling, queue, thread, client, beside>>

\* .. or listen fails: main closes the socket, removes the path, returns 1.
ListenFails ==
    /\ At("listen")
    /\ Goto("remove")
    /\ UNCHANGED <<path, keep_running, handling, sock, queue, thread, client, beside>>

\* pthread_create, for one thread after the other.
Spawn ==
    /\ At("spawn")
    /\ \E t \in Thread \ Threads : pc' = [pc EXCEPT ![t] = "new"]
    /\ Goto(IF \A t \in Thread : pc'[t] # "none" THEN "join" ELSE "spawn")
    /\ UNCHANGED <<path, keep_running, handling, sock, queue, conn, client, beside>>

\* There is no memory or no thread to be had: main cleans up and returns 1.
SpawnFails ==
    /\ At("spawn")
    /\ Goto("remove")
    /\ UNCHANGED <<path, keep_running, handling, sock, queue, thread, client, beside>>

\* Every thread has been joined.
Join ==
    /\ At("join")
    /\ \A t \in Thread : pc[t] = "gone"
    /\ Goto("remove")
    /\ UNCHANGED <<path, keep_running, handling, sock, queue, thread, client, beside>>

\* main closes the socket, again if the handler has, removes what the path
\* names by now, and returns.
Remove ==
    /\ At("remove")
    /\ Die("none")
    /\ UNCHANGED beside
-----------------------------------------------------------------------------
(* Signals.  Any thread may be the one that runs the handler of a SIGINT;  *)
(* it does nothing else until the handler returns, and main waits for it   *)
(* only by joining it.  Several may be in the handler at once.             *)

MayHandle(r) ==
    /\ main \in {"spawn", "join", "remove"} /\ sock \in {"listening", "closed"}
    /\ r \in {Main} \cup {t \in Threads : pc[t] # "gone"}
    /\ r \notin handling

\* Mutant: the loops are not told.
Interrupt_Untold(r) ==
    /\ MayHandle(r)
    /\ sock' = "closed"
    /\ Reset(InQueue)
    /\ queue' = <<>>
    /\ handling' = handling \cup {r}
    /\ UNCHANGED <<path, main, keep_running, thread, beside>>

\* SIGINT, any number of times once the handler is set: the loop is to end,
\* and the socket is shut down and closed, which ends what waits on it ..
Interrupt(r) ==
    /\ MayHandle(r)
    /\ keep_running' = FALSE
    /\ sock' = "closed"
    /\ Reset(InQueue)
    /\ queue' = <<>>
    /\ handling' = handling \cup {r}
    /\ UNCHANGED <<path, main, thread, beside>>

\* .. and the path is removed.
HandlerUnlink(r) ==
    /\ r \in handling
    /\ path' = "none"
    /\ handling' = handling \ {r}
    /\ UNCHANGED <<main, keep_running, sock, queue, thread, client, beside>>

\* SIGTERM or SIGKILL, SIGINT before its handler is set, a crash, or no socket
\* to be had at the start.
Kill ==
    /\ Alive
    /\ Die(path)
    /\ UNCHANGED beside
-----------------------------------------------------------------------------
(* The threads: http_serve.                                                *)

Go(t, l) == pc' = [pc EXCEPT ![t] = l]

\* setsockopt on the listening socket: a thread that comes too late ends.
Enter(t) ==
    /\ pc[t] = "new"
    /\ Go(t, IF sock = "listening" THEN "loop" ELSE "gone")
    /\ UNCHANGED <<path, proc, queue, conn, client, beside>>

\* Mutant: the flag is not looked at.
Loop_Forever(t) ==
    /\ pc[t] = "loop"
    /\ Go(t, "accept")
    /\ UNCHANGED <<path, proc, queue, conn, client, beside>>

Loop(t) ==
    /\ pc[t] = "loop"
    /\ Go(t, IF keep_running THEN "accept" ELSE "gone")
    /\ UNCHANGED <<path, proc, queue, conn, client, beside>>

\* accept returns the first connection of the queue.
Accept(t) ==
    /\ pc[t] = "accept"
    /\ queue # <<>>
    /\ conn' = [conn EXCEPT ![t] = Head(queue)]
    /\ queue' = Tail(queue)
    /\ Go(t, "read")
    /\ UNCHANGED <<path, proc, client, beside>>

\* After a second without a connection, after a signal, or (with a sleep)
\* because the socket is closed, accept returns none.
AcceptFails(t) ==
    /\ pc[t] = "accept"
    /\ queue = <<>>
    /\ Go(t, "loop")
    /\ UNCHANGED <<path, proc, queue, conn, client, beside>>

\* Mutant: the connection is forgotten, and not closed.
Close_Leak(t) ==
    /\ conn' = [conn EXCEPT ![t] = None]
    /\ UNCHANGED client
    /\ Go(t, "loop")

Close(t) ==
    /\ conn' = [conn EXCEPT ![t] = None]
    /\ client' = [client EXCEPT ![conn[t]] = "off"]
    /\ Go(t, "loop")

\* Mutant: read is tried again when the client has hung up.
Read_Again(t) ==
    /\ pc[t] = "read"
    /\ client[conn[t]] \in {"spoke", "unheard"}
    /\ Go(t, "handle")
    /\ UNCHANGED <<path, proc, queue, conn, client, beside>>

\* read has no timeout: it returns when there is something to read, or when
\* the client has hung up.
Read(t) ==
    /\ pc[t] = "read"
    /\ client[conn[t]] # "mute"
    /\ IF client[conn[t]] = "left"
       THEN Close(t)
       ELSE Go(t, "handle") /\ UNCHANGED <<conn, client>>
    /\ UNCHANGED <<path, proc, queue, beside>>

\* The request is handled, and as a rule answered.  An answer written to a
\* client that has hung up raises SIGPIPE, which ends the process.
Respond(t) ==
    /\ pc[t] = "handle"
    /\ \/ Close(t) /\ UNCHANGED <<path, proc, queue>>
       \/ client[conn[t]] = "unheard" /\ Die(path)
    /\ UNCHANGED beside
-----------------------------------------------------------------------------
(* Clients: a connection is "mute" until a request is sent, then "spoke";  *)
(* the client may hang up before ("left") or after ("unheard").            *)

Connect(c) ==
    /\ client[c] = "off"
    /\ path = "own" /\ sock = "listening"
    /\ queue' = Append(queue, c)
    /\ client' = [client EXCEPT ![c] = "mute"]
    /\ UNCHANGED <<path, proc, thread, beside>>

Speak(c) ==
    /\ client[c] = "mute"
    /\ client' = [client EXCEPT ![c] = "spoke"]
    /\ UNCHANGED <<path, proc, queue, thread, beside>>

HangUp(c) ==
    /\ client[c] \in {"mute", "spoke"}
    /\ client' = [client EXCEPT ![c] = IF @ = "mute" THEN "left" ELSE "unheard"]
    /\ UNCHANGED <<path, proc, queue, thread, beside>>

-----------------------------------------------------------------------------
(* The other daemon, of which only the path it shares is modelled: it      *)
(* removes and binds it at any time, and ends with or without removing it. *)

OtherStarts ==
    /\ other = "off"
    /\ other' = "on"
    /\ together' = (together \/ Alive)
    /\ UNCHANGED <<path, proc, queue, thread, client>>

OtherUnlinks ==
    /\ other = "on" /\ path # "none"
    /\ path' = "none"
    /\ UNCHANGED <<proc, queue, thread, client, beside>>

OtherBinds ==
    /\ other = "on" /\ path = "none"
    /\ path' = "other"
    /\ UNCHANGED <<proc, queue, thread, client, beside>>

OtherEnds ==
    /\ other = "on"
    /\ other' = "off"
    /\ UNCHANGED <<path, proc, queue, thread, client, together>>
-----------------------------------------------------------------------------
RunMain ==
    \/ Unlink \/ Bind \/ Chmod \/ Listen
    \/ Spawn \/ Join \/ Remove

Serve(t) ==
    /\ t \notin handling
    /\ \/ Enter(t) \/ Loop(t) \/ Accept(t) \/ AcceptFails(t)
       \/ Read(t) \/ Respond(t)

Next ==
    \/ Start \/ RunMain \/ ListenFails \/ SpawnFails
    \/ \E r \in Thread \cup {Main} : Interrupt(r) \/ HandlerUnlink(r)
    \/ Kill
    \/ \E t \in Thread : Serve(t)
    \/ \E c \in Client : Connect(c) \/ Speak(c) \/ HangUp(c)
    \/ OtherStarts \/ OtherUnlinks \/ OtherBinds \/ OtherEnds

Spec == Init /\ [][Next]_vars

\* The scheduler runs every handler, and main and the other threads however
\* often a signal stops them.  Clients, signals and those who start daemons
\* owe nothing.
Fairness ==
    /\ SF_vars(RunMain)
    /\ \A r \in Thread \cup {Main} : WF_vars(HandlerUnlink(r))
    /\ \A t \in Thread : SF_vars(Serve(t))

FairSpec == Spec /\ Fairness
-----------------------------------------------------------------------------
(* Properties.                                                             *)

\* Every variable has its type.  A thread has a connection just while it reads
\* or handles, and a client is "off" just when neither the queue nor a thread
\* has it.
TypeOK ==
    /\ path \in {"none", "own", "other"}
    /\ main \in {"off", "unlink", "bind", "chmod", "listen", "spawn", "join", "remove"}
    /\ keep_running \in BOOLEAN
    /\ handling \subseteq Thread \cup {Main}
    /\ sock \in {"none", "bound", "listening", "closed"}
    /\ queue \in Seq(Client)
    /\ pc \in [Thread -> {"none", "new", "loop", "accept", "read", "handle", "gone"}]
    /\ conn \in [Thread -> Client \cup {None}]
    /\ client \in [Client -> {"off", "mute", "spoke", "left", "unheard"}]
    /\ other \in {"off", "on"}
    /\ together \in BOOLEAN
    /\ \A t \in Thread : conn[t] # None <=> pc[t] \in {"read", "handle"}
    /\ \A c \in Client : client[c] = "off" <=> c \notin Connected

\* A daemon that is set up, and whose threads were not told to end, listens
\* and is the one the path leads to, unless two were alive at once
\* (server.c:6-14,46-66, main.c:53-56).
Reachable ==
    ~together /\ main \in {"spawn", "join"} /\ keep_running
        => sock = "listening" /\ path = "own"

\* A thread waits for a client that has said nothing yet.
Waits(t) == pc[t] = "read" /\ client[conn[t]] = "mute"

\* A daemon that was interrupted ends, unless a client that never says anything
\* holds one of its threads (server.c:6-14, http_server_main_loop.c:44-60).
ShutdownEnds == (~keep_running ~> main = "off") \/ <>[](\E t \in Thread : Waits(t))

\* A connection in the queue is accepted or ended, unless clients that never
\* say anything hold every thread of the daemon (http_server_main_loop.c:44-60).
QueueIsServed ==
    \A c \in Client :
        (c \in InQueue ~> c \notin InQueue) \/ <>[](\A t \in Thread : Waits(t))
=============================================================================
