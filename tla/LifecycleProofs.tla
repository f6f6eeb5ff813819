--------------------------- MODULE LifecycleProofs ---------------------------
(***************************************************************************)
(* Safety of the daemon's life for any number of threads and clients.      *)
(*                                                                         *)
(* TypeOK says that a client is off just when nobody holds its connection; *)
(* it is inductive only if no connection is held twice (HeldOnce).         *)
(* Reachable is a fact about main's later steps: what is inductive says    *)
(* for each step of main what the earlier ones have set up (SetUp) and who *)
(* has the path (Owned), whichever threads are in the signal handler.      *)
(***************************************************************************)
EXTENDS Lifecycle, SequenceTheorems, TLAPS

HeldOnce ==
    /\ \A i, j \in 1 .. Len(queue) : queue[i] = queue[j] => i = j
    /\ \A t \in Thread : conn[t] # None => conn[t] \notin InQueue
    /\ \A s, t \in Thread : conn[s] = conn[t] /\ conn[t] # None => s = t

\* The handler, the flag and the socket, by where main is.
SetUp ==
    /\ main \in {"off", "unlink", "bind", "chmod", "listen"} => handling = {} /\ keep_running
    /\ handling # {} => ~keep_running
    /\ main \in {"spawn", "join"} /\ keep_running => sock = "listening"

\* The path of a daemon that is alone.
Owned ==
    ~together =>
        /\ Alive => other = "off"
        /\ main \in {"chmod", "listen"} => path = "own"
        /\ main \in {"spawn", "join"} /\ keep_running => path = "own"

IInv == TypeOK /\ HeldOnce /\ SetUp /\ Owned
-----------------------------------------------------------------------------
(* Who holds which connection.                                             *)

PathType == {"none", "own", "other"}
MainType == {"off", "unlink", "bind", "chmod", "listen", "spawn", "join", "remove"}
PcType == {"none", "new", "loop", "accept", "read", "handle", "gone"}
ClientType == {"off", "mute", "spoke", "left", "unheard"}

\* TypeOK, in two parts: what has nothing to do with connections ..
ProcessType ==
    /\ path \in PathType /\ main \in MainType /\ keep_running \in BOOLEAN
    /\ handling \subseteq Thread \cup {Main} /\ sock \in {"none", "bound", "listening", "closed"}
    /\ other \in {"off", "on"} /\ together \in BOOLEAN

\* .. and the rest.
ConnType ==
    /\ queue \in Seq(Client)
    /\ pc \in [Thread -> PcType]
    /\ conn \in [Thread -> Client \cup {None}]
    /\ client \in [Client -> ClientType]
    /\ \A t \in Thread : conn[t] # None <=> pc[t] \in {"read", "handle"}
    /\ \A c \in Client : client[c] = "off" <=> c \notin Connected

Held == ConnType /\ HeldOnce

LEMMA TypeParts == TypeOK <=> ProcessType /\ ConnType
BY DEF TypeOK, ProcessType, ConnType, PathType, MainType, PcType, ClientType

\* What the queue holds, and who is connected.
LEMMA InQueueIs ==
    ASSUME queue \in Seq(Client)
    PROVE  /\ InQueue \subseteq Client
           /\ \A c : c \in InQueue <=> \E i \in 1 .. Len(queue) : queue[i] = c
BY ElementOfSeq DEF InQueue

LEMMA ConnectedIs ==
    ASSUME Held, NEW c \in Client
    PROVE  c \in Connected <=> c \in InQueue \/ \E t \in Thread : conn[t] = c
BY LifecycleAssumption DEF Held, Connected

\* The process dies, whatever it held.
LEMMA DieHeld == ASSUME Held, NEW left, Die(left) PROVE Held'
<1>1. queue' = <<>> /\ queue' \in Seq(Client) /\ Len(queue') = 0
  BY EmptySeq DEF Die
<1>2. /\ pc' \in [Thread -> PcType] /\ conn' \in [Thread -> Client \cup {None}]
      /\ \A t \in Thread : conn'[t] = None /\ pc'[t] = "none"
  BY DEF Die, PcType
<1>3. Connected' = {}
  BY <1>1, <1>2 DEF Connected, InQueue
<1>4. client' \in [Client -> ClientType] /\ \A c \in Client : client'[c] = "off"
  BY DEF Die, Reset, Held, ConnType, ClientType
<1>5. HeldOnce'
  BY <1>1, <1>2 DEF HeldOnce
<1>6. QED  BY <1>1, <1>2, <1>3, <1>4, <1>5 DEF Held, ConnType

\* The listening socket is closed.
LEMMA InterruptHeld == ASSUME Held, NEW r, Interrupt(r) PROVE Held'
<1>1. queue' = <<>> /\ queue' \in Seq(Client) /\ Len(queue') = 0
  BY EmptySeq DEF Interrupt
<1>2. UNCHANGED <<pc, conn>>
  BY DEF Interrupt, thread
<1>3. client' \in [Client -> ClientType]
      /\ \A c \in Client : client'[c] = IF c \in InQueue THEN "off" ELSE client[c]
  BY DEF Interrupt, Reset, Held, ConnType, ClientType
<1>4. InQueue' = {}
  BY <1>1 DEF InQueue
<1>5. \A c \in Client : c \in Connected' <=> \E t \in Thread : conn[t] = c
  BY <1>2, <1>4, LifecycleAssumption DEF Connected
<1>6. HeldOnce'
  BY <1>1, <1>2, <1>4 DEF Held, HeldOnce
<1>7. \A c \in Client : client'[c] = "off" <=> c \notin Connected'
  <2>1. \A c \in Client : client[c] = "off" <=> c \notin Connected
    BY DEF Held, ConnType
  <2>2. \A c \in Client : c \in Connected <=> c \in InQueue \/ \E t \in Thread : conn[t] = c
    BY ConnectedIs
  <2>3. \A c \in Client : c \in InQueue => \A t \in Thread : conn[t] # c
    BY LifecycleAssumption DEF Held, HeldOnce
  <2>4. QED  BY <1>3, <1>5, <2>1, <2>2, <2>3
<1>8. QED  BY <1>1, <1>2, <1>3, <1>6, <1>7 DEF Held, ConnType

\* Nobody's connection changes hands, but threads may go on.
LEMMA SameHeld ==
    ASSUME Held, UNCHANGED <<queue, conn>>, pc' \in [Thread -> PcType],
           \A t \in Thread : pc'[t] \in {"read", "handle"} <=> pc[t] \in {"read", "handle"},
           client' \in [Client -> ClientType],
           \A c \in Client : client'[c] = "off" <=> client[c] = "off"
    PROVE  Held'
<1>1. InQueue' = InQueue /\ Connected' = Connected
  BY DEF InQueue, Connected
<1>2. HeldOnce'
  BY <1>1 DEF Held, HeldOnce
<1>3. QED  BY <1>1, <1>2 DEF Held, ConnType

\* A step of one thread to a place where it has a connection just if it had.
LEMMA GoHeld ==
    ASSUME Held, NEW t \in Thread, NEW l \in PcType, Go(t, l), UNCHANGED <<queue, conn, client>>,
           l \in {"read", "handle"} <=> pc[t] \in {"read", "handle"}
    PROVE  Held'
<1>1. /\ pc' \in [Thread -> PcType]
      /\ \A s \in Thread : pc'[s] \in {"read", "handle"} <=> pc[s] \in {"read", "handle"}
  BY DEF Go, Held, ConnType
<1>2. QED  BY <1>1, SameHeld DEF Held, ConnType

\* A connection goes from the queue to a thread.
LEMMA AcceptHeld == ASSUME Held, NEW t \in Thread, Accept(t) PROVE Held'
<1> DEFINE h == Head(queue)
<1>1. /\ pc[t] = "accept" /\ queue # <<>> /\ queue \in Seq(Client)
      /\ conn' = [conn EXCEPT ![t] = h] /\ queue' = Tail(queue)
      /\ pc' = [pc EXCEPT ![t] = "read"] /\ UNCHANGED client
  BY DEF Accept, Go, Held, ConnType
<1>2. /\ h \in Client /\ h = queue[1] /\ Len(queue) \in Nat \ {0}
      /\ queue' \in Seq(Client) /\ Len(queue') = Len(queue) - 1
      /\ \A i \in 1 .. Len(queue') : queue'[i] = queue[i + 1]
  BY <1>1, HeadTailProperties, EmptySeq
<1> HIDE DEF h
<1>3. h # None /\ conn[t] = None /\ h \in InQueue
  BY <1>1, <1>2, LifecycleAssumption, InQueueIs DEF Held, ConnType
<1>4. /\ pc' \in [Thread -> PcType] /\ conn' \in [Thread -> Client \cup {None}]
      /\ \A s \in Thread : conn'[s] # None <=> pc'[s] \in {"read", "handle"}
  BY <1>1, <1>2, <1>3 DEF Held, ConnType, PcType
<1>5. \A c : c \in InQueue' <=> c \in InQueue /\ c # h
  <2>1. ASSUME NEW i \in 1 .. Len(queue') PROVE queue'[i] \in InQueue /\ queue'[i] # h
    <3>1. queue'[i] = queue[i + 1] /\ i + 1 \in 1 .. Len(queue) /\ 1 \in 1 .. Len(queue) /\ i + 1 # 1
      BY <1>2
    <3>2. QED  BY <1>1, <1>2, <3>1, InQueueIs DEF Held, HeldOnce
  <2>2. ASSUME NEW i \in 1 .. Len(queue), queue[i] # h
        PROVE  i - 1 \in 1 .. Len(queue') /\ queue'[i - 1] = queue[i]
    BY <1>2, <2>2
  <2>3. queue \in Seq(Client) /\ queue' \in Seq(Client)
    BY <1>1, <1>2
  <2>4. \A c : c \in InQueue' <=> \E i \in 1 .. Len(queue') : queue'[i] = c
    BY DEF InQueue
  <2>5. QED  BY <2>1, <2>2, <2>3, <2>4, InQueueIs
<1>6. \A c \in Client : c \in Connected' <=> c \in Connected
  <2>1. \A c \in Client : c \in Connected' <=> c \in InQueue' \/ \E s \in Thread : conn'[s] = c
    BY LifecycleAssumption DEF Connected
  <2>2. \A s \in Thread : conn'[s] = IF s = t THEN h ELSE conn[s]
    BY <1>1 DEF Held, ConnType
  <2>3. QED  BY <1>3, <1>5, <2>1, <2>2, ConnectedIs, LifecycleAssumption
<1>7. HeldOnce'
  <2>1. \A i, j \in 1 .. Len(queue') : queue'[i] = queue'[j] => i = j
    <3> SUFFICES ASSUME NEW i \in 1 .. Len(queue'), NEW j \in 1 .. Len(queue'),
                        queue'[i] = queue'[j]
                 PROVE  i = j
      OBVIOUS
    <3>1. /\ i + 1 \in 1 .. Len(queue) /\ j + 1 \in 1 .. Len(queue)
          /\ queue[i + 1] = queue[j + 1]
      BY <1>2
    <3>2. i + 1 = j + 1
      BY <3>1 DEF Held, HeldOnce
    <3>3. QED  BY <3>2
  <2>2. \A s \in Thread : conn'[s] = IF s = t THEN h ELSE conn[s]
    BY <1>1 DEF Held, ConnType
  <2>3. QED  BY <1>3, <1>5, <2>1, <2>2 DEF Held, HeldOnce
<1>8. QED  BY <1>1, <1>2, <1>4, <1>6, <1>7 DEF Held, ConnType

\* A thread closes its connection.
LEMMA CloseHeld ==
    ASSUME Held, NEW t \in Thread, pc[t] \in {"read", "handle"}, Close(t), UNCHANGED queue
    PROVE  Held'
<1>1. conn[t] \in Client /\ conn[t] # None
  BY DEF Held, ConnType
<1>2. /\ conn' = [conn EXCEPT ![t] = None] /\ pc' = [pc EXCEPT ![t] = "loop"]
      /\ client' = [client EXCEPT ![conn[t]] = "off"]
  BY DEF Close, Go
<1>3. /\ pc' \in [Thread -> PcType] /\ conn' \in [Thread -> Client \cup {None}]
      /\ client' \in [Client -> ClientType]
      /\ \A s \in Thread : conn'[s] = IF s = t THEN None ELSE conn[s]
      /\ \A s \in Thread : pc'[s] = IF s = t THEN "loop" ELSE pc[s]
      /\ \A c \in Client : client'[c] = IF c = conn[t] THEN "off" ELSE client[c]
  BY <1>1, <1>2 DEF Held, ConnType, PcType, ClientType
<1>4. InQueue' = InQueue
  BY DEF InQueue
<1>5. \A c \in Client : c \in Connected' <=> c \in Connected /\ c # conn[t]
  <2>1. \A c \in Client : c \in Connected' <=> c \in InQueue \/ \E s \in Thread : conn'[s] = c
    BY <1>4, LifecycleAssumption DEF Connected
  <2>2. conn[t] \notin InQueue /\ \A s \in Thread \ {t} : conn[s] # conn[t]
    BY <1>1 DEF Held, HeldOnce
  <2>3. QED  BY <1>1, <1>3, <2>1, <2>2, ConnectedIs, LifecycleAssumption
<1>6. HeldOnce'
  BY <1>3, <1>4 DEF Held, HeldOnce
<1>7. QED  BY <1>3, <1>5, <1>6 DEF Held, ConnType

\* A client that had no connection waits in the queue.
LEMMA ConnectHeld == ASSUME Held, NEW c \in Client, Connect(c) PROVE Held'
<1>1. /\ client[c] = "off" /\ queue' = Append(queue, c)
      /\ client' = [client EXCEPT ![c] = "mute"] /\ UNCHANGED <<pc, conn>>
  BY DEF Connect, thread
<1>2. /\ queue \in Seq(Client) /\ Len(queue) \in Nat
      /\ queue' \in Seq(Client) /\ Len(queue') = Len(queue) + 1
      /\ \A i \in 1 .. Len(queue) : queue'[i] = queue[i]
      /\ queue'[Len(queue) + 1] = c
  BY <1>1, AppendProperties, LenProperties DEF Held, ConnType
<1>3. c \notin InQueue /\ \A t \in Thread : conn[t] # c
  BY <1>1, ConnectedIs DEF Held, ConnType
<1>4. \A i \in 1 .. Len(queue) : queue[i] # c
  BY <1>2, <1>3, InQueueIs
<1>5. \A d : d \in InQueue' <=> d \in InQueue \/ d = c
  <2>1. \A d : d \in InQueue' <=> \E i \in 1 .. Len(queue') : queue'[i] = d
    BY DEF InQueue
  <2>2. \A d : d \in InQueue <=> \E i \in 1 .. Len(queue) : queue[i] = d
    BY DEF InQueue
  <2>3. 1 .. Len(queue') = (1 .. Len(queue)) \cup {Len(queue) + 1}
    BY <1>2
  <2>4. QED  BY <1>2, <2>1, <2>2, <2>3
<1>6. HeldOnce'
  <2>1. \A i, j \in 1 .. Len(queue') : queue'[i] = queue'[j] => i = j
    BY <1>2, <1>4 DEF Held, HeldOnce
  <2>2. QED  BY <1>1, <1>3, <1>5, <2>1 DEF Held, HeldOnce
<1>7. /\ client' \in [Client -> ClientType]
      /\ \A d \in Client : client'[d] = IF d = c THEN "mute" ELSE client[d]
  BY <1>1 DEF Held, ConnType, ClientType
<1>8. \A d \in Client : d \in Connected' <=> d \in Connected \/ d = c
  BY <1>1, <1>5, ConnectedIs, LifecycleAssumption DEF Connected
<1>9. QED  BY <1>1, <1>2, <1>6, <1>7, <1>8 DEF Held, ConnType
-----------------------------------------------------------------------------
(* Every step keeps the connections apart.                                 *)

LEMMA InitHeld == Init => Held
<1> SUFFICES ASSUME Init PROVE Held
  OBVIOUS
<1>1. queue \in Seq(Client) /\ Len(queue) = 0 /\ InQueue = {}
  BY EmptySeq DEF Init, InQueue
<1>2. Connected = {}
  BY <1>1 DEF Init, Connected
<1>3. QED
  BY <1>1, <1>2 DEF Init, Held, ConnType, HeldOnce, PcType, ClientType

\* The steps of main, of the handler and of the other daemon.
LEMMA ProcessHeld ==
    ASSUME Held,
           \/ Start \/ RunMain \/ ListenFails \/ SpawnFails \/ Kill
           \/ \E r \in Thread \cup {Main} : Interrupt(r) \/ HandlerUnlink(r)
           \/ OtherStarts \/ OtherUnlinks \/ OtherBinds \/ OtherEnds
    PROVE  Held'
<1>1. CASE UNCHANGED <<queue, thread, client>>
  BY <1>1, SameHeld DEF Held, ConnType, thread
<1>2. CASE \E left : Die(left)
  BY <1>2, DieHeld
<1>3. CASE \E r \in Thread \cup {Main} : Interrupt(r)
  BY <1>3, InterruptHeld
<1>4. CASE Spawn
  <2>1. PICK t \in Thread \ Threads : pc' = [pc EXCEPT ![t] = "new"]
    BY <1>4 DEF Spawn
  <2>2. pc[t] = "none" /\ UNCHANGED <<queue, conn, client>>
    BY <1>4, <2>1 DEF Spawn, Threads
  <2>3. QED  BY <2>1, <2>2, GoHeld DEF Go, PcType
<1>5. QED
  BY <1>1, <1>2, <1>3, <1>4 DEF Start, RunMain, Unlink, Bind, Chmod, Listen, ListenFails,
     Join, Remove, SpawnFails, HandlerUnlink, Kill, OtherStarts, OtherUnlinks, OtherBinds, OtherEnds

LEMMA ServeHeld == ASSUME Held, NEW t \in Thread, Serve(t) PROVE Held'
<1>1. CASE Enter(t)
  BY <1>1, GoHeld DEF Enter, PcType
<1>2. CASE Loop(t)
  BY <1>2, GoHeld DEF Loop, PcType
<1>3. CASE Accept(t)
  BY <1>3, AcceptHeld
<1>4. CASE AcceptFails(t)
  BY <1>4, GoHeld DEF AcceptFails, PcType
<1>5. CASE Read(t)
  BY <1>5, GoHeld, CloseHeld DEF Read, PcType
<1>6. CASE Respond(t)
  BY <1>6, DieHeld, CloseHeld DEF Respond
<1>7. QED  BY <1>1, <1>2, <1>3, <1>4, <1>5, <1>6 DEF Serve

LEMMA ClientHeld ==
    ASSUME Held, NEW c \in Client, Connect(c) \/ Speak(c) \/ HangUp(c)
    PROVE  Held'
<1>1. CASE Speak(c) \/ HangUp(c)
  <2>1. /\ client' \in [Client -> ClientType] /\ UNCHANGED <<queue, conn, pc>>
        /\ \A d \in Client : client'[d] = "off" <=> client[d] = "off"
    BY <1>1 DEF Speak, HangUp, Held, ConnType, ClientType, thread
  <2>2. QED  BY <2>1, SameHeld DEF Held, ConnType
<1>2. QED  BY <1>1, ConnectHeld

LEMMA HeldStep == Held /\ [Next]_vars => Held'
<1>1. ASSUME Held, UNCHANGED vars PROVE Held'
  BY <1>1, SameHeld DEF vars, thread, Held, ConnType
<1>2. QED  BY <1>1, ProcessHeld, ServeHeld, ClientHeld DEF Next
-----------------------------------------------------------------------------
(* Every step keeps what main has set up.                                  *)

MainInv == ProcessType /\ SetUp /\ Owned

LEMMA InitMain == Init => MainInv
BY DEF Init, MainInv, ProcessType, SetUp, Owned, Alive, PathType, MainType

\* A daemon that is gone has nothing set up.
LEMMA DieMain ==
    ASSUME MainInv, NEW left \in PathType, Die(left), UNCHANGED beside
    PROVE  MainInv'
BY DEF MainInv, ProcessType, SetUp, Owned, Alive, Die, beside, PathType, MainType

\* The steps of main before there are threads.
LEMMA SetUpMain ==
    ASSUME MainInv, Start \/ Unlink \/ Bind \/ Chmod \/ Listen \/ ListenFails
    PROVE  MainInv'
<1> USE DEF MainInv, ProcessType, SetUp, Owned, Alive, At, Goto, beside, PathType, MainType
<1>1. CASE Start   BY <1>1 DEF Start
<1>2. CASE Unlink  BY <1>2 DEF Unlink
<1>3. CASE Bind
  <2>1. CASE path = "none"  BY <1>3, <2>1 DEF Bind
  <2>2. CASE path # "none"  BY <1>3, <2>2, DieMain DEF Bind
  <2>3. QED  BY <2>1, <2>2
<1>4. CASE Chmod   BY <1>4 DEF Chmod
<1>5. CASE Listen  BY <1>5 DEF Listen
<1>6. CASE ListenFails  BY <1>6 DEF ListenFails
<1>7. QED  BY <1>1, <1>2, <1>3, <1>4, <1>5, <1>6

\* Main's later steps, the signals, and the other daemon.
LEMMA LaterMain ==
    ASSUME MainInv,
           \/ Spawn \/ SpawnFails \/ Join \/ Remove \/ Kill
           \/ \E r \in Thread \cup {Main} : Interrupt(r) \/ HandlerUnlink(r)
           \/ OtherStarts \/ OtherUnlinks \/ OtherBinds \/ OtherEnds
    PROVE  MainInv'
<1> USE DEF MainInv, ProcessType, SetUp, Owned, Alive, At, Goto, beside, proc, PathType, MainType
<1>1. CASE Spawn          BY <1>1 DEF Spawn
<1>2. CASE SpawnFails     BY <1>2 DEF SpawnFails
<1>3. CASE Join           BY <1>3 DEF Join
<1>4. CASE Remove         BY <1>4, DieMain DEF Remove
<1>5. ASSUME NEW r \in Thread \cup {Main}, Interrupt(r) PROVE MainInv'
  BY <1>5 DEF Interrupt, MayHandle
<1>6. ASSUME NEW r \in Thread \cup {Main}, HandlerUnlink(r) PROVE MainInv'
  BY <1>6 DEF HandlerUnlink
<1>7. CASE Kill           BY <1>7, DieMain DEF Kill
<1>8. CASE OtherStarts    BY <1>8 DEF OtherStarts
<1>9. CASE OtherUnlinks   BY <1>9 DEF OtherUnlinks
<1>10. CASE OtherBinds    BY <1>10 DEF OtherBinds
<1>11. CASE OtherEnds     BY <1>11 DEF OtherEnds
<1>12. QED
  BY <1>1, <1>2, <1>3, <1>4, <1>5, <1>6, <1>7, <1>8, <1>9, <1>10, <1>11

\* Threads and clients leave main alone, unless the process dies.
LEMMA SameMain == ASSUME MainInv, UNCHANGED <<path, proc, beside>> PROVE MainInv'
BY DEF MainInv, ProcessType, SetUp, Owned, Alive, proc, beside

LEMMA MainStep == MainInv /\ [Next]_vars => MainInv'
<1> SUFFICES ASSUME MainInv, [Next]_vars PROVE MainInv'
  OBVIOUS
<1>1. ASSUME NEW t \in Thread, Serve(t) PROVE MainInv'
  <2>1. CASE UNCHANGED <<path, proc, beside>>
    BY <2>1, SameMain
  <2>2. CASE Die(path) /\ UNCHANGED beside
    BY <2>2, DieMain DEF MainInv, ProcessType
  <2>3. QED
    BY <1>1, <2>1, <2>2 DEF Serve, Enter, Loop, Accept, AcceptFails, Read, Respond
<1>2. ASSUME NEW c \in Client, Connect(c) \/ Speak(c) \/ HangUp(c) PROVE MainInv'
  BY <1>2, SameMain DEF Connect, Speak, HangUp
<1>3. CASE UNCHANGED vars
  BY <1>3, SameMain DEF vars
<1>4. QED  BY <1>1, <1>2, <1>3, SetUpMain, LaterMain DEF Next, RunMain
-----------------------------------------------------------------------------
\* The inductive invariant holds in every reachable state.
THEOREM Invariance == Spec => []IInv
<1>1. IInv <=> Held /\ MainInv
  BY TypeParts DEF IInv, Held, MainInv
<1>2. QED  BY <1>1, InitHeld, InitMain, HeldStep, MainStep, PTL DEF Spec

\* A thread has a connection just while it reads or handles, and a client is
\* connected just when the queue or a thread has its connection: none is lost
\* and none is held twice (http_server_main_loop.c:44-81).
THEOREM TypeCorrect == Spec => []TypeOK
<1>1. IInv => TypeOK
  BY DEF IInv
<1>2. QED  BY Invariance, <1>1, PTL

\* A daemon that is set up and was not told to end can be reached at its
\* path, unless two were alive at once (server.c:6-14,46-66, main.c:53-56).
THEOREM ReachableAtPath == Spec => []Reachable
<1>1. IInv => Reachable
  BY DEF IInv, SetUp, Owned, Reachable
<1>2. QED  BY Invariance, <1>1, PTL
=============================================================================
