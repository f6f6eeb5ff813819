---------------------------- MODULE MCSignupRaces ----------------------------
(* A small instance of SignupRaces: two threads, the requests of MCSignupDaemon. *)
EXTENDS SignupRaces, MCSignupDaemon, TLC

\* No action and no property tells the threads apart.
AnyThread == Permutations(Worker)

\* u1 signed up once, with p2, longer ago than a session lives, and the daemon
\* was started again since.
Later ==
    /\ DbIdx_ipCountX = -1 /\ buf1 = Nil
    /\ pc = [w \in Worker |-> "accept"]
    /\ req = [w \in Worker |-> Nil]
    /\ dbIdx = [w \in Worker |-> -1]
    /\ new = [w \in Worker |-> Nil]
    /\ hash = [w \in Worker |-> Nil]
    /\ status = [w \in Worker |-> 0]
    /\ setCookie = [w \in Worker |-> Nil]
    /\ okKeys = {} /\ sessions = {}
    /\ users = [u \in User |-> [hash |-> p2, salt |-> ta, ttl |-> TRUE]]
    /\ issued = [type : {"signup"}, user : User, sesv : {ta}, sess : {tb}]
    /\ stored = User \X {p2}
    /\ met = [w \in Worker |-> {}] /\ untimed = {}

LaterSpec == Later /\ [][RNext]_rvars
=============================================================================
