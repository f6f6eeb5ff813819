--------------------------- MODULE RedisConnProofs ---------------------------
(***************************************************************************)
(* A Redis connection implements RedisCall, for any number of threads, any *)
(* databases and any failures.                                             *)
(*                                                                         *)
(* The inductive invariant says where a call stands (Progress): how many   *)
(* of its commands have run at each label, and that from the first command *)
(* on the believed database is the call's.  With BelievedDb it follows     *)
(* that a command runs in the database asked for.  Paid counts the         *)
(* connections that are lost and not yet noticed: each of them was paid    *)
(* for by a fault and will cost one call.                                  *)
(***************************************************************************)
EXTENDS RedisConn, FiniteSetTheorems, TLAPS

Standing(w) ==
    /\ pc[w] \in {"command", "answer", "expire", "expired"}
       => current_dbIdx[w] = call[w].db
    /\ pc[w] \in {"connect", "auth", "select", "command"} => Len(ran[w]) = 0
    /\ pc[w] = "answer" => /\ Len(ran[w]) <= 1
                           /\ reply[w] = "ok" => Len(ran[w]) = 1
    /\ pc[w] = "expire" => Len(ran[w]) = 1 /\ call[w].steps = 2
    /\ pc[w] = "expired" => /\ call[w].steps = 2
                            /\ Len(ran[w]) <= 2
                            /\ reply[w] = "ok" => Len(ran[w]) = 2

Progress == \A w \in Worker : Standing(w)

IInv == TypeOK /\ BelievedDb /\ Progress

\* The connections that are lost, or whose command will get no reply.
Doomed(w) ==
    /\ ctx[w] = "open"
    /\ \/ link[w] = Nil
       \/ pc[w] \in {"answer", "expired"} /\ reply[w] = "none"

Lost == {w \in Worker : Doomed(w)}

Paid == failures + Cardinality(Lost) <= faults
-----------------------------------------------------------------------------
\* Each thread changes its own entries only.
USE DEF local, bounds

LEMMA InitIInv == Init => IInv
BY ConnAssumption DEF Init, IInv, TypeOK, BelievedDb, Progress, Standing, Call, DefaultDb

LEMMA BeginInv == ASSUME IInv, NEW w \in Worker, Begin(w) PROVE IInv'
<1> USE DEF IInv, Begin, Goto, Call
<1>1. TypeOK'      BY ConnAssumption DEF TypeOK, Call
<1>2. BelievedDb'  BY DEF TypeOK, BelievedDb
<1>3. Progress'    BY DEF TypeOK, Progress, Standing
<1>4. QED  BY <1>1, <1>2, <1>3

LEMMA ReuseInv == ASSUME IInv, NEW w \in Worker, Reuse(w) PROVE IInv'
<1> USE DEF IInv, Reuse, Goto, RightDb
<1>1. TypeOK'      BY ConnAssumption DEF TypeOK, Call
<1>2. BelievedDb'  BY DEF TypeOK, BelievedDb
<1>3. Progress'    BY DEF TypeOK, Progress, Standing
<1>4. QED  BY <1>1, <1>2, <1>3

\* What is known of the call a thread is in.
LEMMA CallFields ==
    ASSUME IInv, NEW w \in Worker, pc[w] # "idle"
    PROVE  /\ call[w] \in Call
           /\ call[w].db \in Db /\ call[w].steps \in {1, 2}
           /\ call[w].db # Nil /\ Nil \notin Call
<1>1. call[w] \in Call
  BY DEF IInv, TypeOK
<1>2. QED  BY <1>1, ConnAssumption DEF Call

\* A call that ends without a connection.
LEMMA FailedInv ==
    ASSUME IInv, NEW w \in Worker, pc[w] # "idle",
           Freed(w) \/ (UNCHANGED <<ctx, link>> /\ pc[w] = "connect" /\ ctx[w] = "NULL"),
           Fail(w), faults' \in 0 .. MaxFaults,
           current_dbIdx' = current_dbIdx
           \/ current_dbIdx' = [current_dbIdx EXCEPT ![w] = -1]
    PROVE  IInv'
<1> USE DEF IInv, Freed, Fail, Return, Goto
<1>1. /\ ctx' \in [Worker -> {"NULL", "open"}]
      /\ ctx'[w] = "NULL" /\ link'[w] = Nil
      /\ link' \in [Worker -> Db \cup {DefaultDb, Nil}]
      /\ current_dbIdx' \in [Worker -> Db \cup {-1}]
      /\ \A v \in Worker \ {w} :
            ctx'[v] = ctx[v] /\ link'[v] = link[v] /\ current_dbIdx'[v] = current_dbIdx[v]
  BY DEF TypeOK
<1>2. /\ pc' = [pc EXCEPT ![w] = "idle"] /\ call' = [call EXCEPT ![w] = Nil]
      /\ result' = [result EXCEPT ![w] = "error"] /\ failures' = failures + 1
      /\ UNCHANGED <<ran, reply>>
  OBVIOUS
<1> HIDE DEF Freed, Fail, Return, Goto
<1>3. TypeOK'      BY <1>1, <1>2 DEF TypeOK
<1>4. BelievedDb'  BY <1>1, <1>2 DEF TypeOK, BelievedDb
<1>5. Progress'    BY <1>1, <1>2 DEF TypeOK, Progress, Standing
<1>6. QED  BY <1>3, <1>4, <1>5

\* Faults stay within their bound.
LEMMA FaultBound == ASSUME TypeOK, Fault \/ NoFault PROVE faults' \in 0 .. MaxFaults
BY ConnAssumption DEF TypeOK, Fault, NoFault

LEMMA ConnectInv == ASSUME IInv, NEW w \in Worker, Connect(w) PROVE IInv'
<1>1. /\ pc[w] = "connect" /\ ctx[w] = "NULL" /\ pc[w] # "idle"
      /\ current_dbIdx' = [current_dbIdx EXCEPT ![w] = -1]
  BY DEF Connect
<1>2. CASE /\ ctx' = [ctx EXCEPT ![w] = "open"]
           /\ link' = [link EXCEPT ![w] = DefaultDb]
           /\ Goto(w, "auth") /\ NoFault
           /\ UNCHANGED <<call, ran, result, reply, failures>>
  <2> USE <1>1, <1>2 DEF IInv, Goto, NoFault
  <2>1. TypeOK'      BY DEF TypeOK
  <2>2. BelievedDb'  BY DEF TypeOK, BelievedDb
  <2>3. Progress'    BY DEF TypeOK, Progress, Standing
  <2>4. QED  BY <2>1, <2>2, <2>3
<1>3. CASE Fault /\ Fail(w) /\ UNCHANGED <<ctx, link>>
  BY <1>1, <1>3, FailedInv, FaultBound DEF IInv
<1>4. QED  BY <1>2, <1>3 DEF Connect

LEMMA AuthInv == ASSUME IInv, NEW w \in Worker, Auth(w) PROVE IInv'
<1>1. pc[w] = "auth" /\ pc[w] # "idle"
  BY DEF Auth
<1>2. CASE Goto(w, "select") /\ UNCHANGED <<call, ran, result, local, link, reply, bounds>>
  <2> USE <1>1, <1>2 DEF IInv, Goto
  <2>1. TypeOK'      BY DEF TypeOK
  <2>2. BelievedDb'  BY DEF TypeOK, BelievedDb
  <2>3. Progress'    BY DEF TypeOK, Progress, Standing
  <2>4. QED  BY <2>1, <2>2, <2>3
<1>3. CASE (Fault \/ NoFault) /\ Freed(w) /\ Fail(w) /\ UNCHANGED current_dbIdx
  BY <1>1, <1>3, FailedInv, FaultBound DEF IInv
<1>4. QED  BY <1>2, <1>3 DEF Auth

LEMMA SelectInv == ASSUME IInv, NEW w \in Worker, Select(w) PROVE IInv'
<1>1. pc[w] = "select" /\ pc[w] # "idle"
  BY DEF Select
<1>2. call[w] \in Call /\ call[w].db \in Db
  BY <1>1, CallFields
<1>3. CASE /\ link' = [link EXCEPT ![w] = call[w].db]
           /\ current_dbIdx' = [current_dbIdx EXCEPT ![w] = call[w].db]
           /\ Goto(w, "command")
           /\ UNCHANGED <<call, ran, result, ctx, reply, bounds>>
  <2> USE <1>1, <1>2, <1>3 DEF IInv, Goto
  <2>1. TypeOK'      BY DEF TypeOK
  <2>2. BelievedDb'  BY DEF TypeOK, BelievedDb
  <2>3. Progress'    BY DEF TypeOK, Progress, Standing
  <2>4. QED  BY <2>1, <2>2, <2>3
<1>4. CASE /\ Fault \/ NoFault
           /\ Freed(w) /\ Fail(w)
           /\ current_dbIdx' = [current_dbIdx EXCEPT ![w] = -1]
  BY <1>1, <1>4, FailedInv, FaultBound DEF IInv
<1>5. QED  BY <1>3, <1>4 DEF Select, Remembered

\* A command runs in the database asked for, and not a second time.
LEMMA RunsWhereAsked ==
    ASSUME IInv, NEW w \in Worker, pc[w] \in {"command", "expire"}, link[w] # Nil
    PROVE  /\ call[w] \in Call
           /\ link[w] = call[w].db
           /\ Len(ran[w]) < call[w].steps
<1>1. call[w] \in Call /\ call[w].steps \in {1, 2}
  BY CallFields
<1>2. link[w] = call[w].db
  BY DEF IInv, TypeOK, BelievedDb, Progress, Standing
<1>3. Len(ran[w]) < call[w].steps
  <2>1. CASE pc[w] = "command"
    <3>1. Len(ran[w]) = 0
      BY <2>1 DEF IInv, Progress, Standing
    <3>2. QED  BY <1>1, <3>1
  <2>2. CASE pc[w] = "expire"
    <3>1. Len(ran[w]) = 1 /\ call[w].steps = 2
      BY <2>2 DEF IInv, Progress, Standing
    <3>2. QED  BY <3>1
  <2>3. QED  BY <2>1, <2>2
<1>4. QED  BY <1>1, <1>2, <1>3

LEMMA SendInv == ASSUME IInv, NEW w \in Worker, Send(w) PROVE IInv'
<1>1. /\ pc[w] \in {"command", "expire"}
      /\ pc' = [pc EXCEPT ![w] = IF pc[w] = "command" THEN "answer" ELSE "expired"]
      /\ UNCHANGED <<call, result, ctx, current_dbIdx, link, failures>>
  <2>1. /\ DOMAIN AfterSend = {"command", "expire"}
        /\ AfterSend["command"] = "answer" /\ AfterSend["expire"] = "expired"
    BY DEF AfterSend
  <2>2. pc[w] \in DOMAIN AfterSend /\ pc' = [pc EXCEPT ![w] = AfterSend[pc[w]]]
    BY DEF Send, Goto
  <2>3. UNCHANGED <<call, result, ctx, current_dbIdx, link, failures>>
    BY DEF Send
  <2>4. QED  BY <2>1, <2>2, <2>3
<1>2. PICK r \in {"none", "ok", "odd", "refused"} :
         /\ reply' = [reply EXCEPT ![w] = r]
         /\ \/ link[w] # Nil /\ ran' = [ran EXCEPT ![w] = Append(@, link[w])]
            \/ r \in {"none", "refused"} /\ UNCHANGED ran
         /\ Fault \/ NoFault
  BY DEF Send
<1>3. faults' \in 0 .. MaxFaults
  BY <1>2, FaultBound DEF IInv
<1>4. /\ ran[w] \in Seq(Db \cup {DefaultDb})
      /\ link[w] # Nil => link[w] \in Db \cup {DefaultDb}
  BY DEF IInv, TypeOK
<1>5. /\ ran' \in [Worker -> Seq(Db \cup {DefaultDb})]
      /\ Len(ran'[w]) \in {Len(ran[w]), Len(ran[w]) + 1}
      /\ r \notin {"none", "refused"} => Len(ran'[w]) = Len(ran[w]) + 1
      /\ \A v \in Worker \ {w} : ran'[v] = ran[v]
  <2>1. ran \in [Worker -> Seq(Db \cup {DefaultDb})]
    BY DEF IInv, TypeOK
  <2>2. CASE link[w] # Nil /\ ran' = [ran EXCEPT ![w] = Append(@, link[w])]
    <3>1. /\ Append(ran[w], link[w]) \in Seq(Db \cup {DefaultDb})
          /\ Len(Append(ran[w], link[w])) = Len(ran[w]) + 1
      BY <1>4, <2>2
    <3>2. ran'[w] = Append(ran[w], link[w])
      BY <2>1, <2>2
    <3>3. QED  BY <2>1, <2>2, <3>1, <3>2
  <2>3. CASE r \in {"none", "refused"} /\ UNCHANGED ran
    BY <2>1, <2>3
  <2>4. QED  BY <1>2, <2>2, <2>3
<1>6. TypeOK'      BY <1>1, <1>2, <1>3, <1>5 DEF IInv, TypeOK
<1>7. BelievedDb'  BY <1>1 DEF IInv, TypeOK, BelievedDb
<1>8. Progress'
  <2>1. /\ pc'[w] = IF pc[w] = "command" THEN "answer" ELSE "expired"
        /\ reply'[w] = r
        /\ \A v \in Worker \ {w} : pc'[v] = pc[v] /\ reply'[v] = reply[v]
    BY <1>1, <1>2 DEF IInv, TypeOK
  <2>2. SUFFICES ASSUME NEW v \in Worker PROVE Standing(v)'
    BY DEF Progress
  <2>3. Standing(v)
    BY DEF IInv, Progress
  <2>4. CASE v # w
    BY <1>1, <1>5, <2>1, <2>3, <2>4 DEF Standing
  <2>5. CASE v = w /\ pc[w] = "command"
    <3>1. Len(ran[w]) = 0 /\ current_dbIdx[w] = call[w].db
      BY <2>3, <2>5 DEF Standing
    <3>2. pc'[w] = "answer" /\ reply'[w] = r /\ current_dbIdx'[w] = call'[w].db
      BY <1>1, <2>1, <2>5, <3>1
    <3>3. Len(ran'[w]) <= 1 /\ (r = "ok" => Len(ran'[w]) = 1)
      <4> DEFINE before == Len(ran[w])
                 after == Len(ran'[w])
      <4>1. /\ after \in {before, before + 1}
            /\ r \notin {"none", "refused"} => after = before + 1
        BY <1>5
      <4>2. before = 0
        BY <3>1
      <4> HIDE DEF before, after
      <4>3. after <= 1 /\ (r = "ok" => after = 1)
        BY <4>1, <4>2
      <4>4. QED  BY <4>3 DEF after
    <3>4. Standing(w)'
      BY <3>2, <3>3 DEF Standing
    <3>5. QED  BY <2>5, <3>4
  <2>6. CASE v = w /\ pc[w] = "expire"
    <3>1. Len(ran[w]) = 1 /\ current_dbIdx[w] = call[w].db /\ call[w].steps = 2
      BY <2>3, <2>6 DEF Standing
    <3>2. pc'[w] = "expired" /\ reply'[w] = r /\ current_dbIdx'[w] = call'[w].db /\ call'[w].steps = 2
      BY <1>1, <2>1, <2>6, <3>1
    <3>3. Len(ran'[w]) <= 2 /\ (r = "ok" => Len(ran'[w]) = 2)
      <4> DEFINE before == Len(ran[w])
                 after == Len(ran'[w])
      <4>1. /\ after \in {before, before + 1}
            /\ r \notin {"none", "refused"} => after = before + 1
        BY <1>5
      <4>2. before = 1
        BY <3>1
      <4> HIDE DEF before, after
      <4>3. after <= 2 /\ (r = "ok" => after = 2)
        BY <4>1, <4>2
      <4>4. QED  BY <4>3 DEF after
    <3>4. Standing(w)'
      BY <3>2, <3>3 DEF Standing
    <3>5. QED  BY <2>6, <3>4
  <2>7. QED  BY <1>1, <2>4, <2>5, <2>6
<1>9. QED  BY <1>6, <1>7, <1>8 DEF IInv

LEMMA NoReplyInv == ASSUME IInv, NEW w \in Worker, NoReply(w) PROVE IInv'
<1>1. pc[w] # "idle" /\ Freed(w) /\ Fail(w) /\ UNCHANGED <<current_dbIdx, faults>>
  BY DEF NoReply
<1>2. QED  BY <1>1, FailedInv, FaultBound DEF IInv, NoFault

LEMMA ReplyInv == ASSUME IInv, NEW w \in Worker, Reply(w) PROVE IInv'
<1>1. /\ pc[w] \in {"answer", "expired"}
      /\ UNCHANGED <<ran, local, link, reply, bounds>>
  BY DEF Reply
<1>2. call[w] \in Call /\ call[w].steps \in {1, 2} /\ call[w] # Nil
  BY <1>1, CallFields
<1>3. CASE /\ reply[w] = "ok" /\ pc[w] = "answer" /\ call[w].steps = 2
           /\ Goto(w, "expire") /\ UNCHANGED <<call, result>>
  <2> USE <1>1, <1>2, <1>3 DEF IInv, Goto
  <2>1. TypeOK'      BY DEF TypeOK
  <2>2. BelievedDb'  BY DEF TypeOK, BelievedDb
  <2>3. Progress'    BY DEF TypeOK, Progress, Standing
  <2>4. QED  BY <2>1, <2>2, <2>3
<1>4. CASE \E r \in {"ok", "error"} : Return(w, r)
  <2> USE <1>1, <1>4 DEF IInv, Return, Goto
  <2>1. TypeOK'      BY DEF TypeOK
  <2>2. BelievedDb'  BY DEF TypeOK, BelievedDb
  <2>3. Progress'    BY DEF TypeOK, Progress, Standing
  <2>4. QED  BY <2>1, <2>2, <2>3
<1>5. QED  BY <1>3, <1>4 DEF Reply

LEMMA ServerClosesInv == ASSUME IInv, NEW w \in Worker, ServerCloses(w) PROVE IInv'
<1>1. /\ link' = [link EXCEPT ![w] = Nil]
      /\ UNCHANGED <<call, ran, result, pc, local, reply, failures>>
      /\ faults' \in 0 .. MaxFaults
  BY FaultBound DEF ServerCloses, IInv
<1> USE <1>1 DEF IInv
<1>2. TypeOK'      BY DEF TypeOK
<1>3. BelievedDb'  BY DEF TypeOK, BelievedDb
<1>4. Progress'    BY DEF TypeOK, Progress, Standing
<1>5. QED  BY <1>2, <1>3, <1>4

LEMMA NextInv == IInv /\ [Next]_vars => IInv'
<1> SUFFICES ASSUME IInv, [Next]_vars PROVE IInv'
  OBVIOUS
<1>1. CASE UNCHANGED vars
  BY <1>1 DEF vars, IInv, TypeOK, BelievedDb, Progress, Standing
<1>2. CASE Next
  BY <1>2, BeginInv, ReuseInv, ConnectInv, AuthInv, SelectInv, SendInv, NoReplyInv,
     ReplyInv, ServerClosesInv DEF Next, Step
<1>3. QED  BY <1>1, <1>2

LEMMA Invariance == Spec => []IInv
<1>1. QED  BY InitIInv, NextInv, PTL DEF Spec

\* Types, and the shape of a connection (redis.c:10-59).
THEOREM TypeCorrect == Spec => []TypeOK
<1>1. IInv => TypeOK
  BY DEF IInv
<1>2. QED  BY Invariance, <1>1, PTL

\* The database believed selected is the one selected (redis.c:9-21,57).
THEOREM DatabaseBelieved == Spec => []BelievedDb
<1>1. IInv => BelievedDb
  BY DEF IInv
<1>2. QED  BY Invariance, <1>1, PTL
-----------------------------------------------------------------------------
(* Every step of a connection is a step of RedisCall or none.              *)

LEMMA InitRefines == Init => Abs!AbsInit
BY DEF Init, Abs!AbsInit

LEMMA BeginRefines == ASSUME IInv, NEW w \in Worker, Begin(w) PROVE Abs!AbsBegin(w)
BY DEF IInv, TypeOK, Begin, Abs!AbsBegin, Call, Abs!Call

\* A helper returns 0 only when the last command was answered as it should.
LEMMA ReplyRefines ==
    ASSUME IInv, NEW w \in Worker, Reply(w)
    PROVE  Abs!AbsReturn(w) \/ UNCHANGED <<call, ran, result>>
<1>1. /\ pc[w] \in {"answer", "expired"} /\ pc[w] # "idle"
      /\ UNCHANGED ran
  BY DEF Reply
<1>2. call[w] \in Call /\ call[w].steps \in {1, 2} /\ call[w] # Nil
  BY <1>1, CallFields
<1>3. CASE /\ reply[w] = "ok" /\ pc[w] = "answer" /\ call[w].steps = 2
           /\ UNCHANGED <<call, result>>
  BY <1>1, <1>3
<1>4. CASE /\ ~(reply[w] = "ok" /\ pc[w] = "answer" /\ call[w].steps = 2)
           /\ Return(w, IF reply[w] = "ok" THEN "ok" ELSE "error")
  <2>1. reply[w] = "ok" => Len(ran[w]) = call[w].steps
    BY <1>1, <1>2, <1>4 DEF IInv, Progress, Standing
  <2>2. QED  BY <1>1, <1>2, <1>4, <2>1 DEF Return, Abs!AbsReturn
<1>5. QED  BY <1>3, <1>4 DEF Reply

LEMMA FailRefines ==
    ASSUME IInv, NEW w \in Worker, pc[w] # "idle", Fail(w) PROVE Abs!AbsReturn(w)
<1>1. call[w] # Nil
  BY CallFields
<1>2. QED  BY <1>1 DEF Fail, Return, Abs!AbsReturn

LEMMA SendRefines ==
    ASSUME IInv, NEW w \in Worker, Send(w)
    PROVE  Abs!AbsRun(w) \/ UNCHANGED <<call, ran, result>>
<1>1. /\ pc[w] \in {"command", "expire"} /\ pc[w] # "idle"
      /\ UNCHANGED <<call, result>>
  <2>1. DOMAIN AfterSend = {"command", "expire"}
    BY DEF AfterSend
  <2>2. QED  BY <2>1 DEF Send
<1>2. CASE link[w] # Nil /\ ran' = [ran EXCEPT ![w] = Append(@, link[w])]
  <2>1. call[w] # Nil
    BY <1>1, CallFields
  <2>2. link[w] = call[w].db /\ Len(ran[w]) < call[w].steps
    BY <1>1, <1>2, RunsWhereAsked
  <2>3. QED  BY <1>1, <1>2, <2>1, <2>2 DEF Abs!AbsRun
<1>3. CASE UNCHANGED ran
  BY <1>1, <1>3
<1>4. QED  BY <1>2, <1>3 DEF Send

LEMMA StepRefines == IInv /\ [Next]_vars => [Abs!AbsNext]_(Abs!absVars)
<1> SUFFICES ASSUME IInv, [Next]_vars PROVE [Abs!AbsNext]_(Abs!absVars)
  OBVIOUS
<1>1. CASE UNCHANGED vars
  BY <1>1 DEF vars, Abs!absVars
<1>2. ASSUME NEW w \in Worker, Step(w) \/ ServerCloses(w)
      PROVE  \/ Abs!AbsBegin(w) \/ Abs!AbsRun(w) \/ Abs!AbsReturn(w)
             \/ UNCHANGED <<call, ran, result>>
  <2>1. CASE Begin(w)
    BY <2>1, BeginRefines
  <2>2. CASE Reuse(w) \/ ServerCloses(w)
    BY <2>2 DEF Reuse, ServerCloses
  <2>3. CASE Connect(w)
    BY <2>3, FailRefines DEF Connect
  <2>4. CASE Auth(w)
    BY <2>4, FailRefines DEF Auth
  <2>5. CASE Select(w)
    BY <2>5, FailRefines DEF Select
  <2>6. CASE Send(w)
    BY <2>6, SendRefines
  <2>7. CASE NoReply(w)
    BY <2>7, FailRefines DEF NoReply
  <2>8. CASE Reply(w)
    BY <2>8, ReplyRefines
  <2>9. QED  BY <1>2, <2>1, <2>2, <2>3, <2>4, <2>5, <2>6, <2>7, <2>8 DEF Step
<1>3. QED  BY <1>1, <1>2 DEF Next, Abs!AbsNext, Abs!absVars

\* A helper runs each command at most once, in order and in the database it
\* was given, and returns 0 only if all of them ran, whatever fails.
THEOREM Refinement == Spec => RefinesRedisCall
<1>1. QED  BY InitRefines, StepRefines, Invariance, PTL
           DEF Spec, RefinesRedisCall, Abs!AbsSpec
-----------------------------------------------------------------------------
(* What a failure costs.                                                   *)

\* Counting a set that gains or loses one element.
LEMMA Gains ==
    ASSUME NEW S, NEW T, NEW x, IsFiniteSet(S), T \subseteq S \cup {x}
    PROVE  /\ Cardinality(S) \in Nat /\ Cardinality(T) \in Nat
           /\ Cardinality(T) <= Cardinality(S) + 1
<1>1. /\ IsFiniteSet(S \cup {x})
      /\ Cardinality(S \cup {x}) \in {Cardinality(S), Cardinality(S) + 1}
  BY FS_AddElement
<1>2. IsFiniteSet(T) /\ Cardinality(T) <= Cardinality(S \cup {x})
  BY <1>1, FS_Subset
<1>3. Cardinality(S) \in Nat /\ Cardinality(T) \in Nat
  BY <1>2, FS_CardinalityType
<1>4. QED  BY <1>1, <1>2, <1>3

LEMMA Loses ==
    ASSUME NEW S, NEW T, NEW x \in S, IsFiniteSet(S), T \subseteq S \ {x}
    PROVE  /\ Cardinality(S) \in Nat /\ Cardinality(T) \in Nat
           /\ Cardinality(T) + 1 <= Cardinality(S)
<1>1. IsFiniteSet(S \ {x}) /\ Cardinality(S \ {x}) = Cardinality(S) - 1
  BY FS_RemoveElement
<1>2. IsFiniteSet(T) /\ Cardinality(T) <= Cardinality(S \ {x})
  BY <1>1, FS_Subset
<1>3. Cardinality(S) \in Nat /\ Cardinality(T) \in Nat
  BY <1>2, FS_CardinalityType
<1>4. QED  BY <1>1, <1>2, <1>3

LEMMA LostFinite == IsFiniteSet(Lost) /\ IsFiniteSet(Lost')
BY ConnAssumption, FS_Subset DEF Lost

\* A call fails over a lost connection, which is then given up.
LEMMA LostConnectionPays ==
    ASSUME Paid, TypeOK, NEW w \in Lost, Lost' \subseteq Lost \ {w},
           failures' = failures + 1, NoFault
    PROVE  Paid'
<1>1. /\ Cardinality(Lost) \in Nat /\ Cardinality(Lost') \in Nat
      /\ Cardinality(Lost') + 1 <= Cardinality(Lost)
  BY LostFinite, Loses
<1>2. QED  BY <1>1 DEF Paid, TypeOK, NoFault

\* A fault that costs a call at once, or a connection that a later call loses.
LEMMA FaultPays ==
    ASSUME Paid, TypeOK, NEW w \in Worker, Fault,
           \/ Lost' \subseteq Lost /\ failures' = failures + 1
           \/ Lost' \subseteq Lost \cup {w} /\ UNCHANGED failures
    PROVE  Paid'
<1>1. CASE Lost' \subseteq Lost /\ failures' = failures + 1
  <2>1. Cardinality(Lost') <= Cardinality(Lost)
    BY <1>1, LostFinite, FS_Subset
  <2>2. Cardinality(Lost') \in Nat /\ Cardinality(Lost) \in Nat
    BY LostFinite, FS_CardinalityType
  <2>3. QED  BY <1>1, <2>1, <2>2 DEF Paid, TypeOK, Fault
<1>2. CASE Lost' \subseteq Lost \cup {w} /\ UNCHANGED failures
  <2>1. /\ Cardinality(Lost) \in Nat /\ Cardinality(Lost') \in Nat
        /\ Cardinality(Lost') <= Cardinality(Lost) + 1
    BY <1>2, LostFinite, Gains
  <2>2. QED  BY <1>2, <2>1 DEF Paid, TypeOK, Fault
<1>3. QED  BY <1>1, <1>2

LEMMA NothingToPay ==
    ASSUME Paid, TypeOK, Lost' \subseteq Lost, UNCHANGED bounds PROVE Paid'
<1>1. Cardinality(Lost') <= Cardinality(Lost)
  BY LostFinite, FS_Subset
<1>2. Cardinality(Lost') \in Nat /\ Cardinality(Lost) \in Nat
  BY LostFinite, FS_CardinalityType
<1>3. QED  BY <1>1, <1>2 DEF Paid, TypeOK

\* A step that changes nothing of the other threads' connections.
Apart(w) ==
    \A v \in Worker \ {w} :
        /\ ctx'[v] = ctx[v] /\ link'[v] = link[v]
        /\ pc'[v] = pc[v] /\ reply'[v] = reply[v]

LEMMA StepApart == ASSUME TypeOK, NEW w \in Worker, Step(w) \/ ServerCloses(w) PROVE Apart(w)
<1>1. CASE Begin(w)         BY <1>1 DEF TypeOK, Apart, Begin, Goto
<1>2. CASE Reuse(w)         BY <1>2 DEF TypeOK, Apart, Reuse, Goto
<1>3. CASE Connect(w)       BY <1>3 DEF TypeOK, Apart, Connect, Fail, Return, Goto
<1>4. CASE Auth(w)          BY <1>4 DEF TypeOK, Apart, Auth, Fail, Return, Goto, Freed
<1>5. CASE Select(w)        BY <1>5 DEF TypeOK, Apart, Select, Fail, Return, Goto, Freed
<1>6. CASE Send(w)          BY <1>6 DEF TypeOK, Apart, Send, Goto
<1>7. CASE NoReply(w)       BY <1>7 DEF TypeOK, Apart, NoReply, Fail, Return, Goto, Freed
<1>8. CASE Reply(w)         BY <1>8 DEF TypeOK, Apart, Reply, Return, Goto
<1>9. CASE ServerCloses(w)  BY <1>9 DEF TypeOK, Apart, ServerCloses
<1>10. QED
  BY <1>1, <1>2, <1>3, <1>4, <1>5, <1>6, <1>7, <1>8, <1>9 DEF Step

\* So what becomes of Lost depends on w alone.
LEMMA LostBy ==
    ASSUME NEW w \in Worker, Apart(w)
    PROVE  /\ Lost' \subseteq Lost \cup {w}
           /\ ~Doomed(w)' \/ Doomed(w) => Lost' \subseteq Lost
           /\ ~Doomed(w)' => Lost' \subseteq Lost \ {w}
BY DEF Apart, Lost, Doomed

\* The step in which a call fails and frees its connection.
LEMMA FreedPays ==
    ASSUME IInv, Paid, NEW w \in Worker, pc[w] \notin {"idle", "connect"}, Apart(w),
           Freed(w), failures' = failures + 1,
           IF Doomed(w) THEN NoFault ELSE Fault
    PROVE  Paid'
<1>1. ~Doomed(w)'
  BY DEF Freed, Doomed, IInv, TypeOK
<1>2. CASE Doomed(w)
  BY <1>1, <1>2, LostBy, LostConnectionPays DEF Lost, IInv
<1>3. CASE ~Doomed(w)
  BY <1>1, <1>3, LostBy, FaultPays DEF IInv
<1>4. QED  BY <1>2, <1>3

LEMMA PaidStep == IInv /\ Paid /\ [Next]_vars => Paid'
<1> SUFFICES ASSUME IInv, Paid, [Next]_vars PROVE Paid'
  OBVIOUS
<1>1. CASE UNCHANGED vars
  BY <1>1 DEF vars, Paid, Lost, Doomed
<1>2. ASSUME NEW w \in Worker, Step(w) \/ ServerCloses(w) PROVE Paid'
  <2>0. Apart(w) /\ TypeOK
    BY <1>2, StepApart DEF IInv
  <2>1. CASE Begin(w) \/ Reuse(w)
    <3>1. Doomed(w)' => Doomed(w)
      BY <2>0, <2>1 DEF Begin, Reuse, Goto, Doomed, TypeOK
    <3>2. UNCHANGED bounds
      BY <2>1 DEF Begin, Reuse
    <3>3. QED  BY <2>0, <3>1, <3>2, LostBy, NothingToPay
  <2>2. CASE Connect(w)
    <3>1. ~Doomed(w)'
      BY <2>0, <2>2, ConnAssumption DEF Connect, Fail, Return, Goto, Doomed, TypeOK, DefaultDb
    <3>2. CASE NoFault /\ UNCHANGED failures
      BY <2>0, <3>1, <3>2, LostBy, NothingToPay DEF NoFault
    <3>3. CASE Fault /\ Fail(w)
      BY <2>0, <3>1, <3>3, LostBy, FaultPays DEF Fail
    <3>4. QED  BY <2>2, <3>2, <3>3 DEF Connect
  <2>3. CASE Auth(w)
    <3>1. pc[w] = "auth" /\ (Doomed(w) <=> link[w] = Nil)
      BY <2>0, <2>3 DEF Auth, Doomed, TypeOK
    <3>2. CASE Goto(w, "select") /\ UNCHANGED <<local, link, reply, bounds>>
      <4>1. Doomed(w)' => Doomed(w)
        BY <2>0, <3>2 DEF Goto, Doomed, TypeOK
      <4>2. QED  BY <2>0, <3>2, <4>1, LostBy, NothingToPay
    <3>3. CASE (IF link[w] = Nil THEN NoFault ELSE Fault) /\ Freed(w) /\ Fail(w)
      BY <2>0, <3>1, <3>3, FreedPays DEF Fail
    <3>4. QED  BY <2>3, <3>2, <3>3 DEF Auth
  <2>4. CASE Select(w)
    <3>1. pc[w] = "select" /\ (Doomed(w) <=> link[w] = Nil)
      BY <2>0, <2>4 DEF Select, Doomed, TypeOK
    <3>2. CASE /\ link' = [link EXCEPT ![w] = call[w].db]
               /\ Goto(w, "command") /\ UNCHANGED bounds
      <4>1. call[w].db # Nil
        BY <3>1, CallFields
      <4>2. ~Doomed(w)'
        BY <2>0, <3>2, <4>1 DEF Goto, Doomed, TypeOK
      <4>3. QED  BY <2>0, <3>2, <4>2, LostBy, NothingToPay
    <3>3. CASE (IF link[w] = Nil THEN NoFault ELSE Fault) /\ Freed(w) /\ Fail(w)
      BY <2>0, <3>1, <3>3, FreedPays DEF Fail
    <3>4. QED  BY <2>4, <3>2, <3>3 DEF Select, Remembered
  <2>5. CASE Send(w)
    <3>1. /\ UNCHANGED failures
          /\ Doomed(w) <=> link[w] = Nil
      <4>1. DOMAIN AfterSend = {"command", "expire"}
        BY DEF AfterSend
      <4>2. QED  BY <2>0, <2>5, <4>1 DEF Send, Doomed, TypeOK
    <3>2. CASE Fault
      BY <2>0, <3>1, <3>2, LostBy, FaultPays
    <3>3. CASE NoFault
      <4>1. link[w] # Nil => reply'[w] # "none"
        BY <2>0, <2>5, <3>3 DEF Send, Fault, NoFault, TypeOK
      <4>2. Doomed(w)' => Doomed(w)
        BY <2>5, <3>1, <4>1 DEF Send, Doomed
      <4>3. QED  BY <2>0, <3>1, <3>3, <4>2, LostBy, NothingToPay DEF NoFault
    <3>4. QED  BY <2>5, <3>2, <3>3 DEF Send
  <2>6. CASE NoReply(w)
    <3>1. pc[w] \in {"answer", "expired"} /\ Doomed(w)
      BY <2>0, <2>6 DEF NoReply, Doomed, TypeOK
    <3>2. QED  BY <2>0, <2>6, <3>1, FreedPays DEF NoReply, Fail, NoFault
  <2>7. CASE Reply(w)
    <3>1. Doomed(w)' => Doomed(w)
      BY <2>0, <2>7 DEF Reply, Doomed
    <3>2. UNCHANGED bounds
      BY <2>7 DEF Reply
    <3>3. QED  BY <2>0, <3>1, <3>2, LostBy, NothingToPay
  <2>8. CASE ServerCloses(w)
    BY <2>0, <2>8, LostBy, FaultPays DEF ServerCloses
  <2>9. QED
    BY <1>2, <2>1, <2>2, <2>3, <2>4, <2>5, <2>6, <2>7, <2>8 DEF Step
<1>3. QED  BY <1>1, <1>2 DEF Next

\* No more calls fail than there were faults (the redisFree of redis.c:15,
\* redis_get_int.c:22, redis_get_hget_string.c and redis_set_hset_key_value.c).
THEOREM FaultCost == Spec => []FaultCostsOneCall
<1>1. Init => Paid
  <2>1. ASSUME Init PROVE Lost = {}
    BY <2>1 DEF Init, Lost, Doomed
  <2>2. QED  BY <2>1, FS_EmptySet DEF Init, Paid
<1>2. IInv /\ Paid => FaultCostsOneCall
  <2>1. Cardinality(Lost) \in Nat
    BY LostFinite, FS_CardinalityType
  <2>2. QED  BY <2>1 DEF IInv, TypeOK, Paid, FaultCostsOneCall
<1>3. QED  BY Invariance, PaidStep, <1>1, <1>2, PTL DEF Spec
=============================================================================
