--------------------------- MODULE IpLimiterProofs ---------------------------
(***************************************************************************)
(* Safety of the per-IP limit for any number of threads and addresses, any *)
(* window, any Redis faults and any crashes.                               *)
(*                                                                         *)
(* AtMostMaxAllowed is about requests let through, and a thread decides    *)
(* that long after its INCR: what is inductive counts the threads that may *)
(* still let a request through (Entitled).  Each of them, and each request *)
(* let through, used up one number that INCR returned (Spent).             *)
(***************************************************************************)
EXTENDS IpLimiter, FiniteSetTheorems, TLAPS

\* The global is set while a call is on its way.
Chosen == (\E w \in Worker : pc[w] # "idle") => DbIdx_ipCountX # -1

\* The threads whose call, if nothing fails any more, lets a request through
\* that counts for the living counter k.
Entitled(k) == {w \in Worker : pc[w] = "expire" /\ key[w] = k /\ current[w] /\ ~Over(w)}

\* The numbers within the limit that counter k has returned.
Returned(k) == IF counter[k] = Nil THEN 0 ELSE Smaller(counter[k].n, Limit(k))

Spent == \A k \in Key : passes[k] + Cardinality(Entitled(k)) <= Returned(k)

IInv == TypeOK /\ Chosen /\ Spent /\ CounterExpires
-----------------------------------------------------------------------------
(* What the parts of the model are.                                        *)

\* A limit is one of three numbers.
LEMMA LimitType == ASSUME NEW k \in Key PROVE Limit(k) \in {2, 5, 10}
<1>1. k[1] \in {"signup", "login", "admin"}
  BY LimiterAssumption DEF Key
<1>2. MaxAllowed["signup"] = 5 /\ MaxAllowed["login"] = 10 /\ MaxAllowed["admin"] = 2
  BY DEF MaxAllowed
<1>3. QED  BY <1>1, <1>2 DEF Limit

\* A key with another database is a key.
LEMMA KeyElsewhere ==
    ASSUME NEW k \in Key, NEW d \in {5, 1, 12}
    PROVE  [k EXCEPT ![2] = d] \in Key
BY DEF Key

\* A counter of Redis, as TypeOK has it.
Counter == [n : 1 .. 11, ttl : (1 .. Window) \cup {Forever}]

LEMMA CounterFields ==
    ASSUME TypeOK, NEW k \in Key, counter[k] # Nil
    PROVE  /\ counter[k] \in Counter
           /\ counter[k].n \in 1 .. Limit(k) + 1
           /\ counter[k].ttl \in (1 .. Window) \cup {Forever}
BY LimitType DEF TypeOK, Counter

\* A record of a count and a TTL is a counter, and not Nil.
LEMMA IsCounter ==
    ASSUME NEW n \in 1 .. 11, NEW ttl \in (1 .. Window) \cup {Forever}
    PROVE  [n |-> n, ttl |-> ttl] \in Counter /\ [n |-> n, ttl |-> ttl] # Nil
BY LimiterAssumption DEF Counter, Forever

LEMMA NoKeyIsNil == Nil \notin Key
BY LimiterAssumption DEF Key

\* INCR leaves a counter whose count is one more, or stays above the limit.
LEMMA RaisedType ==
    ASSUME TypeOK, NEW k \in Key
    PROVE  /\ Raised(k) \in Counter /\ Raised(k) # Nil
           /\ Raised(k).n = IF counter[k] = Nil THEN 1 ELSE Smaller(counter[k].n + 1, Limit(k) + 1)
           /\ Raised(k).n \in 1 .. Limit(k) + 1
           /\ Raised(k).ttl = IF counter[k] = Nil THEN Forever ELSE counter[k].ttl
<1>1. Limit(k) \in {2, 5, 10}
  BY LimitType
<1>2. CASE counter[k] = Nil
  <2>1. Raised(k) = [n |-> 1, ttl |-> Forever]
    BY <1>2 DEF Raised
  <2>2. [n |-> 1, ttl |-> Forever] \in Counter /\ [n |-> 1, ttl |-> Forever] # Nil
    BY LimiterAssumption DEF Counter, Forever
  <2>3. QED  BY <1>1, <1>2, <2>1, <2>2
<1>3. CASE counter[k] # Nil
  <2> DEFINE m == Smaller(counter[k].n + 1, Limit(k) + 1)
  <2>1. counter[k] \in Counter /\ counter[k].n \in 1 .. Limit(k) + 1
    BY <1>3, CounterFields
  <2>2. m \in 1 .. Limit(k) + 1 /\ m \in 1 .. 11
    BY <1>1, <2>1 DEF Smaller
  <2>3. Raised(k) = [counter[k] EXCEPT !.n = m]
    BY <1>3 DEF Raised
  <2>4. Raised(k) = [n |-> m, ttl |-> counter[k].ttl]
    BY <2>1, <2>3 DEF Counter
  <2>5. counter[k].ttl \in (1 .. Window) \cup {Forever}
    BY <2>1 DEF Counter
  <2>6. Raised(k) \in Counter /\ Raised(k) # Nil
    BY <2>2, <2>4, <2>5, IsCounter
  <2>7. QED  BY <1>3, <2>2, <2>4, <2>6
<1>4. QED  BY <1>2, <1>3

\* EXPIRE changes nothing but the TTL of a counter that is there.
LEMMA RenewedType ==
    ASSUME TypeOK, NEW w \in Worker, key[w] \in Key
    PROVE  /\ Renewed(w) \in [Key -> Counter \cup {Nil}]
           /\ \A k \in Key :
                /\ Renewed(w)[k] = Nil <=> counter[k] = Nil
                /\ counter[k] # Nil => Renewed(w)[k].n = counter[k].n
                /\ k # key[w] => Renewed(w)[k] = counter[k]
           /\ counter[key[w]] # Nil => Renewed(w)[key[w]].ttl = Window
<1>1. counter \in [Key -> Counter \cup {Nil}]
  BY DEF TypeOK, Counter
<1>2. CASE counter[key[w]] = Nil
  BY <1>1, <1>2 DEF Renewed
<1>3. CASE counter[key[w]] # Nil
  <2> DEFINE c == [n |-> counter[key[w]].n, ttl |-> Window]
  <2>1. counter[key[w]] \in Counter
    BY <1>3, CounterFields
  <2>2. [counter[key[w]] EXCEPT !.ttl = Window] = c
    BY <2>1 DEF Counter
  <2>3. Renewed(w) = [counter EXCEPT ![key[w]] = c]
    BY <1>3, <2>2 DEF Renewed
  <2>4. c \in Counter /\ c # Nil
    BY <2>1, LimiterAssumption, IsCounter DEF Counter
  <2>5. QED  BY <1>1, <1>3, <2>3, <2>4
<1>4. QED  BY <1>2, <1>3

\* A tick takes a counter away or leaves its count alone.
LEMMA LeftType ==
    ASSUME TypeOK, NEW k \in Key
    PROVE  /\ Left(counter[k]) \in Counter \cup {Nil}
           /\ counter[k] = Nil => Left(counter[k]) = Nil
           /\ Left(counter[k]) # Nil =>
                /\ Left(counter[k]).n = counter[k].n
                /\ Left(counter[k]).ttl = Forever <=> counter[k].ttl = Forever
<1>1. CASE counter[k] = Nil
  BY <1>1 DEF Left
<1>2. CASE counter[k] # Nil /\ counter[k].ttl \in {1, Forever}
  <2>1. counter[k] \in Counter
    BY <1>2, CounterFields
  <2>2. QED  BY <1>2, <2>1 DEF Left
<1>3. CASE counter[k] # Nil /\ counter[k].ttl \notin {1, Forever}
  <2> DEFINE c == [n |-> counter[k].n, ttl |-> counter[k].ttl - 1]
  <2>1. /\ counter[k] \in Counter
        /\ counter[k].ttl \in 2 .. Window
    BY <1>3, CounterFields, LimiterAssumption DEF Forever
  <2>2. Left(counter[k]) = [counter[k] EXCEPT !.ttl = counter[k].ttl - 1]
    BY <1>3 DEF Left
  <2>3. Left(counter[k]) = c
    BY <2>1, <2>2 DEF Counter
  <2>4. c \in Counter /\ c # Nil /\ c.ttl # Forever
    BY <2>1, LimiterAssumption, IsCounter DEF Counter, Forever
  <2>5. QED  BY <1>3, <2>3, <2>4
<1>4. QED  BY <1>1, <1>2, <1>3
-----------------------------------------------------------------------------
(* Counting.                                                               *)

LEMMA EntitledFinite ==
    ASSUME NEW k
    PROVE  /\ IsFiniteSet(Entitled(k)) /\ Cardinality(Entitled(k)) \in Nat
           /\ IsFiniteSet(Entitled(k)') /\ Cardinality(Entitled(k)') \in Nat
<1>1. Entitled(k) \in SUBSET Worker /\ Entitled(k)' \in SUBSET Worker
  BY DEF Entitled
<1>2. QED  BY <1>1, LimiterAssumption, FS_Subset, FS_CardinalityType

\* Nobody new is entitled.
LEMMA FewerEntitled ==
    ASSUME NEW k, Entitled(k)' \subseteq Entitled(k)
    PROVE  Cardinality(Entitled(k)') <= Cardinality(Entitled(k))
BY EntitledFinite, FS_Subset

\* One thread gives up what it is entitled to, or never was.
LEMMA OneLess ==
    ASSUME NEW k, NEW w, Entitled(k)' = Entitled(k) \ {w}
    PROVE  Cardinality(Entitled(k)') =
             IF w \in Entitled(k) THEN Cardinality(Entitled(k)) - 1 ELSE Cardinality(Entitled(k))
BY EntitledFinite, FS_RemoveElement

\* One thread is entitled to more.
LEMMA OneMore ==
    ASSUME NEW k, NEW w, Entitled(k)' \subseteq Entitled(k) \cup {w}
    PROVE  Cardinality(Entitled(k)') <= Cardinality(Entitled(k)) + 1
<1> DEFINE S == Entitled(k) \cup {w}
<1>1. IsFiniteSet(S) /\ Cardinality(S) <= Cardinality(Entitled(k)) + 1
  <2>1. IsFiniteSet(Entitled(k)) /\ Cardinality(Entitled(k)) \in Nat
    BY EntitledFinite
  <2>2. QED  BY <2>1, FS_AddElement
<1>2. Cardinality(S) \in Nat
  BY <1>1, FS_CardinalityType
<1>3. Cardinality(Entitled(k)') <= Cardinality(S)
  BY <1>1, FS_Subset
<1>4. QED  BY <1>1, <1>2, <1>3, EntitledFinite

LEMMA ReturnedType ==
    ASSUME TypeOK, NEW k \in Key
    PROVE  Returned(k) \in 0 .. Limit(k)
BY LimitType, CounterFields DEF Returned, Smaller

\* A step by which no counter changes and nobody new is entitled.
LEMMA SpentSame ==
    ASSUME TypeOK, Spent, UNCHANGED <<counter, passes>>, \A k \in Key : Entitled(k)' \subseteq Entitled(k)
    PROVE  Spent'
<1> SUFFICES ASSUME NEW k \in Key
             PROVE  passes'[k] + Cardinality(Entitled(k)') <= Returned(k)'
  BY DEF Spent
<1>1. /\ passes[k] + Cardinality(Entitled(k)) <= Returned(k)
      /\ passes'[k] = passes[k] /\ passes[k] \in Nat
      /\ Returned(k)' = Returned(k)
  BY DEF Spent, Returned, Limit, TypeOK
<1>2. Cardinality(Entitled(k)') <= Cardinality(Entitled(k))
  BY FewerEntitled
<1>3. Returned(k) \in Nat
  BY ReturnedType, LimitType
<1>4. QED  BY <1>1, <1>2, <1>3, EntitledFinite
-----------------------------------------------------------------------------
(* One lemma per action; its steps are the conjuncts of IInv.              *)

LEMMA InitIInv == Init => IInv
<1> SUFFICES ASSUME Init PROVE IInv
  OBVIOUS
<1>1. TypeOK
  <2>1. /\ counter \in [Key -> [n : 1 .. 11, ttl : (1 .. Window) \cup {Forever}] \cup {Nil}]
        /\ \A k \in Key : counter[k] # Nil => counter[k].n <= Limit(k) + 1
    BY DEF Init
  <2>2. /\ pc \in [Worker -> {"idle", "call", "exists", "incr", "expire"}]
        /\ key \in [Worker -> Key \cup {Nil}]
        /\ \A w \in Worker : pc[w] = "idle" <=> key[w] = Nil
    BY DEF Init
  <2>3. /\ blocked \in [Worker -> BOOLEAN] /\ current \in [Worker -> BOOLEAN]
        /\ faulty \in BOOLEAN
    BY DEF Init
  <2>4. /\ count \in [Worker -> 0 .. 11] /\ passes \in [Key -> 0 .. 11]
        /\ DbIdx_ipCountX \in {5, 1, 12, -1}
    BY DEF Init
  <2>5. QED  BY <2>1, <2>2, <2>3, <2>4 DEF TypeOK
<1>2. Chosen /\ CounterExpires
  BY DEF Init, Chosen, CounterExpires
<1>3. Spent
  <2>1. \A k \in Key : Entitled(k) = {} /\ Returned(k) = 0 /\ passes[k] = 0
    BY DEF Init, Entitled, Returned
  <2>2. QED  BY <2>1, FS_EmptySet DEF Spent
<1>4. QED  BY <1>1, <1>2, <1>3 DEF IInv

LEMMA AcceptInv == ASSUME IInv, NEW w \in Worker, Accept(w) PROVE IInv'
<1>1. PICK t \in Types, ip \in Ip :
         /\ DbIdx_ipCountX' = DbIdx_ipCount[t]
         /\ key' = [key EXCEPT ![w] = <<t, DbIdx_ipCount[t], ip>>]
  BY DEF Accept
<1>2. /\ pc[w] = "idle" /\ pc' = [pc EXCEPT ![w] = "call"]
      /\ UNCHANGED <<counter, blocked, count, passes, current, faulty>>
  BY DEF Accept, redis, past
<1>3. DbIdx_ipCount[t] \in {5, 1, 12}
  <2>1. t \in {"signup", "login", "admin"}
    BY LimiterAssumption
  <2>2. /\ DbIdx_ipCount["signup"] = 5 /\ DbIdx_ipCount["login"] = 1
        /\ DbIdx_ipCount["admin"] = 12
    BY DEF DbIdx_ipCount
  <2>3. QED  BY <2>1, <2>2
<1>4. <<t, DbIdx_ipCount[t], ip>> \in Key
  BY <1>3 DEF Key
<1>5. TypeOK'
  BY <1>1, <1>2, <1>3, <1>4, NoKeyIsNil DEF IInv, TypeOK, Limit
<1>6. Chosen'
  BY <1>1, <1>3 DEF Chosen
<1>7. Spent'
  <2>1. \A k \in Key : Entitled(k)' \subseteq Entitled(k)
    BY <1>1, <1>2 DEF IInv, TypeOK, Entitled, Over, Limit
  <2>2. QED  BY <1>2, <2>1, SpentSame DEF IInv
<1>8. CounterExpires'
  BY <1>1, <1>2 DEF IInv, TypeOK, CounterExpires
<1>9. QED  BY <1>5, <1>6, <1>7, <1>8 DEF IInv

LEMMA CallInv == ASSUME IInv, NEW w \in Worker, Call(w) PROVE IInv'
<1>1. /\ pc[w] = "call" /\ pc' = [pc EXCEPT ![w] = "exists"]
      /\ key' = [key EXCEPT ![w] = [key[w] EXCEPT ![2] = DbIdx_ipCountX]]
      /\ UNCHANGED <<DbIdx_ipCountX, counter, blocked, count, passes, current, faulty>>
  BY DEF Call, memory, redis, past
<1>2. DbIdx_ipCountX \in {5, 1, 12} /\ key[w] \in Key
  BY <1>1 DEF IInv, TypeOK, Chosen
<1>3. [key[w] EXCEPT ![2] = DbIdx_ipCountX] \in Key
  BY <1>2, KeyElsewhere
<1>4. TypeOK'
  BY <1>1, <1>3, NoKeyIsNil DEF IInv, TypeOK, Limit
<1>5. Chosen'
  BY <1>1, <1>2 DEF Chosen
<1>6. Spent'
  <2>1. \A k \in Key : Entitled(k)' \subseteq Entitled(k)
    BY <1>1 DEF IInv, TypeOK, Entitled, Over, Limit
  <2>2. QED  BY <1>1, <2>1, SpentSame DEF IInv
<1>7. CounterExpires'
  BY <1>1 DEF IInv, TypeOK, CounterExpires
<1>8. QED  BY <1>4, <1>5, <1>6, <1>7 DEF IInv

\* What becomes of a thread that returns.
LEMMA Returning ==
    ASSUME TypeOK, NEW w \in Worker, Return(w)
    PROVE  /\ pc' \in [Worker -> {"idle", "call", "exists", "incr", "expire"}]
           /\ key' \in [Worker -> Key \cup {Nil}]
           /\ \A v \in Worker : pc'[v] = "idle" <=> key'[v] = Nil
           /\ blocked' \in [Worker -> BOOLEAN] /\ count' \in [Worker -> 0 .. 11]
           /\ current' \in [Worker -> BOOLEAN]
           /\ pc'[w] = "idle" /\ key'[w] = Nil
           /\ \A v \in Worker \ {w} :
                pc'[v] = pc[v] /\ key'[v] = key[v] /\ count'[v] = count[v]
                /\ current'[v] = current[v]
           /\ \A k \in Key : Entitled(k)' = Entitled(k) \ {w}
<1>1. /\ pc' \in [Worker -> {"idle", "call", "exists", "incr", "expire"}]
      /\ key' \in [Worker -> Key \cup {Nil}]
      /\ \A v \in Worker : pc'[v] = "idle" <=> key'[v] = Nil
      /\ blocked' \in [Worker -> BOOLEAN] /\ count' \in [Worker -> 0 .. 11]
      /\ current' \in [Worker -> BOOLEAN]
      /\ pc'[w] = "idle" /\ key'[w] = Nil
  BY DEF TypeOK, Return
<1>2. \A v \in Worker \ {w} :
         pc'[v] = pc[v] /\ key'[v] = key[v] /\ count'[v] = count[v] /\ current'[v] = current[v]
  BY DEF TypeOK, Return
<1>3. \A k \in Key : Entitled(k)' = Entitled(k) \ {w}
  BY <1>1, <1>2 DEF Entitled, Over, Limit
<1>4. QED  BY <1>1, <1>2, <1>3

LEMMA ExistsInv == ASSUME IInv, NEW w \in Worker, Exists(w) PROVE IInv'
<1>1. PICK o \in Outcomes, found \in Found :
         /\ Noted(o)
         /\ IF o = "ok"
            THEN /\ blocked' = [blocked EXCEPT ![w] = OkBlocks(key[w][1], found)]
                 /\ pc' = [pc EXCEPT ![w] = "incr"]
                 /\ UNCHANGED <<key, count, current>>
            ELSE Return(w)
  BY DEF Exists
<1>2. pc[w] = "exists" /\ UNCHANGED <<DbIdx_ipCountX, counter, passes>>
  BY DEF Exists, memory, redis
<1>3. faulty' \in BOOLEAN /\ (~faulty' => ~faulty)
  BY <1>1 DEF IInv, TypeOK, Noted
<1>4. Chosen'
  BY <1>2 DEF IInv, Chosen
<1>5. CASE o = "ok"
  <2>1. OkBlocks(key[w][1], found) \in BOOLEAN
    BY DEF OkBlocks
  <2>2. TypeOK'
    BY <1>1, <1>2, <1>3, <1>5, <2>1 DEF IInv, TypeOK, Limit
  <2>3. \A k \in Key : Entitled(k)' \subseteq Entitled(k)
    BY <1>1, <1>2, <1>5 DEF IInv, TypeOK, Entitled, Over, Limit
  <2>4. CounterExpires'
    BY <1>1, <1>2, <1>3, <1>5 DEF IInv, TypeOK, CounterExpires
  <2>5. QED  BY <1>2, <1>4, <2>2, <2>3, <2>4, SpentSame DEF IInv
<1>6. CASE o # "ok"
  <2>1. Return(w)
    BY <1>1, <1>6
  <2>2. TypeOK'
    BY <1>2, <1>3, <2>1, Returning DEF IInv, TypeOK, Limit
  <2>3. \A k \in Key : Entitled(k)' \subseteq Entitled(k)
    BY <2>1, Returning DEF IInv
  <2>4. CounterExpires'
    BY <1>1, <1>6 DEF CounterExpires, Noted
  <2>5. QED  BY <1>2, <1>4, <2>2, <2>3, <2>4, SpentSame DEF IInv
<1>7. QED  BY <1>5, <1>6

LEMMA IncrInv == ASSUME IInv, NEW w \in Worker, Incr(w) PROVE IInv'
<1>1. PICK o \in Outcomes :
         /\ Noted(o)
         /\ counter' = IF o = "err" THEN counter
                       ELSE [counter EXCEPT ![key[w]] = Raised(key[w])]
         /\ IF o = "ok"
            THEN /\ count' = [count EXCEPT ![w] = counter'[key[w]].n]
                 /\ current' = [current EXCEPT ![w] = TRUE]
                 /\ pc' = [pc EXCEPT ![w] = "expire"]
                 /\ UNCHANGED <<key, blocked>>
            ELSE Return(w)
  BY DEF Incr
<1>2. pc[w] = "incr" /\ UNCHANGED <<DbIdx_ipCountX, passes>>
  BY DEF Incr, memory
<1>3. TypeOK /\ Spent /\ CounterExpires /\ key[w] \in Key
  BY <1>2 DEF IInv, TypeOK
<1>4. faulty' \in BOOLEAN /\ (~faulty' => ~faulty) /\ (o # "ok" => faulty')
  BY <1>1, <1>3 DEF TypeOK, Noted
<1>5. Chosen'
  BY <1>2 DEF IInv, Chosen
<1> PICK K \in Key : K = key[w]
  BY <1>3
<1>6. /\ Raised(K) \in Counter /\ Raised(K) # Nil
      /\ Raised(K).n = IF counter[K] = Nil THEN 1 ELSE Smaller(counter[K].n + 1, Limit(K) + 1)
      /\ Raised(K).n \in 1 .. Limit(K) + 1
      /\ Raised(K).ttl = IF counter[K] = Nil THEN Forever ELSE counter[K].ttl
      /\ Limit(K) \in {2, 5, 10}
  BY <1>3, RaisedType, LimitType
<1>7. /\ counter' \in [Key -> Counter \cup {Nil}]
      /\ \A k \in Key : counter'[k] # Nil => counter'[k].n <= Limit(k) + 1
      /\ \A k \in Key \ {K} : counter'[k] = counter[k]
      /\ counter'[K] = IF o = "err" THEN counter[K] ELSE Raised(K)
  BY <1>1, <1>3, <1>6 DEF TypeOK, Counter
<1>8. /\ \A k \in Key \ {K} : Returned(k)' = Returned(k)
      /\ \A k \in Key : Returned(k)' \in Nat /\ Returned(k) \in Nat
      /\ Returned(K)' >= Returned(K)
      /\ o = "ok" /\ Raised(K).n <= Limit(K) => Returned(K)' = Returned(K) + 1
  <2>1. \A k \in Key : Limit(k)' = Limit(k)
    BY DEF Limit
  <2>2. counter[K] # Nil => counter[K].n \in 1 .. Limit(K) + 1
    BY <1>3, CounterFields
  <2>3. \A k \in Key \ {K} : Returned(k)' = Returned(k)
    BY <1>7, <2>1 DEF Returned
  <2>4. \A k \in Key : Returned(k) \in Nat
    BY <1>3, ReturnedType, LimitType
  <2>5. /\ Returned(K)' \in Nat /\ Returned(K)' >= Returned(K)
        /\ o = "ok" /\ Raised(K).n <= Limit(K) => Returned(K)' = Returned(K) + 1
    <3>1. CASE o = "err"
      BY <1>7, <2>1, <2>4, <3>1 DEF Returned
    <3>2. CASE o # "err"
      <4>1. Returned(K)' = Smaller(Raised(K).n, Limit(K))
        BY <1>6, <1>7, <2>1, <3>2 DEF Returned
      <4>2. CASE counter[K] = Nil
        BY <1>6, <4>1, <4>2 DEF Returned, Smaller
      <4>3. CASE counter[K] # Nil
        BY <1>6, <2>2, <4>1, <4>3 DEF Returned, Smaller
      <4>4. QED  BY <4>2, <4>3
    <3>3. QED  BY <3>1, <3>2
  <2>6. QED  BY <2>3, <2>4, <2>5
<1>9. CASE o = "ok"
  <2>1. count'[w] = Raised(K).n /\ count' \in [Worker -> 0 .. 11]
    <3>1. Raised(K).n \in 0 .. 11
      BY <1>6
    <3>2. count' = [count EXCEPT ![w] = Raised(K).n]
      BY <1>1, <1>7, <1>9
    <3>3. QED  BY <1>3, <3>1, <3>2 DEF TypeOK
  <2>2. TypeOK'
    BY <1>1, <1>2, <1>3, <1>4, <1>7, <1>9, <2>1 DEF TypeOK, Limit, Counter
  <2>3. /\ \A k \in Key \ {K} : Entitled(k)' = Entitled(k)
        /\ Entitled(K)' \subseteq Entitled(K) \cup {w}
        /\ ~(Raised(K).n <= Limit(K)) => Entitled(K)' \subseteq Entitled(K)
    <3>1. /\ pc'[w] = "expire" /\ key' = key /\ pc[w] # "expire"
          /\ Over(w)' <=> ~(Raised(K).n <= Limit(K))
      BY <1>1, <1>2, <1>3, <1>6, <1>9, <2>1 DEF TypeOK, Over, Limit
    <3>2. \A v \in Worker \ {w} :
             pc'[v] = pc[v] /\ current'[v] = current[v] /\ (Over(v)' <=> Over(v))
      BY <1>1, <1>3, <1>9 DEF TypeOK, Over, Limit
    <3>3. QED  BY <3>1, <3>2 DEF Entitled
  <2>4. Spent'
    <3> SUFFICES ASSUME NEW k \in Key
                 PROVE  passes'[k] + Cardinality(Entitled(k)') <= Returned(k)'
      BY DEF Spent
    <3>1. /\ passes[k] + Cardinality(Entitled(k)) <= Returned(k)
          /\ passes'[k] = passes[k] /\ passes[k] \in Nat
          /\ Returned(k) \in Nat /\ Cardinality(Entitled(k)) \in Nat
          /\ Cardinality(Entitled(k)') \in Nat
      BY <1>2, <1>3, EntitledFinite, ReturnedType, LimitType DEF Spent, TypeOK
    <3>2. Returned(k)' \in Nat
      BY <1>8
    <3>3. CASE k # K
      BY <1>8, <2>3, <3>1, <3>3
    <3>4. CASE k = K /\ Raised(K).n <= Limit(K)
      <4>1. Cardinality(Entitled(K)') <= Cardinality(Entitled(K)) + 1
        BY <2>3, OneMore
      <4>2. QED  BY <1>8, <1>9, <3>1, <3>4, <4>1
    <3>5. CASE k = K /\ ~(Raised(K).n <= Limit(K))
      <4>1. Cardinality(Entitled(K)') <= Cardinality(Entitled(K))
        BY <2>3, <3>5, FewerEntitled
      <4>2. QED  BY <1>8, <3>1, <3>2, <3>5, <4>1
    <3>6. QED  BY <3>3, <3>4, <3>5
  <2>5. CounterExpires'
    BY <1>1, <1>2, <1>3, <1>4, <1>7, <1>9 DEF TypeOK, CounterExpires
  <2>6. QED  BY <1>5, <2>2, <2>4, <2>5 DEF IInv
<1>10. CASE o # "ok"
  <2>1. Return(w)
    BY <1>1, <1>10
  <2>2. TypeOK'
    BY <1>2, <1>3, <1>4, <1>7, <2>1, Returning DEF TypeOK, Limit, Counter
  <2>3. Spent'
    <3> SUFFICES ASSUME NEW k \in Key
                 PROVE  passes'[k] + Cardinality(Entitled(k)') <= Returned(k)'
      BY DEF Spent
    <3>1. /\ passes[k] + Cardinality(Entitled(k)) <= Returned(k)
          /\ passes'[k] = passes[k] /\ passes[k] \in Nat
          /\ Returned(k) \in Nat /\ Cardinality(Entitled(k)) \in Nat
          /\ Cardinality(Entitled(k)') \in Nat
      BY <1>2, <1>3, EntitledFinite, ReturnedType, LimitType DEF Spent, TypeOK
    <3>2. Returned(k)' \in Nat
      BY <1>8
    <3>3. Cardinality(Entitled(k)') <= Cardinality(Entitled(k))
      BY <1>3, <2>1, Returning, FewerEntitled
    <3>4. Returned(k)' >= Returned(k)
      BY <1>8, <3>1
    <3>5. QED  BY <3>1, <3>2, <3>3, <3>4
  <2>4. CounterExpires'
    BY <1>4, <1>10 DEF CounterExpires
  <2>5. QED  BY <1>5, <2>2, <2>3, <2>4 DEF IInv
<1>11. QED  BY <1>9, <1>10
LEMMA ExpireInv == ASSUME IInv, NEW w \in Worker, Expire(w) PROVE IInv'
<1>1. PICK o \in Outcomes :
         /\ Noted(o)
         /\ counter' = IF o = "err" THEN counter ELSE Renewed(w)
         /\ passes' = IF o = "ok" /\ ~blocked[w] /\ ~Over(w) /\ current[w]
                      THEN [passes EXCEPT ![key[w]] = Smaller(@ + 1, Limit(key[w]) + 1)]
                      ELSE passes
  BY DEF Expire
<1>2. pc[w] = "expire" /\ UNCHANGED DbIdx_ipCountX /\ Return(w)
  BY DEF Expire, memory
<1>3. TypeOK /\ Spent /\ CounterExpires /\ key[w] \in Key
  BY <1>2 DEF IInv, TypeOK
<1> PICK K \in Key : K = key[w]
  BY <1>3
<1>4. faulty' \in BOOLEAN /\ (~faulty' => ~faulty) /\ (o # "ok" => faulty')
  BY <1>1, <1>3 DEF TypeOK, Noted
<1>5. Chosen'
  BY <1>2 DEF IInv, Chosen
<1>6. /\ counter \in [Key -> Counter \cup {Nil}]
      /\ counter' \in [Key -> Counter \cup {Nil}]
      /\ \A k \in Key :
           /\ counter'[k] = Nil <=> counter[k] = Nil
           /\ counter[k] # Nil => counter'[k].n = counter[k].n
           /\ k # K => counter'[k] = counter[k]
      /\ o = "ok" /\ counter[K] # Nil => counter'[K].ttl = Window
  <2>1. counter \in [Key -> Counter \cup {Nil}]
    BY <1>3 DEF TypeOK, Counter
  <2>2. QED  BY <1>1, <1>3, <2>1, RenewedType
<1>7. Limit(K) \in {2, 5, 10} /\ Limit(K)' = Limit(K)
  BY LimitType DEF Limit
<1>8. /\ passes' \in [Key -> 0 .. 11]
      /\ \A k \in Key \ {K} : passes'[k] = passes[k]
      /\ passes'[K] <= IF w \in Entitled(K) THEN passes[K] + 1 ELSE passes[K]
  <2>1. CASE o = "ok" /\ ~blocked[w] /\ ~Over(w) /\ current[w]
    <3> DEFINE m == Smaller(passes[K] + 1, Limit(K) + 1)
    <3>1. passes' = [passes EXCEPT ![K] = m]
      BY <1>1, <2>1
    <3>2. m \in 0 .. 11 /\ m <= passes[K] + 1
      BY <1>3, <1>7 DEF TypeOK, Smaller
    <3>3. w \in Entitled(K)
      BY <1>2, <2>1 DEF Entitled
    <3> HIDE DEF m
    <3>4. QED  BY <1>3, <3>1, <3>2, <3>3 DEF TypeOK
  <2>2. CASE ~(o = "ok" /\ ~blocked[w] /\ ~Over(w) /\ current[w])
    BY <1>1, <1>3, <2>2 DEF TypeOK
  <2>3. QED  BY <2>1, <2>2
<1>9. TypeOK'
  BY <1>2, <1>3, <1>4, <1>6, <1>8, Returning DEF TypeOK, Limit, Counter
<1>10. Spent'
  <2> SUFFICES ASSUME NEW k \in Key
               PROVE  passes'[k] + Cardinality(Entitled(k)') <= Returned(k)'
    BY DEF Spent
  <2>1. /\ passes[k] + Cardinality(Entitled(k)) <= Returned(k)
        /\ passes[k] \in Nat /\ passes'[k] \in Nat /\ Returned(k) \in Nat
        /\ Cardinality(Entitled(k)) \in Nat /\ Cardinality(Entitled(k)') \in Nat
    BY <1>3, <1>8, EntitledFinite, ReturnedType, LimitType DEF Spent, TypeOK
  <2>2. Returned(k)' = Returned(k)
    BY <1>6 DEF Returned, Limit
  <2>3. Cardinality(Entitled(k)') =
           IF w \in Entitled(k) THEN Cardinality(Entitled(k)) - 1 ELSE Cardinality(Entitled(k))
    BY <1>2, <1>3, Returning, OneLess
  <2>4. k # K => w \notin Entitled(k)
    BY DEF Entitled
  <2>5. QED  BY <1>8, <2>1, <2>2, <2>3, <2>4
<1>11. CounterExpires'
  <2> SUFFICES ASSUME ~faulty', NEW k \in Key, counter'[k] # Nil, counter'[k].ttl = Forever
               PROVE  \E v \in Worker : pc'[v] = "expire" /\ key'[v] = k
    BY DEF CounterExpires
  <2>1. k # K /\ counter[k] # Nil /\ counter[k].ttl = Forever
    BY <1>4, <1>6, LimiterAssumption DEF Forever
  <2>2. PICK v \in Worker : pc[v] = "expire" /\ key[v] = k
    BY <1>3, <1>4, <2>1 DEF CounterExpires
  <2>3. v # w
    BY <2>1, <2>2
  <2>4. QED  BY <1>2, <1>3, <2>2, <2>3, Returning
<1>12. QED  BY <1>5, <1>9, <1>10, <1>11 DEF IInv

LEMMA TickInv == ASSUME IInv, Tick PROVE IInv'
<1>1. /\ counter' = [k \in Key |-> Left(counter[k])]
      /\ passes' = [k \in Key |-> IF counter'[k] = Nil THEN 0 ELSE passes[k]]
      /\ current' = [w \in Worker |-> current[w] /\ counter'[key[w]] # Nil]
      /\ UNCHANGED <<DbIdx_ipCountX, pc, key, blocked, count, faulty>>
  BY DEF Tick, memory, call
<1>2. TypeOK /\ Spent /\ CounterExpires
  BY DEF IInv
<1>3. /\ counter' \in [Key -> Counter \cup {Nil}]
      /\ \A k \in Key : counter'[k] # Nil =>
           /\ counter[k] # Nil
           /\ counter'[k].n = counter[k].n
           /\ counter'[k].ttl = Forever <=> counter[k].ttl = Forever
  BY <1>1, <1>2, LeftType
<1>4. passes' \in [Key -> 0 .. 11] /\ current' \in [Worker -> BOOLEAN]
  BY <1>1, <1>2 DEF TypeOK
<1>5. TypeOK'
  BY <1>1, <1>2, <1>3, <1>4 DEF TypeOK, Limit, Counter
<1>6. Chosen'
  BY <1>1 DEF IInv, Chosen
<1>7. Spent'
  <2> SUFFICES ASSUME NEW k \in Key
               PROVE  passes'[k] + Cardinality(Entitled(k)') <= Returned(k)'
    BY DEF Spent
  <2>1. CASE counter'[k] = Nil
    <3>1. Entitled(k)' = {}
      BY <1>1, <2>1 DEF Entitled
    <3>2. QED  BY <1>1, <2>1, <3>1, FS_EmptySet DEF Returned
  <2>2. CASE counter'[k] # Nil
    <3>1. Entitled(k)' \subseteq Entitled(k)
      BY <1>1, <1>2 DEF TypeOK, Entitled, Over, Limit
    <3>2. Returned(k)' = Returned(k) /\ passes'[k] = passes[k]
      BY <1>1, <1>3, <2>2 DEF Returned, Limit
    <3>3. /\ passes[k] + Cardinality(Entitled(k)) <= Returned(k)
          /\ passes[k] \in Nat /\ Returned(k) \in Nat
      BY <1>2, ReturnedType, LimitType DEF Spent, TypeOK
    <3>4. QED  BY <3>1, <3>2, <3>3, FewerEntitled, EntitledFinite
  <2>3. QED  BY <2>1, <2>2
<1>8. CounterExpires'
  BY <1>1, <1>2, <1>3 DEF CounterExpires
<1>9. QED  BY <1>5, <1>6, <1>7, <1>8 DEF IInv

LEMMA CrashInv == ASSUME IInv, Crash PROVE IInv'
<1>1. TypeOK'
  <2>1. UNCHANGED <<counter, passes>> /\ faulty' = TRUE /\ DbIdx_ipCountX' = -1
    BY DEF Crash, redis
  <2>2. /\ pc' \in [Worker -> {"idle", "call", "exists", "incr", "expire"}]
        /\ key' \in [Worker -> Key \cup {Nil}]
        /\ \A w \in Worker : pc'[w] = "idle" <=> key'[w] = Nil
    BY DEF Crash
  <2>3. blocked' \in [Worker -> BOOLEAN] /\ current' \in [Worker -> BOOLEAN]
    BY DEF Crash
  <2>4. count' \in [Worker -> 0 .. 11]
    BY DEF Crash
  <2>5. QED  BY <2>1, <2>2, <2>3, <2>4 DEF IInv, TypeOK, Limit
<1>2. Chosen' /\ CounterExpires'
  BY DEF Crash, Chosen, CounterExpires
<1>3. Spent'
  <2>1. \A k \in Key : Entitled(k)' \subseteq Entitled(k)
    BY DEF Crash, Entitled
  <2>2. UNCHANGED <<counter, passes>>
    BY DEF Crash, redis
  <2>3. QED  BY <2>1, <2>2, SpentSame DEF IInv
<1>4. QED  BY <1>1, <1>2, <1>3 DEF IInv

LEMMA StutterInv == ASSUME IInv, UNCHANGED vars PROVE IInv'
<1> USE DEF vars, memory, redis, call, past
<1>1. TypeOK' /\ Chosen' /\ CounterExpires'
  BY DEF IInv, TypeOK, Chosen, CounterExpires, Limit
<1>2. Spent'
  <2>1. \A k \in Key : Entitled(k)' \subseteq Entitled(k)
    BY DEF Entitled, Over, Limit
  <2>2. QED  BY <2>1, SpentSame DEF IInv
<1>3. QED  BY <1>1, <1>2 DEF IInv
-----------------------------------------------------------------------------
\* The inductive invariant holds in every reachable state.
THEOREM Invariance == Spec => []IInv
<1>1. IInv /\ [Next]_vars => IInv'
  <2> SUFFICES ASSUME IInv, [Next]_vars PROVE IInv'
    OBVIOUS
  <2>1. QED
    BY AcceptInv, CallInv, ExistsInv, IncrInv, ExpireInv, TickInv, CrashInv, StutterInv
    DEF Next, Step
<1>2. QED  BY InitIInv, <1>1, PTL DEF Spec

\* Every variable has its type; a count stays within one of its limit.
THEOREM TypeCorrect == Spec => []TypeOK
<1>1. IInv => TypeOK
  BY DEF IInv
<1>2. QED  BY Invariance, <1>1, PTL

\* However many threads check at once, and whatever is lost, a counter lets
\* through at most its limit while it lives (redis_check_ip.c:30-43).
THEOREM LimitHolds == Spec => []AtMostMaxAllowed
<1>1. IInv => AtMostMaxAllowed
  <2> SUFFICES ASSUME IInv, NEW k \in Key PROVE passes[k] <= Limit(k)
    BY DEF AtMostMaxAllowed
  <2>1. /\ passes[k] + Cardinality(Entitled(k)) <= Returned(k)
        /\ passes[k] \in Nat /\ Returned(k) \in 0 .. Limit(k)
    BY ReturnedType DEF IInv, Spent, TypeOK
  <2>2. QED  BY <2>1, EntitledFinite, LimitType
<1>2. QED  BY Invariance, <1>1, PTL

\* Until a command fails or the process dies, a counter without a TTL has a
\* thread about to send its EXPIRE (redis_increment.c:15-24).
THEOREM ExpirySent == Spec => []CounterExpires
<1>1. IInv => CounterExpires
  BY DEF IInv
<1>2. QED  BY Invariance, <1>1, PTL
=============================================================================
