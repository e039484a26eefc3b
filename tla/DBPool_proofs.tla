---------------------------- MODULE DBPool_proofs ----------------------------
(***************************************************************************)
(* Proofs about DBPool: no connection is lost or lent twice, the pool      *)
(* implements the abstract allocator, as many connections as threads are   *)
(* enough, and there are never more NULLs on the list than threads above   *)
(* that number.                                                            *)
(*                                                                         *)
(* ConnsKept is inductive with the fact that only a thread in a call has   *)
(* an engine. EnoughConns is a count: if the list is empty and some        *)
(* thread has no connection, the connections are with the other threads,   *)
(* one each, so they are fewer than the threads; without a NULL pushed     *)
(* back the list never holds one. NullsBounded is one too, of the NULLs on *)
(* the list and in calls: a call makes a new one only when the list is     *)
(* empty, and then every connection is with a thread and every NULL with   *)
(* another.                                                                *)
(***************************************************************************)
EXTENDS DBPool, FiniteSetTheorems, TLAPS

\* An engine on a list.
In(s, c) == \E i \in DOMAIN s : s[i] = c

OnlyInCall == \A t \in Threads : pc[t] # "call" => engine[t] = NULL

NoNulls ==
    Cardinality(Threads) <= Cardinality(Conns) =>
        \A i \in DOMAIN db_conn_pool : db_conn_pool[i] # NULL

IInv == TypeOK /\ ConnsKept /\ OnlyInCall

EInv == EnoughConns /\ NoNulls

-----------------------------------------------------------------------------

\* An engine at the end of a list of engines.
LEMMA AtTheEnd ==
  ASSUME NEW S, NEW s \in Seq(S), NEW e \in S
  PROVE  /\ s \o <<e>> \in Seq(S)
         /\ Len(s \o <<e>>) = Len(s) + 1
         /\ \A i \in 1 .. Len(s) : (s \o <<e>>)[i] = s[i]
         /\ (s \o <<e>>)[Len(s) + 1] = e
  OBVIOUS

\* The list without its first engine.
LEMMA WithoutFirst ==
  ASSUME NEW S, NEW s \in Seq(S), s # <<>>
  PROVE  /\ Tail(s) \in Seq(S)
         /\ Len(Tail(s)) = Len(s) - 1
         /\ Len(s) \in Nat /\ Len(s) > 0
         /\ \A i \in 1 .. Len(s) - 1 : Tail(s)[i] = s[i + 1]
         /\ Head(s) = s[1] /\ Head(s) \in S
  OBVIOUS

\* The list of a new pool is a sequence of all connections.
LEMMA InitIInv == Init => IInv
<1> SUFFICES ASSUME Init PROVE IInv
  OBVIOUS
<1> DEFINE n == Cardinality(Conns)
<1>1. n \in Nat /\ ExistsBijection(1 .. n, Conns)
  BY FS_CardinalityType, PoolAssumption
<1>2. db_conn_pool \in [1 .. n -> Conns]
      /\ \A i, j \in 1 .. n : db_conn_pool[i] = db_conn_pool[j] => i = j
  BY DEF Init
<1>3. TypeOK
  <2>1. db_conn_pool \in Seq(Conns \cup {NULL})
    BY <1>1, <1>2
  <2> QED
    BY <2>1 DEF Init, TypeOK
<1>4. db_conn_pool \in Injection(1 .. n, Conns)
  BY <1>2 DEF Injection, IsInjective
<1>5. IsFiniteSet(1 .. n) /\ Cardinality(1 .. n) = n
  BY <1>1, FS_Interval
<1>6. db_conn_pool \in Surjection(1 .. n, Conns)
  BY <1>4, <1>5, FS_Injection, PoolAssumption, Zenon
<1>7. \A c \in Conns : Listed(c)
  BY <1>2, <1>6 DEF Surjection, Listed
<1>8. ConnsKept /\ OnlyInCall
  BY <1>2, <1>7 DEF Init, ConnsKept, OnlyInCall
<1> QED
  BY <1>3, <1>8 DEF IInv

\* A connection popped is with the thread and no longer on the list.
LEMMA PopIInv ==
  ASSUME IInv, NEW t \in Threads, Pop(t), UNCHANGED crashed
  PROVE  IInv'
<1> DEFINE s == db_conn_pool
<1>1. s \in Seq(Conns \cup {NULL}) /\ s # <<>> /\ pc[t] = "found"
      /\ engine[t] = NULL
  BY DEF IInv, TypeOK, Pop, OnlyInCall
<1>2. /\ Tail(s) \in Seq(Conns \cup {NULL})
      /\ Len(Tail(s)) = Len(s) - 1
      /\ Len(s) \in Nat /\ Len(s) > 0
      /\ \A i \in 1 .. Len(s) - 1 : Tail(s)[i] = s[i + 1]
      /\ Head(s) = s[1] /\ Head(s) \in Conns \cup {NULL}
  BY <1>1, WithoutFirst
<1>3. s' = Tail(s) /\ engine' = [engine EXCEPT ![t] = s[1]]
      /\ pc' = [pc EXCEPT ![t] = "call"]
  BY <1>2 DEF Pop, Rest
<1>4. TypeOK'
  BY <1>1, <1>2, <1>3 DEF IInv, TypeOK
<1>5. OnlyInCall'
  BY <1>3 DEF IInv, TypeOK, OnlyInCall
<1>6. DOMAIN s = 1 .. Len(s) /\ DOMAIN s' = 1 .. Len(s) - 1
  BY <1>1, <1>2, <1>3
<1>7. ASSUME NEW c \in Conns PROVE In(s', c) \/ \E u \in Threads : engine'[u] = c
  <2>1. CASE \E u \in Threads : engine[u] = c
    BY <2>1, <1>1, <1>3, PoolAssumption DEF IInv, TypeOK
  <2>2. CASE Listed(c)
    <3>1. PICK i \in 1 .. Len(s) : s[i] = c
      BY <2>2, <1>6 DEF Listed, In
    <3>2. CASE i = 1
      BY <3>1, <3>2, <1>3 DEF IInv, TypeOK
    <3>3. CASE i # 1
      <4>1. i - 1 \in 1 .. Len(s) - 1 /\ s'[i - 1] = c
        BY <3>1, <3>3, <1>2, <1>3
      <4> QED
        BY <4>1, <1>6 DEF Listed, In
    <3> QED
      BY <3>2, <3>3
  <2> QED
    BY <2>1, <2>2 DEF IInv, ConnsKept
<1>8. ASSUME NEW i \in DOMAIN s', NEW j \in DOMAIN s',
             s'[i] = s'[j], s'[i] # NULL
      PROVE  i = j
  <2>1. i + 1 \in DOMAIN s /\ j + 1 \in DOMAIN s
        /\ s[i + 1] = s'[i] /\ s[j + 1] = s'[j]
    BY <1>2, <1>3, <1>6
  <2>2. i \in Nat /\ j \in Nat
    BY <1>6, <1>2
  <2> QED
    BY <2>1, <2>2, <1>8 DEF IInv, ConnsKept
<1>9. s[1] # NULL =>
        /\ ~In(s', s[1])
        /\ \A u \in Threads : engine[u] # s[1]
  <2> SUFFICES ASSUME s[1] # NULL
               PROVE  ~In(s', s[1]) /\ \A u \in Threads : engine[u] # s[1]
    OBVIOUS
  <2>1. 1 \in DOMAIN s
    BY <1>2, <1>6
  <2>2. ~In(s', s[1])
    <3> SUFFICES ASSUME NEW i \in 1 .. Len(s) - 1, s'[i] = s[1] PROVE FALSE
      BY <1>6, <1>3 DEF Listed, In
    <3>1. i + 1 \in DOMAIN s /\ s[i + 1] = s[1] /\ i + 1 # 1
      BY <1>2, <1>3, <1>6
    <3> QED
      BY <3>1, <2>1 DEF IInv, ConnsKept
  <2>3. \A u \in Threads : engine[u] # s[1]
    BY <2>1 DEF IInv, ConnsKept, Listed, In
  <2> QED
    BY <2>2, <2>3
<1>10. ASSUME NEW c, In(s', c) PROVE Listed(c)
  <2>1. PICK i \in 1 .. Len(s) - 1 : s'[i] = c
    BY <1>10, <1>6 DEF Listed, In
  <2>2. i + 1 \in DOMAIN s /\ s[i + 1] = c
    BY <2>1, <1>2, <1>3, <1>6
  <2> QED
    BY <2>2 DEF Listed, In
<1>11. ASSUME NEW u \in Threads, NEW v \in Threads, engine'[u] # NULL
       PROVE  ~In(s', engine'[u]) /\ (engine'[u] = engine'[v] => u = v)
  <2>1. CASE u = t
    BY <2>1, <1>3, <1>9, <1>11 DEF IInv, TypeOK, Listed, In
  <2>2. CASE u # t
    <3>1. engine'[u] = engine[u] /\ engine[u] # NULL
      BY <2>2, <1>3, <1>11 DEF IInv, TypeOK
    <3>2. ~Listed(engine[u]) /\ (engine[u] = engine[v] => u = v)
      BY <3>1 DEF IInv, ConnsKept
    <3>3. engine[u] # s[1]
      BY <3>1, <1>9
    <3>4. v = t \/ engine'[v] = engine[v]
      BY <1>3 DEF IInv, TypeOK
    <3>5. v = t => engine'[v] = s[1]
      BY <1>3 DEF IInv, TypeOK
    <3>6. ~In(s', engine'[u])
      BY <3>1, <3>2, <1>10 DEF Listed, In
    <3> QED
      BY <3>1, <3>2, <3>3, <3>4, <3>5, <3>6
  <2> QED
    BY <2>1, <2>2
<1>12. ConnsKept'
  BY <1>7, <1>8, <1>11 DEF ConnsKept, Listed, In
<1> QED
  BY <1>4, <1>5, <1>12 DEF IInv

\* A connection pushed is back on the list, and with no thread.
LEMMA PushIInv ==
  ASSUME IInv, NEW t \in Threads, Push(t), UNCHANGED crashed
  PROVE  IInv'
<1> DEFINE s == db_conn_pool
           e == engine[t]
<1>1. s \in Seq(Conns \cup {NULL}) /\ e \in Conns \cup {NULL}
  BY DEF IInv, TypeOK
<1>2. /\ s \o <<e>> \in Seq(Conns \cup {NULL})
      /\ Len(s \o <<e>>) = Len(s) + 1
      /\ \A i \in 1 .. Len(s) : (s \o <<e>>)[i] = s[i]
      /\ (s \o <<e>>)[Len(s) + 1] = e
      /\ Len(s) \in Nat
  BY <1>1, AtTheEnd
<1>3. s' = s \o <<e>> /\ engine' = [engine EXCEPT ![t] = NULL]
      /\ pc' = [pc EXCEPT ![t] = "idle"]
  BY DEF Push, Pushed
<1>4. TypeOK'
  BY <1>1, <1>2, <1>3 DEF IInv, TypeOK
<1>5. OnlyInCall'
  BY <1>3 DEF IInv, TypeOK, OnlyInCall
<1>6. DOMAIN s = 1 .. Len(s) /\ DOMAIN s' = 1 .. Len(s) + 1
  BY <1>1, <1>2, <1>3
<1>7. /\ \A u \in Threads : u # t => engine'[u] = engine[u]
      /\ engine'[t] = NULL
  BY <1>3 DEF IInv, TypeOK
<1>8. \A i \in 1 .. Len(s) : s'[i] = s[i]
  BY <1>2, <1>3
<1>9. s'[Len(s) + 1] = e
  BY <1>2, <1>3
<1>10. ASSUME NEW c \in Conns
       PROVE  In(s', c) \/ \E u \in Threads : engine'[u] = c
  <2>1. CASE Listed(c)
    BY <2>1, <1>6, <1>8, <1>2 DEF Listed, In
  <2>2. CASE e = c
    BY <2>2, <1>6, <1>9, <1>2 DEF Listed, In
  <2>3. CASE \E u \in Threads : engine[u] = c /\ u # t
    BY <2>3, <1>7
  <2> QED
    BY <2>1, <2>2, <2>3 DEF IInv, ConnsKept
<1>11. e # NULL => \A i \in 1 .. Len(s) : s[i] # e
  BY <1>6 DEF IInv, ConnsKept, Listed, In
<1>12. ASSUME NEW i \in DOMAIN s', NEW j \in DOMAIN s',
              s'[i] = s'[j], s'[i] # NULL
       PROVE  i = j
  <2>1. CASE i \in 1 .. Len(s) /\ j \in 1 .. Len(s)
    BY <2>1, <1>8, <1>6, <1>12 DEF IInv, ConnsKept
  <2>2. CASE i \in 1 .. Len(s) /\ j = Len(s) + 1
    BY <2>2, <1>8, <1>9, <1>11, <1>12
  <2>3. CASE i = Len(s) + 1 /\ j \in 1 .. Len(s)
    BY <2>3, <1>8, <1>9, <1>11, <1>12
  <2> QED
    BY <2>1, <2>2, <2>3, <1>6, <1>2
<1>13. ASSUME NEW u \in Threads, NEW v \in Threads, engine'[u] # NULL
       PROVE  ~In(s', engine'[u]) /\ (engine'[u] = engine'[v] => u = v)
  <2>1. u # t /\ engine'[u] = engine[u] /\ engine[u] # NULL
    BY <1>7, <1>13
  <2>2. ~Listed(engine[u]) /\ engine[u] # e
        /\ (engine[u] = engine[v] => u = v)
    BY <2>1 DEF IInv, ConnsKept
  <2>3. v = t \/ engine'[v] = engine[v]
    BY <1>7
  <2>4. \A i \in 1 .. Len(s) + 1 : s'[i] # engine[u]
    BY <2>2, <1>8, <1>9, <1>6, <1>2 DEF Listed, In
  <2>5. ~In(s', engine'[u])
    BY <2>4, <2>1, <1>6 DEF Listed, In
  <2> QED
    BY <2>1, <2>2, <2>3, <2>5, <1>7
<1>14. ConnsKept'
  BY <1>10, <1>12, <1>13 DEF ConnsKept, Listed, In
<1> QED
  BY <1>4, <1>5, <1>14 DEF IInv

\* Every step keeps the invariant.
LEMMA NextIInv == IInv /\ [Next]_vars => IInv'
<1> SUFFICES ASSUME IInv, [Next]_vars PROVE IInv'
  OBVIOUS
<1>1. ASSUME NEW t \in Threads, SizeFound(t), UNCHANGED crashed PROVE IInv'
  BY <1>1 DEF SizeFound, IInv, TypeOK, ConnsKept, OnlyInCall, Listed
<1>2. ASSUME NEW t \in Threads, SizeZero(t), UNCHANGED crashed PROVE IInv'
  <2>1. engine[t] = NULL
    BY <1>2 DEF SizeZero, IInv, OnlyInCall
  <2>2. engine' = engine
    BY <1>2, <2>1 DEF SizeZero, NoEngine, IInv, TypeOK
  <2> QED
    BY <1>2, <2>2 DEF SizeZero, IInv, TypeOK, ConnsKept, OnlyInCall, Listed
<1>3. ASSUME NEW t \in Threads, PopEmpty(t) PROVE IInv'
  BY <1>3 DEF PopEmpty, IInv, TypeOK, ConnsKept, OnlyInCall, Listed
<1>4. CASE UNCHANGED vars
  BY <1>4 DEF vars, IInv, TypeOK, ConnsKept, OnlyInCall, Listed
<1> QED
  BY <1>1, <1>2, <1>3, <1>4, PopIInv, PushIInv DEF Next

LEMMA AlwaysIInv == Spec => []IInv
  BY InitIInv, NextIInv, PTL DEF Spec

\* No connection is ever lost, doubled or lent to two threads
\* (DBConnectionPop, DBConnectionPush).
THEOREM ConnectionsKept == Spec => []ConnsKept
<1>1. IInv => ConnsKept
  BY DEF IInv
<1> QED
  BY <1>1, AlwaysIInv, PTL

-----------------------------------------------------------------------------

\* If the list is empty and a thread has no connection, there are fewer
\* connections than threads.
LEMMA FewerConns ==
  ASSUME IInv, NEW t \in Threads, db_conn_pool = <<>>, engine[t] = NULL
  PROVE  ~(Cardinality(Threads) <= Cardinality(Conns))
<1> DEFINE f == [c \in Conns |-> CHOOSE u \in Threads : engine[u] = c]
<1>1. \A c \in Conns : \E u \in Threads : engine[u] = c
  BY DEF IInv, ConnsKept, Listed
<1>2. \A c \in Conns : f[c] \in Threads /\ engine[f[c]] = c
  BY <1>1
<1>3. f \in Injection(Conns, Threads \ {t})
  BY <1>2, PoolAssumption DEF Injection, IsInjective
<1>4. IsFiniteSet(Threads \ {t})
      /\ Cardinality(Threads \ {t}) = Cardinality(Threads) - 1
  BY FS_RemoveElement, PoolAssumption
<1>5. Cardinality(Conns) <= Cardinality(Threads \ {t})
  BY <1>3, <1>4, FS_Injection
<1>6. Cardinality(Conns) \in Nat /\ Cardinality(Threads) \in Nat
  BY FS_CardinalityType, PoolAssumption
<1> QED
  BY <1>4, <1>5, <1>6

\* With as many connections as threads no thread finds the list empty, and no
\* NULL is pushed.
LEMMA NextEInv == IInv /\ EInv /\ [Next]_vars => EInv'
<1> SUFFICES ASSUME IInv, EInv, [Next]_vars,
                    Cardinality(Threads) <= Cardinality(Conns)
             PROVE  /\ ~crashed'
                    /\ \A t \in Threads : pc'[t] = "call" => engine'[t] # NULL
                    /\ \A i \in DOMAIN db_conn_pool' : db_conn_pool'[i] # NULL
  BY DEF EInv, EnoughConns, NoNulls
<1>1. /\ ~crashed
      /\ \A t \in Threads : pc[t] = "call" => engine[t] # NULL
      /\ \A i \in DOMAIN db_conn_pool : db_conn_pool[i] # NULL
  BY DEF EInv, EnoughConns, NoNulls
<1>2. ASSUME NEW t \in Threads, pc[t] # "call" PROVE db_conn_pool # <<>>
  BY <1>2, FewerConns DEF IInv, OnlyInCall
<1>3. CASE UNCHANGED vars
  BY <1>3, <1>1 DEF vars
<1>4. ASSUME NEW t \in Threads, SizeFound(t), UNCHANGED crashed
      PROVE  /\ ~crashed'
             /\ \A u \in Threads : pc'[u] = "call" => engine'[u] # NULL
             /\ \A i \in DOMAIN db_conn_pool' : db_conn_pool'[i] # NULL
  BY <1>4, <1>1 DEF SizeFound, IInv, TypeOK
<1>5. ASSUME NEW t \in Threads, SizeZero(t) \/ PopEmpty(t) PROVE FALSE
  BY <1>5, <1>2 DEF SizeZero, PopEmpty
<1>6. ASSUME NEW t \in Threads, Pop(t), UNCHANGED crashed
      PROVE  /\ ~crashed'
             /\ \A u \in Threads : pc'[u] = "call" => engine'[u] # NULL
             /\ \A i \in DOMAIN db_conn_pool' : db_conn_pool'[i] # NULL
  <2> DEFINE s == db_conn_pool
  <2>1. s \in Seq(Conns \cup {NULL}) /\ s # <<>>
    BY <1>6 DEF Pop, IInv, TypeOK
  <2>2. /\ Tail(s) \in Seq(Conns \cup {NULL})
        /\ Len(Tail(s)) = Len(s) - 1
        /\ Len(s) \in Nat /\ Len(s) > 0
        /\ \A i \in 1 .. Len(s) - 1 : Tail(s)[i] = s[i + 1]
        /\ Head(s) = s[1]
    BY <2>1, WithoutFirst
  <2>3. DOMAIN s = 1 .. Len(s) /\ DOMAIN Tail(s) = 1 .. Len(s) - 1
    BY <2>1, <2>2
  <2>4. Head(s) # NULL
    BY <2>2, <2>3, <1>1
  <2>5. \A i \in DOMAIN Tail(s) : Tail(s)[i] # NULL
    BY <2>2, <2>3, <1>1
  <2> QED
    BY <1>6, <1>1, <2>4, <2>5 DEF Pop, Rest, IInv, TypeOK
<1>7. ASSUME NEW t \in Threads, Push(t), UNCHANGED crashed
      PROVE  /\ ~crashed'
             /\ \A u \in Threads : pc'[u] = "call" => engine'[u] # NULL
             /\ \A i \in DOMAIN db_conn_pool' : db_conn_pool'[i] # NULL
  <2> DEFINE s == db_conn_pool
             e == engine[t]
  <2>1. s \in Seq(Conns \cup {NULL}) /\ e \in Conns \cup {NULL} /\ e # NULL
    BY <1>7, <1>1 DEF Push, IInv, TypeOK
  <2>2. /\ s \o <<e>> \in Seq(Conns \cup {NULL})
        /\ Len(s \o <<e>>) = Len(s) + 1
        /\ \A i \in 1 .. Len(s) : (s \o <<e>>)[i] = s[i]
        /\ (s \o <<e>>)[Len(s) + 1] = e
        /\ Len(s) \in Nat
    BY <2>1, AtTheEnd
  <2>3. DOMAIN s = 1 .. Len(s) /\ DOMAIN (s \o <<e>>) = 1 .. Len(s) + 1
    BY <2>1, <2>2
  <2>4. \A i \in DOMAIN (s \o <<e>>) : (s \o <<e>>)[i] # NULL
    BY <2>1, <2>2, <2>3, <1>1
  <2> QED
    BY <1>7, <1>1, <2>4 DEF Push, Pushed, IInv, TypeOK
<1> QED
  BY <1>3, <1>4, <1>5, <1>6, <1>7 DEF Next

\* As many connections as threads are enough: no call is without one, and the
\* list is never popped empty, although its size is tested outside the lock
\* (AutoDBCommEngine, DBConnectionPop).
THEOREM Enough == Spec => []EnoughConns
<1>1. Init => EInv
  BY PoolAssumption DEF Init, EInv, EnoughConns, NoNulls
<1>2. EInv => EnoughConns
  BY DEF EInv
<1> QED
  BY <1>1, <1>2, NextEInv, AlwaysIInv, PTL DEF Spec

-----------------------------------------------------------------------------

Lent == {<<t, engine[t]>> : t \in {u \in Threads : engine[u] # NULL}}

\* A step lends a connection, takes it back, or changes nothing of what is lent.
LEMMA LendingNext ==
  ASSUME IInv, [Next]_vars
  PROVE  [Lending!Next]_Lent
<1>1. ASSUME NEW t \in Threads, Pop(t), Head(db_conn_pool) # NULL
      PROVE  Lending!Lend(t, Head(db_conn_pool)) /\ Head(db_conn_pool) \in Conns
  <2> DEFINE c == Head(db_conn_pool)
  <2>1. c \in Conns /\ Listed(c)
    BY <1>1, WithoutFirst DEF Pop, IInv, TypeOK, Listed
  <2>2. engine[t] = NULL /\ engine' = [engine EXCEPT ![t] = c]
    BY <1>1 DEF Pop, IInv, OnlyInCall
  <2>3. \A u \in Threads : engine[u] # c
    BY <2>1, PoolAssumption DEF IInv, ConnsKept
  <2>4. \A p \in Lent : p[1] # t /\ p[2] # c
    BY <2>2, <2>3 DEF Lent
  <2>5. Lent' = Lent \cup {<<t, c>>}
    BY <2>1, <2>2, PoolAssumption DEF Lent, IInv, TypeOK
  <2> QED
    BY <2>1, <2>4, <2>5 DEF Lending!Lend, Lent
<1>2. ASSUME NEW t \in Threads, Pop(t), Head(db_conn_pool) = NULL
      PROVE  UNCHANGED Lent
  BY <1>2 DEF Pop, Lent, IInv, TypeOK, OnlyInCall
<1>3. ASSUME NEW t \in Threads, Push(t), engine[t] # NULL
      PROVE  Lending!GiveBack(t, engine[t]) /\ engine[t] \in Conns
  <2>1. engine[t] \in Conns /\ engine' = [engine EXCEPT ![t] = NULL]
    BY <1>3 DEF Push, IInv, TypeOK
  <2>2. <<t, engine[t]>> \in Lent
    BY <1>3 DEF Lent
  <2>3. Lent' = Lent \ {<<t, engine[t]>>}
    BY <2>1, <1>3 DEF Lent, IInv, TypeOK
  <2> QED
    BY <2>1, <2>2, <2>3 DEF Lending!GiveBack, Lent
<1>4. ASSUME NEW t \in Threads, Push(t), engine[t] = NULL
      PROVE  UNCHANGED Lent
  BY <1>4 DEF Push, Lent, IInv, TypeOK
<1>5. ASSUME NEW t \in Threads, SizeFound(t) \/ SizeZero(t) \/ PopEmpty(t)
      PROVE  UNCHANGED Lent
  BY <1>5 DEF SizeFound, SizeZero, PopEmpty, NoEngine, Lent, IInv, TypeOK,
              OnlyInCall
<1>6. CASE UNCHANGED vars
  BY <1>6 DEF vars, Lent
<1>7. ASSUME NEW t \in Threads, Pop(t) PROVE [Lending!Next]_Lent
  <2>1. CASE Head(db_conn_pool) # NULL
    <3> DEFINE c == Head(db_conn_pool)
    <3>1. c \in Conns /\ Lending!Lend(t, c)
      BY <1>1, <1>7, <2>1
    <3> HIDE DEF c
    <3>2. Lending!Next
      BY <3>1 DEF Lending!Next, Lending!Lend, Lending!GiveBack
    <3> QED
      BY <3>2
  <2>2. CASE Head(db_conn_pool) = NULL
    BY <1>2, <1>7, <2>2
  <2> QED
    BY <2>1, <2>2
<1>8. ASSUME NEW t \in Threads, Push(t) PROVE [Lending!Next]_Lent
  <2>1. CASE engine[t] # NULL
    <3>1. engine[t] \in Conns /\ Lending!GiveBack(t, engine[t])
      BY <1>3, <1>8, <2>1
    <3>2. Lending!Next
      BY <3>1 DEF Lending!Next, Lending!Lend, Lending!GiveBack
    <3> QED
      BY <3>2
  <2>2. CASE engine[t] = NULL
    BY <1>4, <1>8, <2>2
  <2> QED
    BY <2>1, <2>2
<1> QED
  BY <1>5, <1>6, <1>7, <1>8 DEF Next

\* The list of connections implements the abstract allocator
\* (DBConnectionPop, DBConnectionPush).
THEOREM Lends == Spec => PoolLends
<1>1. Init => Lending!Init
  BY DEF Init, Lending!Init
<1>2. IInv /\ [Next]_vars => [Lending!Next]_Lent
  BY LendingNext
<1> QED
  BY <1>1, <1>2, AlwaysIInv, PTL DEF Spec, PoolLends, Lending!Spec, Lent

-----------------------------------------------------------------------------
(* NULLs on the list *)

NullsIn(s) == {i \in DOMAIN s : s[i] = NULL}

NullCalls == {t \in Threads : pc[t] = "call" /\ engine[t] = NULL}

\* A list has finitely many NULLs; one more at its end, one less without it.
LEMMA NullsFinite ==
  ASSUME NEW s \in Seq(Conns \cup {NULL})
  PROVE  IsFiniteSet(NullsIn(s)) /\ Cardinality(NullsIn(s)) \in Nat
<1>1. NullsIn(s) \in SUBSET (1 .. Len(s)) /\ Len(s) \in Nat
  BY DEF NullsIn
<1>2. IsFiniteSet(1 .. Len(s))
  BY <1>1, FS_Interval
<1>3. IsFiniteSet(NullsIn(s))
  BY <1>1, <1>2, FS_Subset
<1> QED
  BY <1>3, FS_CardinalityType

\* An engine that is pushed is the list's last: one NULL more if it is NULL.
LEMMA NullsPushed ==
  ASSUME NEW s \in Seq(Conns \cup {NULL}), NEW e \in Conns \cup {NULL}
  PROVE  Cardinality(NullsIn(s \o <<e>>)) =
           Cardinality(NullsIn(s)) + IF e = NULL THEN 1 ELSE 0
<1>1. /\ Len(s \o <<e>>) = Len(s) + 1 /\ Len(s) \in Nat
      /\ \A i \in 1 .. Len(s) : (s \o <<e>>)[i] = s[i]
      /\ (s \o <<e>>)[Len(s) + 1] = e
  BY AtTheEnd
<1>2. DOMAIN s = 1 .. Len(s) /\ DOMAIN (s \o <<e>>) = 1 .. Len(s) + 1
  BY <1>1
<1>3. NullsIn(s \o <<e>>) = IF e = NULL THEN NullsIn(s) \cup {Len(s) + 1} ELSE NullsIn(s)
  BY <1>1, <1>2 DEF NullsIn
<1>4. Len(s) + 1 \notin NullsIn(s)
  BY <1>1, <1>2 DEF NullsIn
<1> QED
  BY <1>3, <1>4, NullsFinite, FS_AddElement

\* An engine that is popped was the list's first: one NULL less if it is NULL.
LEMMA NullsPopped ==
  ASSUME NEW s \in Seq(Conns \cup {NULL}), s # <<>>
  PROVE  Cardinality(NullsIn(Tail(s))) =
           Cardinality(NullsIn(s)) - IF Head(s) = NULL THEN 1 ELSE 0
<1> DEFINE A == NullsIn(Tail(s))
           B == NullsIn(s) \ {1}
           f == [i \in A |-> i + 1]
<1>1. /\ Tail(s) \in Seq(Conns \cup {NULL}) /\ Len(Tail(s)) = Len(s) - 1
      /\ Len(s) \in Nat /\ Len(s) > 0 /\ Head(s) = s[1]
      /\ \A i \in 1 .. Len(s) - 1 : Tail(s)[i] = s[i + 1]
  BY WithoutFirst
<1>2. DOMAIN s = 1 .. Len(s) /\ DOMAIN Tail(s) = 1 .. Len(s) - 1
  BY <1>1
<1>3. \A i \in A : i \in 1 .. Len(s) - 1 /\ i + 1 \in B
  BY <1>1, <1>2 DEF NullsIn
<1>4. ASSUME NEW j \in B PROVE \E i \in A : j = i + 1
  <2>1. j \in 2 .. Len(s) /\ s[j] = NULL
    BY <1>1, <1>2 DEF NullsIn
  <2>2. j - 1 \in A /\ j = (j - 1) + 1
    BY <1>1, <1>2, <2>1 DEF NullsIn
  <2> QED
    BY <2>2
<1>5. f \in Bijection(A, B)
  <2>1. f \in Injection(A, B)
    BY <1>3 DEF Injection, IsInjective
  <2>2. f \in Surjection(A, B)
    BY <1>3, <1>4 DEF Surjection
  <2> QED
    BY <2>1, <2>2 DEF Bijection
<1>6. ExistsBijection(A, B)
  BY <1>5 DEF ExistsBijection
<1>7. Cardinality(B) = Cardinality(A)
  BY <1>1, <1>6, NullsFinite, FS_Bijection
<1>8. Cardinality(B) = IF 1 \in NullsIn(s) THEN Cardinality(NullsIn(s)) - 1
                       ELSE Cardinality(NullsIn(s))
  BY NullsFinite, FS_RemoveElement
<1>9. 1 \in NullsIn(s) <=> Head(s) = NULL
  BY <1>1, <1>2 DEF NullsIn
<1> HIDE DEF A, B
<1> QED
  BY <1>7, <1>8, <1>9, NullsFinite DEF A

\* While the list is empty every connection is with a thread in a call, every
\* NULL with another one.
LEMMA ConnsAndNulls ==
  ASSUME IInv, db_conn_pool = <<>>, NEW t \in Threads, pc[t] # "call"
  PROVE  Cardinality(Conns) + Cardinality(NullCalls) < Cardinality(Threads)
<1> DEFINE f == [c \in Conns |-> CHOOSE u \in Threads : engine[u] = c]
           W == Threads \ {t}
           R == W \ NullCalls
<1>1. \A c \in Conns : \E u \in Threads : engine[u] = c
  BY DEF IInv, ConnsKept, Listed
<1>2. \A c \in Conns : f[c] \in Threads /\ engine[f[c]] = c
  BY <1>1
<1>3. engine[t] = NULL
  BY DEF IInv, OnlyInCall
<1>4. \A c \in Conns : f[c] \in R
  BY <1>2, <1>3, PoolAssumption DEF NullCalls
<1>5. f \in Injection(Conns, R)
  BY <1>2, <1>4 DEF Injection, IsInjective
<1>6. IsFiniteSet(W) /\ Cardinality(W) = Cardinality(Threads) - 1
  BY FS_RemoveElement, PoolAssumption
<1>7. NullCalls \subseteq W
  BY DEF NullCalls
<1>8. /\ IsFiniteSet(R) /\ IsFiniteSet(NullCalls)
      /\ Cardinality(R) \in Nat /\ Cardinality(NullCalls) \in Nat
  BY <1>6, <1>7, FS_Subset, FS_CardinalityType
<1>9. R \cup NullCalls = W /\ R \cap NullCalls = {}
  BY <1>7
<1>10. Cardinality(R \cap NullCalls) = 0
  BY <1>9, FS_EmptySet
<1>11. Cardinality(R \cup NullCalls) =
          Cardinality(R) + Cardinality(NullCalls) - Cardinality(R \cap NullCalls)
  BY <1>8, FS_Union
<1>12. Cardinality(Conns) <= Cardinality(R)
  BY <1>5, <1>8, FS_Injection
<1>13. Cardinality(Conns) \in Nat /\ Cardinality(Threads) \in Nat
  BY FS_CardinalityType, PoolAssumption
<1> HIDE DEF R, W
<1>14. Cardinality(W) = Cardinality(R \cup NullCalls)
  BY <1>9, Zenon
<1> QED
  BY <1>6, <1>8, <1>10, <1>11, <1>12, <1>13, <1>14

\* A pop or a push takes a NULL from the list to a call or back; only a call
\* that finds the list empty adds one.
LEMMA NextNulls == IInv /\ NullsBounded /\ [Next]_vars => NullsBounded'
<1> SUFFICES ASSUME IInv, NullsBounded, [Next]_vars PROVE NullsBounded'
  OBVIOUS
<1> DEFINE s == db_conn_pool
           OnList == Cardinality(NullsIn(s))
           InCalls == Cardinality(NullCalls)
           Bound == IF Cardinality(Conns) <= Cardinality(Threads)
                    THEN Cardinality(Threads) - Cardinality(Conns) ELSE 0
<1>1. s \in Seq(Conns \cup {NULL}) /\ OnList + InCalls <= Bound
  BY DEF IInv, TypeOK, NullsBounded, Nulls, NullsIn, NullCalls
<1>2. SUFFICES Cardinality(NullsIn(s')) + Cardinality(NullCalls') <= Bound
  BY DEF NullsBounded, Nulls, NullsIn, NullCalls
<1>3. IsFiniteSet(NullCalls) /\ InCalls \in Nat
  <2>1. NullCalls \in SUBSET Threads
    BY DEF NullCalls
  <2> QED
    BY <2>1, FS_Subset, FS_CardinalityType, PoolAssumption
<1>4. OnList \in Nat
  BY <1>1, NullsFinite
<1>5. Cardinality(Conns) \in Nat /\ Cardinality(Threads) \in Nat
  BY FS_CardinalityType, PoolAssumption
<1>6. CASE s' = s /\ NullCalls' = NullCalls
  BY <1>1, <1>6
<1>7. ASSUME NEW t \in Threads, SizeFound(t) PROVE s' = s /\ NullCalls' = NullCalls
  BY <1>7 DEF SizeFound, NullCalls, IInv, TypeOK
<1>8. ASSUME NEW t \in Threads, PopEmpty(t) PROVE s' = s /\ NullCalls' = NullCalls
  BY <1>8 DEF PopEmpty, NullCalls
<1>9. ASSUME NEW t \in Threads, SizeZero(t)
      PROVE  Cardinality(NullsIn(s')) + Cardinality(NullCalls') <= Bound
  <2>1. s = <<>> /\ pc[t] # "call" /\ s' = s
    BY <1>9 DEF SizeZero
  <2>2. NullCalls' = NullCalls \cup {t}
    BY <1>9 DEF SizeZero, NoEngine, NullCalls, IInv, TypeOK
  <2>3. Cardinality(NullCalls \cup {t}) = IF t \in NullCalls THEN InCalls ELSE InCalls + 1
    BY <1>3, FS_AddElement
  <2>4. Cardinality(Conns) + InCalls < Cardinality(Threads)
    BY <2>1, ConnsAndNulls
  <2>5. NullsIn(s) = {}
    BY <2>1 DEF NullsIn
  <2>6. OnList = 0
    BY <2>5, FS_EmptySet
  <2>7. Cardinality(NullCalls') = InCalls \/ Cardinality(NullCalls') = InCalls + 1
    BY <2>2, <2>3
  <2>8. Cardinality(NullsIn(s')) = 0
    BY <2>1, <2>6
  <2> HIDE DEF OnList, InCalls
  <2> QED
    BY <1>3, <1>5, <2>4, <2>7, <2>8
<1>10. ASSUME NEW t \in Threads, Pop(t)
       PROVE  Cardinality(NullsIn(s')) + Cardinality(NullCalls') <= Bound
  <2>1. s # <<>> /\ s' = Tail(s) /\ pc[t] # "call"
    BY <1>10 DEF Pop, Rest
  <2>2. Head(s) \in Conns \cup {NULL}
    BY <1>1, <2>1, WithoutFirst
  <2>3. NullCalls' = IF Head(s) = NULL THEN NullCalls \cup {t} ELSE NullCalls
    BY <1>10 DEF Pop, NullCalls, IInv, TypeOK
  <2>4. t \notin NullCalls
    BY <2>1 DEF NullCalls
  <2>5. Cardinality(NullCalls') = InCalls + IF Head(s) = NULL THEN 1 ELSE 0
    BY <1>3, <2>3, <2>4, FS_AddElement
  <2>6. Cardinality(NullsIn(s')) = OnList - IF Head(s) = NULL THEN 1 ELSE 0
    BY <1>1, <2>1, NullsPopped
  <2> HIDE DEF OnList, InCalls
  <2> QED
    BY <1>1, <1>3, <1>4, <1>5, <2>5, <2>6
<1>11. ASSUME NEW t \in Threads, Push(t)
       PROVE  Cardinality(NullsIn(s')) + Cardinality(NullCalls') <= Bound
  <2>1. s' = s \o <<engine[t]>> /\ pc[t] = "call" /\ engine[t] \in Conns \cup {NULL}
    BY <1>11 DEF Push, Pushed, IInv, TypeOK
  <2>2. NullCalls' = NullCalls \ {t}
    BY <1>11 DEF Push, NullCalls, IInv, TypeOK
  <2>3. t \in NullCalls <=> engine[t] = NULL
    BY <2>1 DEF NullCalls
  <2>4. Cardinality(NullCalls') = InCalls - IF engine[t] = NULL THEN 1 ELSE 0
    <3>1. Cardinality(NullCalls \ {t}) = IF t \in NullCalls THEN InCalls - 1 ELSE InCalls
      BY <1>3, FS_RemoveElement
    <3> QED
      BY <1>3, <2>2, <2>3, <3>1
  <2>5. Cardinality(NullsIn(s')) = OnList + IF engine[t] = NULL THEN 1 ELSE 0
    BY <1>1, <2>1, NullsPushed
  <2> HIDE DEF OnList, InCalls
  <2> QED
    BY <1>1, <1>3, <1>4, <1>5, <2>4, <2>5
<1>12. CASE UNCHANGED vars
  BY <1>6, <1>12 DEF vars, NullCalls
<1> QED
  BY <1>6, <1>7, <1>8, <1>9, <1>10, <1>11, <1>12 DEF Next

\* A new list has no NULL.
LEMMA InitNulls == Init => NullsBounded
<1> SUFFICES ASSUME Init PROVE NullsBounded
  OBVIOUS
<1>1. Cardinality(Conns) \in Nat /\ Cardinality(Threads) \in Nat
  BY FS_CardinalityType, PoolAssumption
<1>2. {i \in DOMAIN db_conn_pool : db_conn_pool[i] = NULL} = {}
  BY PoolAssumption DEF Init
<1>3. {t \in Threads : pc[t] = "call" /\ engine[t] = NULL} = {}
  BY DEF Init
<1>4. Nulls = 0
  BY <1>2, <1>3, FS_EmptySet DEF Nulls
<1> QED
  BY <1>1, <1>4 DEF NullsBounded

\* There are never more NULLs than threads beyond the connections, although
\* each of them takes its turn on the list (~AutoDBCommEngine pushes back what
\* its constructor popped).
THEOREM FewNulls == Spec => []NullsBounded
<1>1. (IInv /\ NullsBounded) /\ [Next]_vars => (IInv /\ NullsBounded)'
  BY NextIInv, NextNulls
<1>2. Init => IInv /\ NullsBounded
  BY InitIInv, InitNulls
<1> QED
  BY <1>1, <1>2, PTL DEF Spec

\* The list holds connections and NULLs only, and so do the threads
\* (DBConnectionPop, DBConnectionPush).
THEOREM TypeCorrect == Spec => []TypeOK
<1>1. IInv => TypeOK
  BY DEF IInv
<1> QED
  BY <1>1, AlwaysIInv, PTL
=============================================================================
