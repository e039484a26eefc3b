------------------------------- MODULE DBPool -------------------------------
(***************************************************************************)
(* The pool of database connections of the chat server (chat/db_comm.cc,   *)
(* db_comm.h; robot, usr_mgr, chat_mgr and the other plugins have copies). *)
(*                                                                         *)
(* Every storage call has an AutoDBCommEngine: its constructor pops an     *)
(* engine off the list and its destructor pushes it back. DBConnectionPop  *)
(* tests the size of the list before it takes the lock, so the steps of a  *)
(* thread are the test, the locked pop and the locked push; the call runs  *)
(* while the thread has its engine. A connection that broke is replaced    *)
(* inside its engine (GetDBEngine), which the list does not see.           *)
(***************************************************************************)
EXTENDS Integers, Sequences, FiniteSets

CONSTANTS Threads,   \* threads that make storage calls
          Conns,     \* the connections of DBComm::Init
          NULL       \* no engine

ASSUME PoolAssumption ==
    /\ IsFiniteSet(Threads) /\ IsFiniteSet(Conns)
    /\ NULL \notin Conns

VARIABLES
    db_conn_pool,   \* the list: connections, and the NULLs pushed back
    pc,             \* where each thread is: "idle", "found" or "call"
    engine,         \* engine_ of each thread's AutoDBCommEngine
    crashed         \* an empty std::list has been popped

vars == <<db_conn_pool, pc, engine, crashed>>

-----------------------------------------------------------------------------

\* The list as Init leaves it: each connection once, in any order.
Init ==
    /\ db_conn_pool \in {s \in [1 .. Cardinality(Conns) -> Conns] :
                            \A i, j \in DOMAIN s : s[i] = s[j] => i = j}
    /\ pc = [t \in Threads |-> "idle"]
    /\ engine = [t \in Threads |-> NULL]
    /\ crashed = FALSE

\* The size is not 0, and the lock is waited for.
SizeFound(t) ==
    /\ pc[t] = "idle"
    /\ db_conn_pool # <<>>
    /\ pc' = [pc EXCEPT ![t] = "found"]
    /\ UNCHANGED <<db_conn_pool, engine>>

\* Fault: engine_ is not initialised.
NoEngineFault == "uninitialised"

\* engine_ before the pop, and after one that found nothing.
NoEngine == NULL

\* The size is 0: the call runs without an engine, and fails.
SizeZero(t) ==
    /\ pc[t] = "idle"
    /\ db_conn_pool = <<>>
    /\ pc' = [pc EXCEPT ![t] = "call"]
    /\ engine' = [engine EXCEPT ![t] = NoEngine]
    /\ UNCHANGED db_conn_pool

\* Fault: the engine is copied and stays on the list.
RestFault == db_conn_pool

\* The list without its first engine.
Rest == Tail(db_conn_pool)

Pop(t) ==
    /\ pc[t] = "found"
    /\ db_conn_pool # <<>>
    /\ engine' = [engine EXCEPT ![t] = Head(db_conn_pool)]
    /\ db_conn_pool' = Rest
    /\ pc' = [pc EXCEPT ![t] = "call"]

\* Other threads took all that was there since the test: front() and
\* pop_front() of an empty list, which frees memory that was never allocated.
PopEmpty(t) ==
    /\ pc[t] = "found"
    /\ db_conn_pool = <<>>
    /\ crashed' = TRUE
    /\ UNCHANGED <<db_conn_pool, pc, engine>>

\* Fault: a call that failed pushes its engine twice.
PushedFault(t) ==
    IF engine[t] = NULL THEN <<NULL, NULL>> ELSE <<engine[t]>>

\* What the destructor adds to the list: the engine, or the NULL there was
\* instead of one.
Pushed(t) == <<engine[t]>>

Push(t) ==
    /\ pc[t] = "call"
    /\ db_conn_pool' = db_conn_pool \o Pushed(t)
    /\ engine' = [engine EXCEPT ![t] = NULL]
    /\ pc' = [pc EXCEPT ![t] = "idle"]

Next ==
    /\ ~crashed
    /\ \E t \in Threads :
          \/ /\ SizeFound(t) \/ SizeZero(t) \/ Pop(t) \/ Push(t)
             /\ UNCHANGED crashed
          \/ PopEmpty(t)

Spec == Init /\ [][Next]_vars

-----------------------------------------------------------------------------
(* Properties *)

TypeOK ==
    /\ db_conn_pool \in Seq(Conns \cup {NULL})
    /\ pc \in [Threads -> {"idle", "found", "call"}]
    /\ engine \in [Threads -> Conns \cup {NULL}]
    /\ crashed \in BOOLEAN

Listed(c) == \E i \in DOMAIN db_conn_pool : db_conn_pool[i] = c

\* No connection is lost or doubled: each is on the list, once, or with one
\* thread, whatever was pushed and popped meanwhile (DBConnectionPop,
\* DBConnectionPush).
ConnsKept ==
    /\ \A c \in Conns : Listed(c) \/ \E t \in Threads : engine[t] = c
    /\ \A i, j \in DOMAIN db_conn_pool :
          db_conn_pool[i] = db_conn_pool[j] /\ db_conn_pool[i] # NULL => i = j
    /\ \A t, u \in Threads :
          engine[t] # NULL => ~Listed(engine[t])
                              /\ (engine[t] = engine[u] => t = u)

Nulls ==
    Cardinality({i \in DOMAIN db_conn_pool : db_conn_pool[i] = NULL})
    + Cardinality({t \in Threads : pc[t] = "call" /\ engine[t] = NULL})

\* The NULLs on the list, each of which makes later calls fail while there are
\* connections behind it, are never more than the threads beyond the number of
\* connections: a call that finds the list empty adds one, and does so only
\* while every engine and every NULL is with another thread.
NullsBounded ==
    Nulls <= IF Cardinality(Conns) <= Cardinality(Threads)
             THEN Cardinality(Threads) - Cardinality(Conns) ELSE 0

\* With a connection for every thread no call is without one, and the list is
\* not popped empty, although its size is tested outside the lock.
EnoughConns ==
    Cardinality(Threads) <= Cardinality(Conns) =>
        /\ ~crashed
        /\ \A t \in Threads : pc[t] = "call" => engine[t] # NULL

\* The pool lends a connection to one thread at a time.
Lending == INSTANCE Allocator
               WITH lent <- {<<t, engine[t]>> :
                                t \in {u \in Threads : engine[u] # NULL}}
PoolLends == Lending!Spec
=============================================================================
