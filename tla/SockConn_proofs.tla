--------------------------- MODULE SockConn_proofs ---------------------------
(***************************************************************************)
(* Proofs about SockConn: the counts of the connections are right, nothing *)
(* is received for plugins that do not know the connection, and the        *)
(* plugins see the life of a connection that ConnLife promises.            *)
(*                                                                         *)
(* At any time at most one connection is in hand: it is being accepted, or *)
(* is on the scheduler's list, or is being received from, or is going. The *)
(* inductive invariant says what its count is at each position of the      *)
(* event loop, and that every other connection is at rest.                 *)
(***************************************************************************)
EXTENDS SockConn, TLAPS

Pcs == {"idle", "call_connection", "event_add", "schedule", "receive",
        "decref_1", "decref_2", "call_close", "destroy", "after",
        "after_freed", "crashed"}

\* Where the event loop has a connection in hand.
Busy == Pcs \ {"idle", "schedule", "after_freed", "crashed"}

InHand(fd) == (net.pc \in Busy /\ fd = net.fd) \/ rx_conns = <<fd>>

AtRest(fd) == refcount[fd] = 1 /\ fd \notin scheduled /\ fd \in told

Scheduled(fd) ==
    fd \in Conns /\ refcount[fd] = 2 /\ fd \in scheduled /\ fd \in told

KnownConns == told \subseteq Conns /\ registered \subseteq Conns

OthersRest ==
    ~At("crashed") => \A fd \in Conns : InHand(fd) \/ AtRest(fd)

OnList ==
    \/ rx_conns = <<>>
    \/ At("schedule") /\ \E fd \in Fds : rx_conns = <<fd>> /\ Scheduled(fd)

Position ==
    /\ net.pc \in Busy \cup {"after_freed"} => net.fd \in Fds
    /\ net.pc \in Busy => net.fd \in Conns
    /\ At("call_connection") =>
           refcount[net.fd] = 1 /\ net.fd \notin scheduled /\ net.fd \notin told
    /\ At("event_add") => AtRest(net.fd)
    /\ At("receive") \/ At("decref_1") \/ At("after") => Scheduled(net.fd)
    /\ At("decref_2") => refcount[net.fd] = 1 /\ net.fd \in told
    /\ At("call_close") => refcount[net.fd] = 0 /\ net.fd \in told
    /\ At("destroy") => refcount[net.fd] = 0 /\ net.fd \notin told
    /\ At("after_freed") => refcount[net.fd] = 0 /\ net.fd \notin Conns

NetType == net = [pc |-> net.pc, fd |-> net.fd, rc |-> net.rc] /\ net.pc \in Pcs

IInv == TypeOK /\ NetType /\ KnownConns /\ OthersRest /\ OnList /\ Position

-----------------------------------------------------------------------------

\* The invariant holds of the server before its first connection.
LEMMA InitIInv == Init => IInv
  BY SockAssumption
  DEF Init, IInv, TypeOK, NetType, KnownConns, OthersRest, OnList, Position,
      Conns, At, Pcs, Busy, InHand, AtRest, Scheduled

\* The peers and the other threads touch no connection's count or position.
LEMMA OutsideIInv ==
  ASSUME IInv, NEW fd \in Fds,
         Send(fd) \/ End(fd) \/ WorkerOpen(fd) \/ WorkerClose(fd)
  PROVE  IInv'
<1>1. CASE Send(fd)
  <2>1. TypeOK'
    BY <1>1, SockAssumption DEF Send, IInv, TypeOK, counts
  <2>2. UNCHANGED <<owner, refcount, scheduled, rx_conns, registered, told, net>>
    BY <1>1 DEF Send, counts
  <2>3. KnownConns' /\ OthersRest'
    BY <2>2 DEF IInv, KnownConns, OthersRest, Conns, At, InHand, AtRest
  <2>4. NetType' /\ OnList' /\ Position'
    BY <2>2
    DEF IInv, NetType, OnList, Position, Conns, At, AtRest, Scheduled
  <2> QED
    BY <2>1, <2>3, <2>4 DEF IInv
<1>2. CASE End(fd)
  BY <1>2
  DEF End, IInv, TypeOK, NetType, KnownConns, OthersRest, OnList, Position,
      Conns, At, Pcs, Busy, InHand, AtRest, Scheduled, counts
<1>3. CASE WorkerOpen(fd)
  BY <1>3
  DEF WorkerOpen, IInv, TypeOK, NetType, KnownConns, OthersRest, OnList,
      Position, Conns, At, Pcs, Busy, InHand, AtRest, Scheduled, counts, peer
<1>4. CASE WorkerClose(fd)
  BY <1>4
  DEF WorkerClose, IInv, TypeOK, NetType, KnownConns, OthersRest, OnList,
      Position, Conns, At, Pcs, Busy, InHand, AtRest, Scheduled, counts, peer
<1> QED
  BY <1>1, <1>2, <1>3, <1>4

\* server_accept puts a connection in hand and leaves it at rest.
LEMMA AcceptIInv ==
  ASSUME IInv,
         \/ \E fd \in Fds : Accept(fd)
         \/ CallConnection \/ EventAdd \/ EchoConnFails \/ EventAddFails
  PROVE  IInv'
<1>1. ASSUME NEW fd \in Fds, Accept(fd) PROVE IInv'
  <2>1. TypeOK'
    BY <1>1, SockAssumption DEF Accept, Goto, IInv, TypeOK, peer
  <2>2. NetType' /\ KnownConns' /\ OthersRest'
    BY <1>1
    DEF Accept, Goto, IInv, TypeOK, NetType, KnownConns, OthersRest, OnList,
        Conns, At, Pcs, Busy, InHand, AtRest
  <2>3. OnList' /\ Position'
    BY <1>1, SockAssumption
    DEF Accept, Goto, IInv, TypeOK, KnownConns, OthersRest, OnList, Position,
        Conns, At, Pcs, Busy, InHand, AtRest, Scheduled
  <2> QED
    BY <2>1, <2>2, <2>3 DEF IInv
<1>2. CASE CallConnection
  BY <1>2, SockAssumption
  DEF CallConnection, Goto, IInv, TypeOK, NetType, KnownConns, OthersRest,
      OnList, Position, Conns, At, Pcs, Busy, InHand, AtRest, Scheduled,
      counts, peer
<1>3. CASE EventAdd
  BY <1>3, SockAssumption
  DEF EventAdd, Goto, IInv, TypeOK, NetType, KnownConns, OthersRest, OnList,
      Position, Conns, At, Pcs, Busy, InHand, AtRest, Scheduled, counts, peer
<1>4. CASE EchoConnFails \/ EventAddFails
  BY <1>4, SockAssumption
  DEF EchoConnFails, EventAddFails, Crash, Goto, IInv, TypeOK, NetType, KnownConns, OthersRest, OnList,
      Position, Conns, At, Pcs, Busy, InHand, AtRest, Scheduled, counts, peer
<1> QED
  BY <1>1, <1>2, <1>3, <1>4

\* server_read_buffer schedules a connection at rest.
LEMMA ReadIInv ==
  ASSUME IInv, NEW fd \in Fds, ServerReadBuffer(fd)
  PROVE  IInv'
<1>1. fd \in Conns /\ AtRest(fd) /\ rx_conns = <<>> /\ net.pc = "idle"
  BY DEF ServerReadBuffer, IInv, KnownConns, OthersRest, OnList, InHand, At,
         Busy, Pcs
<1>2. rx_conns' = <<fd>> /\ fd \notin scheduled
  BY <1>1 DEF ServerReadBuffer, AtRest
<1> QED
  BY <1>1, <1>2, SockAssumption
  DEF ServerReadBuffer, Goto, IInv, TypeOK, NetType, KnownConns, OthersRest,
      OnList, Position, Conns, At, Pcs, Busy, InHand, AtRest, Scheduled, peer

\* sockbase_schedule takes the connection on the list, or leaves.
LEMMA TakeIInv == ASSUME IInv, Take \/ Leave PROVE IInv'
<1>1. CASE Take
  <2>1. PICK fd \in Fds : rx_conns = <<fd>> /\ Scheduled(fd)
    BY <1>1 DEF Take, IInv, OnList
  <2>2. Head(rx_conns) = fd /\ rx_conns' = <<>>
    BY <2>1, <1>1 DEF Take
  <2> QED
    BY <1>1, <2>1, <2>2, SockAssumption
    DEF Take, Goto, IInv, TypeOK, NetType, KnownConns, OthersRest, OnList,
        Position, Conns, At, Pcs, Busy, InHand, AtRest, Scheduled, peer
<1>2. CASE Leave
  BY <1>2, SockAssumption
  DEF Leave, Goto, IInv, TypeOK, NetType, KnownConns, OthersRest, OnList,
      Position, Conns, At, Pcs, Busy, InHand, AtRest, Scheduled, counts, peer
<1> QED
  BY <1>1, <1>2

\* sockbase_process_receive keeps the connection scheduled until its end.
LEMMA ReceiveIInv == ASSUME IInv, Receive \/ Drained \/ EndOfStream PROVE IInv'
<1>1. CASE Receive
  BY <1>1, SockAssumption
  DEF Receive, Goto, IInv, TypeOK, NetType, KnownConns, OthersRest, OnList,
      Position, Conns, At, Pcs, Busy, InHand, AtRest, Scheduled, counts
<1>2. CASE Drained
  BY <1>2, SockAssumption
  DEF Drained, Goto, IInv, TypeOK, NetType, KnownConns, OthersRest, OnList,
      Position, Conns, At, Pcs, Busy, InHand, AtRest, Scheduled, counts, peer
<1>3. CASE EndOfStream
  BY <1>3, SockAssumption
  DEF EndOfStream, Goto, IInv, TypeOK, NetType, KnownConns, OthersRest, OnList,
      Position, Conns, At, Pcs, Busy, InHand, AtRest, Scheduled, counts, peer
<1> QED
  BY <1>1, <1>2, <1>3

\* The end of a stream drops exactly the two references there are.
LEMMA EndIInv ==
  ASSUME IInv,
         DecrefFirst \/ DecrefSecond \/ CallConnectionClose \/ Destroy
  PROVE  IInv'
<1>1. CASE DecrefFirst
  BY <1>1, SockAssumption
  DEF DecrefFirst, Decref, LastRef, Goto, IInv, TypeOK, NetType, KnownConns,
      OthersRest, OnList, Position, Conns, At, Pcs, Busy, InHand, AtRest,
      Scheduled, peer
<1>2. CASE DecrefSecond
  BY <1>2, SockAssumption
  DEF DecrefSecond, Decref, LastRef, Goto, IInv, TypeOK, NetType, KnownConns,
      OthersRest, OnList, Position, Conns, At, Pcs, Busy, InHand, AtRest,
      Scheduled, peer
<1>3. CASE CallConnectionClose
  BY <1>3, SockAssumption
  DEF CallConnectionClose, Goto, IInv, TypeOK, NetType, KnownConns, OthersRest,
      OnList, Position, Conns, At, Pcs, Busy, InHand, AtRest, Scheduled,
      counts, peer
<1>4. CASE Destroy
  BY <1>4, SockAssumption
  DEF Destroy, Goto, IInv, TypeOK, NetType, KnownConns, OthersRest, OnList,
      Position, Conns, At, Pcs, Busy, InHand, AtRest, Scheduled, counts
<1> QED
  BY <1>1, <1>2, <1>3, <1>4

\* The rest of the loop's body drops the scheduler's reference only if it does
\* not put the connection back on the list.
LEMMA AfterIInv == ASSUME IInv, After \/ AfterFreed PROVE IInv'
<1>1. ASSUME After, net.rc = "done" PROVE IInv'
  <2>1. rx_conns = <<>> /\ rx_conns' = <<net.fd>>
    BY <1>1 DEF After, IInv, OnList, At
  <2> QED
    BY <1>1, <2>1, SockAssumption
    DEF After, Goto, IInv, TypeOK, NetType, KnownConns, OthersRest, OnList,
        Position, Conns, At, Pcs, Busy, InHand, AtRest, Scheduled, peer
<1>2. ASSUME After, net.rc # "done" PROVE IInv'
  <2>1. net.pc = "after" /\ net.fd \in Fds /\ Scheduled(net.fd)
    BY <1>2 DEF After, IInv, Position, Scheduled, Conns, At
  <2>2. /\ refcount' = [refcount EXCEPT ![net.fd] = 1]
        /\ net' = [pc |-> "schedule", fd |-> net.fd, rc |-> net.rc]
        /\ scheduled' = scheduled \ {net.fd}
        /\ rx_conns = <<>>
        /\ UNCHANGED <<owner, rx_ready, rx_conns, registered, peer, told>>
    BY <1>2, <2>1
    DEF After, Unscheduled, Goto, IInv, TypeOK, OnList, Scheduled, At, LastRef
  <2>3. TypeOK'
    BY <2>1, <2>2 DEF IInv, TypeOK, peer
  <2> QED
    BY <2>1, <2>2, <2>3
    DEF IInv, TypeOK, NetType, KnownConns, OthersRest, OnList, Position,
        Conns, At, Pcs, Busy, InHand, AtRest, Scheduled
<1>3. CASE AfterFreed
  BY <1>3, SockAssumption
  DEF AfterFreed, Unscheduled, Goto, IInv, TypeOK, NetType, KnownConns, OthersRest, OnList,
      Position, Conns, At, Pcs, Busy, InHand, AtRest, Scheduled, peer
<1> QED
  BY <1>1, <1>2, <1>3

\* Every step of the server keeps the invariant.
LEMMA NextIInv == IInv /\ [Next]_vars => IInv'
<1> SUFFICES ASSUME IInv, [Next]_vars PROVE IInv'
  OBVIOUS
<1>1. CASE Next
  BY <1>1, OutsideIInv, AcceptIInv, ReadIInv, TakeIInv, ReceiveIInv, EndIInv,
     AfterIInv
  DEF Next, Loop, PeerSends
<1>2. CASE UNCHANGED vars
  BY <1>2
  DEF vars, counts, peer, IInv, TypeOK, NetType, KnownConns, OthersRest,
      OnList, Position, Conns, At, InHand, AtRest, Scheduled
<1> QED
  BY <1>1, <1>2

\* The inductive invariant holds throughout.
LEMMA AlwaysIInv == Spec => []IInv
  BY InitIInv, NextIInv, PTL DEF Spec

-----------------------------------------------------------------------------

\* The counts stay between those of a freed connection and of a scheduled one,
\* and the list holds connections (sock_conn_addref, sock_conn_decref).
THEOREM SockTypes == Spec => []TypeOK
<1>1. IInv => TypeOK
  BY DEF IInv
<1> QED
  BY <1>1, AlwaysIInv, PTL

\* Between two events every connection holds one reference and is not
\* scheduled (server_read_buffer, sockbase_schedule).
THEOREM CountsRight == Spec => []CountRight
<1>1. IInv => CountRight
  BY DEF IInv, CountRight, OnList, OthersRest, InHand, AtRest, At, Busy, Pcs
<1> QED
  BY <1>1, AlwaysIInv, PTL

\* What is received goes to plugins that know the connection
\* (server_accept, sockbase_process_receive).
THEOREM ReadsAreTold == Spec => []ReadIsTold
<1>1. IInv => ReadIsTold
  BY DEF IInv, ReadIsTold, Position, Scheduled, At, Conns
<1> QED
  BY <1>1, AlwaysIInv, PTL

-----------------------------------------------------------------------------

\* The initial states of the server are those of the abstract connection.
LEMMA LifeInit == Init => Life!Init
  BY DEF Init, Life!Init, Conns

Over == {fd \in Conns \ told : refcount[fd] = 0}

\* Every step is a step of the abstract connection or changes nothing of it.
LEMMA LifeNext ==
  ASSUME IInv, [Next]_vars
  PROVE  [Life!Next]_<<Conns, told, Over>>
<1> USE DEF Life!Next, Life!Open, Life!Tell, Life!TellEnd, Life!Close, Over
<1>1. ASSUME NEW fd \in Fds, Accept(fd) PROVE Life!Open(fd)
  BY <1>1 DEF Accept, Goto, IInv, TypeOK, Conns, KnownConns
<1>2. ASSUME CallConnection PROVE Life!Tell(net.fd) /\ net.fd \in Fds
  BY <1>2 DEF CallConnection, Goto, IInv, TypeOK, Conns, Position, At, Busy,
              Pcs, counts
<1>3. ASSUME CallConnectionClose PROVE Life!TellEnd(net.fd) /\ net.fd \in Fds
  BY <1>3 DEF CallConnectionClose, Goto, IInv, TypeOK, Conns, Position, At,
              Busy, Pcs, counts
<1>4. ASSUME Destroy PROVE Life!Close(net.fd) /\ net.fd \in Fds
  BY <1>4 DEF Destroy, Goto, IInv, TypeOK, Conns, Position, At, Busy, Pcs,
              counts
<1>5. ASSUME NEW fd \in Fds, WorkerOpen(fd) \/ WorkerClose(fd)
      PROVE  UNCHANGED <<Conns, told, Over>>
  BY <1>5 DEF WorkerOpen, WorkerClose, IInv, TypeOK, Conns, counts
<1>6. ASSUME NEW fd \in Fds, ServerReadBuffer(fd)
      PROVE  UNCHANGED <<Conns, told, Over>>
  <2>1. fd \in told
    BY <1>6 DEF ServerReadBuffer, IInv, KnownConns, OthersRest, OnList, InHand,
                AtRest, At, Busy, Pcs
  <2> QED
    BY <1>6, <2>1 DEF ServerReadBuffer, IInv, TypeOK, Conns
<1>7. ASSUME DecrefFirst \/ DecrefSecond \/ After \/ AfterFreed
      PROVE  UNCHANGED <<Conns, told, Over>>
  BY <1>7 DEF DecrefFirst, DecrefSecond, Decref, After, AfterFreed, Unscheduled, IInv,
              TypeOK, Conns, Position, Scheduled, At
<1>8. ASSUME \/ \E fd \in Fds : Send(fd) \/ End(fd)
             \/ EventAdd \/ EchoConnFails \/ EventAddFails
             \/ Take \/ Leave \/ Receive \/ Drained \/ EndOfStream
             \/ UNCHANGED vars
      PROVE  UNCHANGED <<Conns, told, Over>>
  BY <1>8 DEF Send, End, EventAdd, EchoConnFails, EventAddFails, Crash, Take, Leave, Receive, Drained,
              EndOfStream, vars, counts, Conns
<1>9. CASE \E fd \in Fds : Accept(fd)
  BY <1>9, <1>1
<1>10. CASE CallConnection \/ CallConnectionClose \/ Destroy
  BY <1>10, <1>2, <1>3, <1>4
<1>11. CASE UNCHANGED <<Conns, told, Over>>
  BY <1>11
<1> HIDE DEF Life!Next, Over
<1> QED
  BY <1>5, <1>6, <1>7, <1>8, <1>9, <1>10, <1>11
  DEF Next, Loop, PeerSends

\* The plugins see the life that ConnLife promises: told once of a connection
\* and once of its end, its descriptor open in between (server_accept,
\* sock_conn_decref, destroy_sock_conn).
THEOREM ImplementsLife == Spec => PluginsSeeLife
<1>1. IInv /\ [Next]_vars => [Life!Next]_<<Conns, told, Over>>
  BY LifeNext
<1> QED
  BY <1>1, AlwaysIInv, LifeInit, PTL
  DEF Spec, PluginsSeeLife, Life!Spec, Life!vars, Over

\* What ConnLife promises keeps the descriptors that the plugins hold open: the
\* abstract connection closes none before it has told its end.
LEMMA LifeToldIsOpen == Life!Spec => []Life!ToldIsOpen
<1>1. Life!Init => Life!ToldIsOpen
  BY DEF Life!Init, Life!ToldIsOpen
<1>2. Life!ToldIsOpen /\ [Life!Next]_Life!vars => Life!ToldIsOpen'
  BY DEF Life!ToldIsOpen, Life!Next, Life!vars, Life!Open, Life!Tell, Life!TellEnd, Life!Close
<1> QED
  BY <1>1, <1>2, PTL DEF Life!Spec

\* A descriptor the plugins hold is that of an open connection: sock_conn_decref
\* tells them of the end (plugins_call_connection_close) before it closes it.
THEOREM LifeKeepsTold == Spec => []Life!ToldIsOpen
  BY ImplementsLife, LifeToldIsOpen, PTL DEF PluginsSeeLife
=============================================================================
