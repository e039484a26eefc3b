------------------------------ MODULE SockConn ------------------------------
(***************************************************************************)
(* Life of the accepted connections (chat/core/network.c, the same file in *)
(* robot/core): server_accept creates a connection and tells the plugins   *)
(* of it; an event puts it on the scheduler's list with a reference;       *)
(* sockbase_schedule receives from it; its end drops the references, which *)
(* tells the plugins, closes the descriptor and frees the memory.          *)
(*                                                                         *)
(* All of it runs in the event loop's thread, whose position is `net`; the *)
(* steps are cut where another thread, the peer or a plugin may see a      *)
(* difference. The other threads open and close descriptors of their own   *)
(* (database, cache and web clients). What a received packet does is in    *)
(* EchoReceive.                                                            *)
(*                                                                         *)
(* An accept that fails before create_sock_conn has made a connection      *)
(* closes its socket and leaves nothing, and has no action; a later one    *)
(* ends the process (Crash). Every connection is of type ACCEPT,           *)
(* and every plugin answers HANDLER_GO_ON. The memory of a freed           *)
(* connection is not handed out again before sockbase_schedule looks at it *)
(* a last time: the look is harmless or kills the process.                 *)
(***************************************************************************)
EXTENDS Integers, Sequences

CONSTANTS Fds,        \* descriptors
          NoFd,       \* no descriptor
          MaxUnread   \* bound: pieces sent on a connection and not yet received

ASSUME SockAssumption == NoFd \notin Fds /\ MaxUnread \in Nat

VARIABLES
    owner,       \* what each descriptor is: "free", "conn" or a "worker"'s
    refcount,    \* psc_refcount
    rx_ready,    \* connections with psc_rx_ready
    scheduled,   \* connections with psc_rx_scheduled
    rx_conns,    \* pss_rx_conns
    registered,  \* connections whose event is added
    unread,      \* pieces the peer has sent and recv() has not returned
    ended,       \* connections the peer has closed or broken
    told,        \* connections the plugins know of
    net          \* [pc, fd, rc]: where the event loop is, on which
                 \* connection, and what sockbase_process_receive returns

counts == <<refcount, rx_ready, scheduled, rx_conns>>
peer   == <<unread, ended>>
vars   == <<owner, counts, registered, peer, told, net>>

Conns == {fd \in Fds : owner[fd] = "conn"}

Goto(pc, fd, rc) == net' = [pc |-> pc, fd |-> fd, rc |-> rc]
At(pc) == net.pc = pc

-----------------------------------------------------------------------------
(* The peers and the other threads *)

Send(fd) ==
    /\ fd \in Conns \ ended
    /\ unread[fd] < MaxUnread
    /\ unread' = [unread EXCEPT ![fd] = @ + 1]
    /\ UNCHANGED <<owner, counts, registered, ended, told, net>>

End(fd) ==
    /\ fd \in Conns \ ended
    /\ ended' = ended \cup {fd}
    /\ UNCHANGED <<owner, counts, registered, unread, told, net>>

WorkerOpen(fd) ==
    /\ owner[fd] = "free"
    /\ owner' = [owner EXCEPT ![fd] = "worker"]
    /\ UNCHANGED <<counts, registered, peer, told, net>>

WorkerClose(fd) ==
    /\ owner[fd] = "worker"
    /\ owner' = [owner EXCEPT ![fd] = "free"]
    /\ UNCHANGED <<counts, registered, peer, told, net>>

-----------------------------------------------------------------------------
(* server_accept *)

\* accept() and create_sock_conn, which clears the new connection.
Accept(fd) ==
    /\ At("idle")
    /\ owner[fd] = "free"
    /\ owner' = [owner EXCEPT ![fd] = "conn"]
    /\ refcount' = [refcount EXCEPT ![fd] = 1]
    /\ rx_ready' = rx_ready \ {fd}
    /\ scheduled' = scheduled \ {fd}
    /\ Goto("call_connection", fd, "none")
    /\ UNCHANGED <<rx_conns, registered, peer, told>>

\* Fault: the plugins are told once the event is added.
CallConnectionFault ==
    /\ At("call_connection")
    /\ Goto("event_add", net.fd, "none")
    /\ UNCHANGED <<owner, counts, registered, peer, told>>

CallConnection ==
    /\ At("call_connection")
    /\ told' = told \cup {net.fd}
    /\ Goto("event_add", net.fd, "none")
    /\ UNCHANGED <<owner, counts, registered, peer>>

EventAdd ==
    /\ At("event_add")
    /\ registered' = registered \cup {net.fd}
    /\ Goto("idle", NoFd, "none")
    /\ UNCHANGED <<owner, counts, peer, told>>

\* Both error paths below delete an adapter whose list node was never linked.
\* Its two pointers are zero in new memory and list_del's poison in memory of an
\* earlier adapter: to follow them ends the process. Memory that held something
\* else, with which anything could happen, is left out.
Crash ==
    /\ Goto("crashed", NoFd, "none")
    /\ UNCHANGED <<owner, counts, registered, peer, told>>

\* echo_conn_alloc or echo_post_recv fails, before the plugins are called.
\* destroy_sock_conn is given conn->conn, which is not set yet: it is zero as
\* well, or an earlier connection with an adapter that has been deleted.
EchoConnFails == At("call_connection") /\ Crash

\* event_add fails, after the plugins were told of a connection whose end they
\* would never hear of. The adapter would be freed and the socket closed twice.
EventAddFails == At("event_add") /\ Crash

-----------------------------------------------------------------------------
(* server_read_buffer *)

Readable(fd) == unread[fd] > 0 \/ fd \in ended

ServerReadBuffer(fd) ==
    /\ At("idle")
    /\ fd \in registered /\ Readable(fd)
    /\ rx_ready' = rx_ready \cup {fd}
    /\ IF fd \in scheduled
       THEN UNCHANGED <<rx_conns, scheduled, refcount>>
       ELSE /\ rx_conns' = Append(rx_conns, fd)
            /\ scheduled' = scheduled \cup {fd}
            /\ refcount' = [refcount EXCEPT ![fd] = @ + 1]
    /\ Goto("schedule", NoFd, "none")
    /\ UNCHANGED <<owner, registered, peer, told>>

-----------------------------------------------------------------------------
(* sockbase_schedule and sockbase_process_receive *)

Take ==
    /\ At("schedule")
    /\ rx_conns # <<>>
    /\ rx_conns' = Tail(rx_conns)
    /\ rx_ready' = rx_ready \ {Head(rx_conns)}
    /\ Goto("receive", Head(rx_conns), "none")
    /\ UNCHANGED <<owner, refcount, scheduled, registered, peer, told>>

Leave ==
    /\ At("schedule")
    /\ rx_conns = <<>>
    /\ Goto("idle", NoFd, "none")
    /\ UNCHANGED <<owner, counts, registered, peer, told>>

\* recv() returns bytes and echo_forward takes them: it asks for more, is done
\* for now, or could not get a block.
Receive ==
    /\ At("receive")
    /\ unread[net.fd] > 0
    /\ unread' = [unread EXCEPT ![net.fd] = @ - 1]
    /\ \/ UNCHANGED net
       \/ \E rc \in {"done", "failed"} : Goto("after", net.fd, rc)
    /\ UNCHANGED <<owner, counts, registered, ended, told>>

\* EAGAIN
Drained ==
    /\ At("receive")
    /\ unread[net.fd] = 0 /\ net.fd \notin ended
    /\ Goto("after", net.fd, "again")
    /\ UNCHANGED <<owner, counts, registered, peer, told>>

\* Fault: the references are not dropped at the end of the stream.
EndOfStreamFault ==
    /\ At("receive")
    /\ net.fd \in ended
    /\ Goto("after", net.fd, "failed")
    /\ UNCHANGED <<owner, counts, registered, peer, told>>

\* An end of stream, or an error, which also discards what was not received.
EndOfStream ==
    /\ At("receive")
    /\ net.fd \in ended
    /\ Goto("decref_1", net.fd, "failed")
    /\ UNCHANGED <<owner, counts, registered, peer, told>>

\* Fault: the connection is destroyed before the plugins are told.
LastRefFault == "destroy"

\* What follows when a count reaches 0.
LastRef == "call_close"

\* sock_conn_decref up to the test, on the way to next.
Decref(next) ==
    /\ refcount' = [refcount EXCEPT ![net.fd] = @ - 1]
    /\ Goto(IF refcount'[net.fd] = 0 THEN LastRef ELSE next, net.fd, net.rc)
    /\ UNCHANGED <<owner, rx_ready, scheduled, rx_conns, registered, peer, told>>

\* The end of the stream drops two references: the creator's ...
DecrefFirst == At("decref_1") /\ Decref("decref_2")

\* ... and the scheduler's.
DecrefSecond == At("decref_2") /\ Decref("after")

\* plugins_call_connection_close
CallConnectionClose ==
    /\ At("call_close")
    /\ told' = told \ {net.fd}
    /\ Goto("destroy", net.fd, net.rc)
    /\ UNCHANGED <<owner, counts, registered, peer>>

\* destroy_sock_conn: the event is deleted, the descriptor closed and the
\* memory freed.
Destroy ==
    /\ At("destroy")
    /\ owner' = [owner EXCEPT ![net.fd] = "free"]
    /\ registered' = registered \ {net.fd}
    /\ unread' = [unread EXCEPT ![net.fd] = 0]
    /\ ended' = ended \ {net.fd}
    /\ Goto("after_freed", net.fd, net.rc)
    /\ UNCHANGED <<counts, told>>

\* Fault: the scheduler's reference is kept.
UnscheduledFault(fd) == refcount[fd]

\* The count once the scheduler's reference is dropped.
Unscheduled(fd) == refcount[fd] - 1

\* The rest of the loop's body, on a connection that is there.
After ==
    /\ At("after")
    /\ IF net.rc = "done"
       THEN /\ rx_ready' = rx_ready \cup {net.fd}
            /\ rx_conns' = Append(rx_conns, net.fd)
            /\ Goto("schedule", NoFd, "none")
            /\ UNCHANGED <<scheduled, refcount>>
       ELSE /\ scheduled' = scheduled \ {net.fd}
            /\ refcount' = [refcount EXCEPT ![net.fd] = Unscheduled(net.fd)]
            /\ Goto(IF refcount'[net.fd] = 0 THEN LastRef ELSE "schedule",
                    net.fd, net.rc)
            /\ UNCHANGED <<rx_ready, rx_conns>>
    /\ UNCHANGED <<owner, registered, peer, told>>

\* The same on a connection that has been freed: psc_rx_ready is read and the
\* count written in memory that is no longer the connection's.
AfterFreed ==
    /\ At("after_freed")
    /\ \/ /\ scheduled' = scheduled \ {net.fd}
          /\ refcount' = [refcount EXCEPT ![net.fd] = Unscheduled(net.fd)]
          /\ Goto("schedule", NoFd, "none")
       \/ /\ Goto("crashed", NoFd, "none")
          /\ UNCHANGED <<scheduled, refcount>>
    /\ UNCHANGED <<owner, rx_ready, rx_conns, registered, peer, told>>

-----------------------------------------------------------------------------

Init ==
    /\ owner = [fd \in Fds |-> "free"]
    /\ refcount = [fd \in Fds |-> 0]
    /\ rx_ready = {} /\ scheduled = {} /\ rx_conns = <<>>
    /\ registered = {}
    /\ unread = [fd \in Fds |-> 0]
    /\ ended = {}
    /\ told = {}
    /\ net = [pc |-> "idle", fd |-> NoFd, rc |-> "none"]

Loop ==
    \/ CallConnection \/ EventAdd \/ Take \/ Leave
    \/ Receive \/ Drained \/ EndOfStream
    \/ DecrefFirst \/ DecrefSecond \/ CallConnectionClose \/ Destroy
    \/ After \/ AfterFreed

PeerSends == \E fd \in Fds : Send(fd)

Next ==
    \/ Loop \/ EchoConnFails \/ EventAddFails
    \/ PeerSends
    \/ \E fd \in Fds : \/ End(fd) \/ WorkerOpen(fd) \/ WorkerClose(fd)
                       \/ Accept(fd) \/ ServerReadBuffer(fd)

Spec == Init /\ [][Next]_vars

\* The event loop's thread is scheduled, and the loop dispatches every event
\* of a poll before the next one, so a readable connection has its turn
\* however often others have theirs.
Fairness ==
    /\ WF_vars(Loop)
    /\ \A fd \in Fds : SF_vars(ServerReadBuffer(fd))

FairSpec == Spec /\ Fairness

-----------------------------------------------------------------------------
(* Properties *)

TypeOK ==
    /\ owner \in [Fds -> {"free", "conn", "worker"}]
    /\ refcount \in [Fds -> -1 .. 2]
    /\ rx_ready \subseteq Fds /\ scheduled \subseteq Fds
    /\ rx_conns \in Seq(Fds)
    /\ registered \subseteq Fds
    /\ unread \in [Fds -> 0 .. MaxUnread]
    /\ ended \subseteq Fds
    /\ told \subseteq Fds
    /\ net.fd \in Fds \cup {NoFd}
    /\ net.rc \in {"none", "again", "done", "failed"}

\* While the loop waits for events every connection holds its own reference
\* and no other, and is neither scheduled nor on the list: no event or end of
\* stream, whatever sockbase_process_receive returned, leaves a reference
\* behind or takes one too many (server_read_buffer, sockbase_schedule).
CountRight ==
    At("idle") =>
        /\ rx_conns = <<>>
        /\ \A fd \in Conns : refcount[fd] = 1 /\ fd \notin scheduled

\* What is received goes to plugins that have been told of the connection and
\* not of its end: they are told before the event is added, and the event is
\* gone before the descriptor can be another connection's.
ReadIsTold == At("receive") => net.fd \in told /\ owner[net.fd] = "conn"

\* The plugins are told of each connection once and of its end once, and the
\* descriptor is not closed, nor its number given to another thread, in
\* between (server_accept, sock_conn_decref, destroy_sock_conn).
Life == INSTANCE ConnLife
            WITH open <- Conns, told <- told,
                 over <- {fd \in Conns \ told : refcount[fd] = 0}
PluginsSeeLife == Life!Spec

\* Every connection the plugins know of whose peer has gone is reported to
\* them, unless some peer never stops sending: sockbase_schedule does not leave
\* a connection while it has something to receive, and the others wait.
EndIsTold ==
    \/ []<><<PeerSends>>_vars
    \/ \A fd \in Fds : fd \in told \cap ended ~> (fd \notin told \/ At("crashed"))

\* "assert(conn->psc_rx_scheduled)" (network.c:624, compiled out by NDEBUG): the
\* connection that sockbase_schedule goes on with after sockbase_process_receive
\* is there.
AliveAfterReceive == ~At("after_freed")
=============================================================================
