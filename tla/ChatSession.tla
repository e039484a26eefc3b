----------------------------- MODULE ChatSession -----------------------------
(***************************************************************************)
(* Sign-in, conversations and sign-out in the chat server                  *)
(* (chat/chat/user_connection.cc). A packet is handled by a worker of the  *)
(* thread pool, at any time after it was received and in parallel with     *)
(* other packets, of the same connection too; the close of a connection is *)
(* handled at once by the network thread. A handler is a sequence of calls *)
(* on the caches: one step is one call (one lock section), together with   *)
(* the handler's own computation around it.                                *)
(*                                                                         *)
(* Tokens are never refused (the handlers overwrite the result of the      *)
(* check), users asked for are known to the database, and a connection     *)
(* carries the packets of one user.                                        *)
(***************************************************************************)
EXTENDS ChatCache

CONSTANTS Workers,    \* threads of the pool
          Network,    \* the network thread
          Nobody,     \* no user
          MaxPackets, \* bound: packets that are handled
          MaxPairs    \* bound: pairs of a user and the descriptor it is on

Threads == Workers \cup {Network}

ASSUME SessionAssumption ==
    /\ Network \notin Workers
    /\ Nobody \notin Users
    /\ MaxPackets \in Nat /\ MaxPairs \in Nat

VARIABLES conn,      \* the user at the other end of an open socket
          packets,   \* <<user, socket>>: connections packets may be queued of
          handled,   \* packets taken so far
          told,      \* the sessions each user's client has been told
          pair,      \* history: the two users a private session was drawn for
          late,      \* history: sockets whose entry a packet of an ended
                     \* connection has set or erased
          thread     \* what each thread is doing

clientVars  == <<conn, packets, handled, told>>
historyVars == <<pair, late, torn>>
vars == <<cacheVars, clientVars, historyVars, thread>>

Idle == [pc |-> "idle", uid |-> Nobody, opp |-> Nobody, socket |-> 0,
         info |-> 0, session |-> NoSession]

\* The threads in DelUserInos, which hold the lock of the caches for reading:
\* nobody has it for writing, but anybody may read, or be there too.
Erasing == {t \in Threads : thread[t].pc = "erase"}

Goto(t, pc) == thread' = [thread EXCEPT ![t].pc = pc]
Done(t)     == thread' = [thread EXCEPT ![t] = Idle]

\* A worker takes a packet of uid's, received on socket.
Take(t, uid, socket) ==
    /\ t \in Workers
    /\ thread[t] = Idle
    /\ <<uid, socket>> \in packets
    /\ handled < MaxPackets
    /\ handled' = handled + 1
    /\ UNCHANGED <<conn, packets, told>>

\* A handler changes the entry of its socket: is the connection its packet came
\* on still there?
NoteLate(t) ==
    late' = IF /\ conn[thread[t].socket] = thread[t].uid
               /\ thread[Network].socket # thread[t].socket
            THEN late ELSE late \cup {thread[t].socket}

-----------------------------------------------------------------------------
(* Clients *)

\* The kernel reuses a descriptor once the server has closed it.
Connect(uid, socket) ==
    /\ conn[socket] = Nobody
    /\ conn' = [conn EXCEPT ![socket] = uid]
    /\ packets' = packets \cup {<<uid, socket>>}
    /\ Cardinality(packets') <= MaxPairs
    /\ UNCHANGED <<cacheVars, handled, told, historyVars, thread>>

-----------------------------------------------------------------------------
(* OnUserLogin *)

\* The database knows the user: a new UserInfo, with this socket.
Login(t, uid, socket) ==
    /\ Take(t, uid, socket)
    /\ NewInfo(uid, socket)
    /\ thread' = [thread EXCEPT ![t] =
                    [Idle EXCEPT !.pc = "login_user", !.uid = uid, !.socket = socket,
                                 !.info = Len(infos) + 1]]
    /\ UNCHANGED <<user_infos_map, socket_infos_map, leave_infos_map, meeting_infos_map,
                   historyVars>>

LoginUser(t) ==
    /\ thread[t].pc = "login_user" /\ Erasing = {}
    /\ AddUserInfos(thread[t].uid, thread[t].info)
    /\ Goto(t, "login_socket")
    /\ UNCHANGED <<infos, socket_infos_map, leave_infos_map, meeting_infos_map,
                   clientVars, historyVars>>

LoginSocket(t) ==
    /\ thread[t].pc = "login_socket"
    /\ AddSocket(thread[t].socket, thread[t].info)
    /\ NoteLate(t)
    /\ Done(t)
    /\ UNCHANGED <<infos, user_infos_map, leave_infos_map, meeting_infos_map,
                   clientVars, pair, torn>>

-----------------------------------------------------------------------------
(* OnGetUserInfo: a user asks to talk to another *)

Ask(t, uid, socket, opp) ==
    /\ Take(t, uid, socket)
    /\ user_infos_map[uid] # 0
    /\ thread' = [thread EXCEPT ![t] =
                    [Idle EXCEPT !.pc = "ask", !.uid = uid, !.opp = opp,
                                 !.info = user_infos_map[uid]]]
    /\ UNCHANGED <<cacheVars, historyVars>>

\* The other has left no session: draw one and leave it for the other.
AskFirst(t) ==
    /\ thread[t].pc = "ask"
    /\ IsExitsLeaveInfos(thread[t].opp, thread[t].uid) = NoSession
    /\ \E session \in Sessions :
         /\ pair[session] = {}
         /\ pair' = [pair EXCEPT ![session] = {thread[t].uid, thread[t].opp}]
         /\ thread' = [thread EXCEPT ![t].pc = "invite", ![t].session = session]
    /\ UNCHANGED <<cacheVars, clientVars, late, torn>>

Invite(t) ==
    /\ thread[t].pc = "invite" /\ Erasing = {}
    /\ AddLeaveInfos(thread[t].session, thread[t].opp, thread[t].uid)
    /\ Goto(t, "enter")
    /\ UNCHANGED <<infos, user_infos_map, socket_infos_map, meeting_infos_map,
                   clientVars, historyVars>>

\* Fault: no answer.
EnterFault(t) ==
    /\ thread[t].pc = "enter"
    /\ set_session(thread[t].info, thread[t].session)
    /\ Done(t)
    /\ UNCHANGED <<user_infos_map, socket_infos_map, leave_infos_map, meeting_infos_map,
                   clientVars, historyVars>>

\* The asker's (or group member's) session is set and the client is told.
Enter(t) ==
    /\ thread[t].pc = "enter"
    /\ set_session(thread[t].info, thread[t].session)
    /\ told' = [told EXCEPT ![thread[t].uid] = @ \cup {thread[t].session}]
    /\ Done(t)
    /\ UNCHANGED <<user_infos_map, socket_infos_map, leave_infos_map, meeting_infos_map,
                   conn, packets, handled, historyVars>>

\* The other has left a session: join it there.
AskSecond(t) ==
    LET session == IsExitsLeaveInfos(thread[t].opp, thread[t].uid)
    IN  /\ thread[t].pc = "ask"
        /\ session # NoSession
        /\ thread' = [thread EXCEPT ![t].pc = "join", ![t].session = session]
        /\ UNCHANGED <<cacheVars, clientVars, historyVars>>

Join(t) ==
    /\ thread[t].pc = "join"
    /\ set_session(thread[t].info, thread[t].session)
    /\ Goto(t, "clear_leave")
    /\ UNCHANGED <<user_infos_map, socket_infos_map, leave_infos_map, meeting_infos_map,
                   clientVars, historyVars>>

ClearLeave(t) ==
    /\ thread[t].pc = "clear_leave" /\ Erasing = {}
    /\ ClearLeaveInfos(thread[t].opp)
    /\ Goto(t, "meet")
    /\ UNCHANGED <<infos, user_infos_map, socket_infos_map, meeting_infos_map,
                   clientVars, historyVars>>

Meet(t) ==
    /\ thread[t].pc = "meet" /\ Erasing = {}
    /\ AddMeetingPair(thread[t].session, thread[t].opp, thread[t].uid)
    /\ told' = [told EXCEPT ![thread[t].uid] = @ \cup {thread[t].session}]
    /\ Done(t)
    /\ UNCHANGED <<infos, user_infos_map, socket_infos_map, leave_infos_map,
                   conn, packets, handled, historyVars>>

-----------------------------------------------------------------------------
(* OnGetGroupInfo: a user enters a group *)

AskGroup(t, uid, socket, group) ==
    /\ Take(t, uid, socket)
    /\ user_infos_map[uid] # 0
    /\ thread' = [thread EXCEPT ![t] =
                    [Idle EXCEPT !.pc = "group", !.uid = uid,
                                 !.info = user_infos_map[uid], !.session = group]]
    /\ UNCHANGED <<cacheVars, historyVars>>

EnterGroup(t) ==
    /\ thread[t].pc = "group" /\ Erasing = {}
    /\ AddMeetingMember(thread[t].session, thread[t].uid)
    /\ Goto(t, "enter")
    /\ UNCHANGED <<infos, user_infos_map, socket_infos_map, leave_infos_map,
                   clientVars, historyVars>>

-----------------------------------------------------------------------------
(* OnUserQuit, OnAberrant and ClearUserinfo *)

\* A quit packet: it names the user and a session its client was told.
Quit(t, uid, socket, session) ==
    /\ Take(t, uid, socket)
    /\ user_infos_map[uid] # 0
    /\ session \in told[uid] \cup {NoSession}
    /\ thread' = [thread EXCEPT ![t] =
                    [Idle EXCEPT !.pc = "quit", !.uid = uid, !.socket = socket,
                                 !.session = session]]
    /\ UNCHANGED <<cacheVars, historyVars>>

QuitSocket(t) ==
    /\ thread[t].pc = "quit"
    /\ DelSocket(thread[t].socket)
    /\ NoteLate(t)
    /\ Goto(t, "clear_meeting")
    /\ UNCHANGED <<infos, user_infos_map, leave_infos_map, meeting_infos_map,
                   clientVars, pair, torn>>

\* A connection ends; the descriptor is closed after the handler.
Close(socket) ==
    /\ thread[Network] = Idle
    /\ conn[socket] # Nobody
    /\ \/ /\ socket_infos_map[socket] = 0
          /\ conn' = [conn EXCEPT ![socket] = Nobody]
          /\ UNCHANGED thread
       \/ /\ socket_infos_map[socket] # 0
          /\ thread' = [thread EXCEPT ![Network] =
                          [Idle EXCEPT !.pc = "aberrant", !.socket = socket,
                                       !.info = socket_infos_map[socket]]]
          /\ UNCHANGED conn
    /\ UNCHANGED <<cacheVars, packets, handled, told, historyVars>>

\* The user and the session are those of the UserInfo found.
AberrantSocket ==
    LET found == infos[thread[Network].info]
    IN  /\ thread[Network].pc = "aberrant"
        /\ DelSocket(thread[Network].socket)
        /\ thread' = [thread EXCEPT ![Network].pc = "clear_meeting",
                                    ![Network].uid = found.user,
                                    ![Network].session = found.session]
        /\ UNCHANGED <<infos, user_infos_map, leave_infos_map, meeting_infos_map,
                       clientVars, historyVars>>

\* The other members' notice of the quit, sent between this step and the
\* next, reads the caches only.
ClearMeeting(t) ==
    /\ thread[t].pc = "clear_meeting" /\ Erasing = {}
    /\ DelMeetingInfos(thread[t].session, thread[t].uid)
    /\ Goto(t, "clear_user")
    /\ UNCHANGED <<infos, user_infos_map, socket_infos_map, clientVars, historyVars>>

\* DelUserInos begins. A second thread in it tears the map.
ClearUser(t) ==
    /\ thread[t].pc = "clear_user"
    /\ torn' = (torn \/ Erasing # {})
    /\ Goto(t, "erase")
    /\ UNCHANGED <<cacheVars, clientVars, pair, late>>

\* Fault: the user stays in user_infos_map.
EraseUserFault(t) ==
    /\ thread[t].pc = "erase"
    /\ conn' = IF t = Network THEN [conn EXCEPT ![thread[t].socket] = Nobody] ELSE conn
    /\ Done(t)
    /\ UNCHANGED <<cacheVars, packets, handled, told, historyVars>>

EraseUser(t) ==
    /\ thread[t].pc = "erase"
    /\ DelUserInos(thread[t].uid)
    /\ conn' = IF t = Network THEN [conn EXCEPT ![thread[t].socket] = Nobody] ELSE conn
    /\ Done(t)
    /\ UNCHANGED <<infos, socket_infos_map, leave_infos_map, meeting_infos_map,
                   packets, handled, told, historyVars>>

-----------------------------------------------------------------------------

Init ==
    /\ CacheInit
    /\ conn = [s \in Sockets |-> Nobody]
    /\ packets = {}
    /\ handled = 0
    /\ told = [u \in Users |-> {}]
    /\ pair = [s \in Sessions |-> {}]
    /\ late = {}
    /\ thread = [t \in Threads |-> Idle]

\* A packet begins to be handled.
Begin(t) ==
    \E uid \in Users, socket \in Sockets :
        \/ Login(t, uid, socket)
        \/ \E opp \in Users \ {uid} : Ask(t, uid, socket, opp)
        \/ \E group \in Groups : AskGroup(t, uid, socket, group)
        \/ \E session \in AnySession : Quit(t, uid, socket, session)

\* A thread goes on with what it is handling.
Continue(t) ==
    \/ LoginUser(t) \/ LoginSocket(t)
    \/ AskFirst(t) \/ Invite(t) \/ Enter(t)
    \/ AskSecond(t) \/ Join(t) \/ ClearLeave(t) \/ Meet(t)
    \/ EnterGroup(t)
    \/ QuitSocket(t) \/ ClearMeeting(t) \/ ClearUser(t) \/ EraseUser(t)
    \/ t = Network /\ AberrantSocket

Next ==
    \/ \E uid \in Users, socket \in Sockets : Connect(uid, socket)
    \/ \E socket \in Sockets : Close(socket)
    \/ \E t \in Workers : Begin(t)
    \/ \E t \in Threads : Continue(t)

Spec == Init /\ [][Next]_vars

-----------------------------------------------------------------------------
(* Properties *)

TypeOK ==
    /\ infos \in Seq([user : Users, socket : Sockets, session : AnySession])
    /\ user_infos_map \in [Users -> 0 .. Len(infos)]
    /\ socket_infos_map \in [Sockets -> 0 .. Len(infos)]
    /\ leave_infos_map \in [Users -> [Users -> AnySession]]
    /\ meeting_infos_map \in [Sessions \cup Groups -> SUBSET Users]
    /\ conn \in [Sockets -> Users \cup {Nobody}]
    /\ packets \subseteq Users \X Sockets
    /\ handled \in 0 .. MaxPackets
    /\ told \in [Users -> SUBSET (Sessions \cup Groups)]
    /\ pair \in [Sessions -> SUBSET Users]
    /\ late \subseteq Sockets /\ torn \in BOOLEAN
    /\ thread \in [Threads -> [pc : {"idle", "login_user", "login_socket", "ask", "invite",
                                      "enter", "join", "clear_leave", "meet", "group", "quit",
                                      "aberrant", "clear_meeting", "clear_user", "erase"},
                               uid : Users \cup {Nobody}, opp : Users \cup {Nobody},
                               socket : Sockets \cup {0}, info : 0 .. Len(infos),
                               session : AnySession]]

\* A private session stays between the two users it was drawn for, whatever
\* the interleaving of asking, joining, quitting and closing: only they hold
\* it as their current session, are invited to it by one another, are members
\* of it, or are told it. OnMessage delivers to a user at once any message
\* that carries the user's current session, so this is what keeps a
\* conversation private.
ExclusiveSession ==
    \A s \in Sessions :
        /\ \A i \in DOMAIN infos : infos[i].session = s => infos[i].user \in pair[s]
        /\ \A u, v \in Users : leave_infos_map[u][v] = s => {u, v} = pair[s]
        /\ meeting_infos_map[s] # {} => meeting_infos_map[s] = pair[s]
        /\ \A u \in Users : s \in told[u] => u \in pair[s]

\* Every member of a conversation has been told its session, or the answer
\* that tells it is the next thing its handler does: OnGetUserInfo publishes an
\* invitation, and OnGetGroupInfo a member, before the client is answered.
MembersTold ==
    \A s \in DOMAIN meeting_infos_map : \A u \in meeting_infos_map[s] :
        \/ s \in told[u]
        \/ \E t \in Workers :
             thread[t].pc = "enter" /\ thread[t].uid = u /\ thread[t].session = s

\* A user whose connection is gone is not left online, unless a packet of an
\* ended connection (a sign-in or a quit that had waited in the queue) has
\* changed the entry of the socket, or is about to: a late sign-in leaves its
\* user online for good, and either one hides the entry of the connection that
\* got the same descriptor. A quit that is still being handled is given time.
\* Nothing is said once two users were deleted at once: DelUserInos erases under
\* a lock that it shares, and a user whose entry that leaves stays online too.
GhostOnlyAfterLatePacket ==
    \A u \in Users :
        LET i == user_infos_map[u] IN
        (i # 0 /\ conn[infos[i].socket] # u)
          => \/ infos[i].socket \in late
             \/ torn
             \/ \E t \in Workers :
                  \/ thread[t].pc \in {"clear_meeting", "clear_user", "erase"} /\ thread[t].uid = u
                  \/ thread[t].pc = "login_socket" /\ thread[t].info = i

\* ClearUserinfo says of DelMeetingInfos that it clears the meeting session:
\* after it, the user is not a member of the session it quits.
QuitClearsMeeting ==
    [][\A t \in Threads :
         (thread[t].pc = "clear_meeting" /\ thread'[t].pc = "clear_user")
            => thread[t].uid \notin Members(thread[t].session)']_vars
=============================================================================
