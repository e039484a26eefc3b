------------------------------ MODULE RobotPool ------------------------------
(***************************************************************************)
(* The companion robots of the robot server (robot/robot): the maps of     *)
(* robot_cache_manager.cc, the handlers of robot_connection.cc and         *)
(* scheduler_mgr.cc that move robots between them, and the song notice of  *)
(* robot_song_mgr.cc, which repairs them.                                  *)
(*                                                                         *)
(* A user who signs in is given two idle robots; a scheduler is told to    *)
(* start their clients; each client connects and logs in; when its         *)
(* connection ends its robot is idle again. Packets are handled by the     *)
(* pool's workers, in parallel and at any time after they were received;   *)
(* the end of a connection is handled by the network thread. One step is   *)
(* one call on a cache, which is one section of its lock; but the call of  *)
(* a song change, which moves robots while it holds the lock for reading,  *)
(* has a beginning and an end. Two of them at once leave the trees they    *)
(* change in any state. Followed of that is which entries are still found, *)
(* not a search that does not end or a crash.                              *)
(*                                                                         *)
(* Copies of a RobotBasicInfo share one Data, so follow and socket belong  *)
(* to the robot and the maps are the sets of their keys. One platform; ids *)
(* fit in 32 bits. The timers are commented out in the source, so nothing  *)
(* here measures time.                                                     *)
(***************************************************************************)
EXTENDS Integers, FiniteSets

CONSTANTS Users, Robots, Sockets,
          Workers, Network,           \* the pool's threads, the network thread
          Nobody, NoRobot, NoSocket,  \* no user, robot, descriptor
          Scheduler,                  \* what is at the other end of a connection
          MaxRequests,                \* bound: sign-ins and song changes
          MaxConnects                 \* bound: connections accepted

Threads == Workers \cup {Network}

ASSUME RobotAssumption ==
    /\ Network \notin Workers
    /\ Nobody \notin Users
    /\ NoRobot \notin Robots /\ Scheduler \notin Robots /\ Scheduler # NoRobot
    /\ NoSocket \notin Sockets
    /\ MaxRequests \in Nat /\ MaxConnects \in Nat

VARIABLES idle_robot_infos, temp_robot_infos, used_robot_infos,
          user_follow_infos,  \* user -> robots, {} is no entry
          user_infos,         \* users who are signed in
          schduler_infos,     \* sockets of schedulers
          socket_robot_map,   \* socket -> robot
          follow,             \* follow_map_ of each robot's Data
          socket,             \* socket_ of each robot's Data
          conn,               \* who is at the other end of an open descriptor
          packets,            \* log-ins received and not yet handled
          notices,            \* <<user, robot>> schedulers have been told to start
          requests, connects, \* counted against the bounds
          twice,              \* history: robots that logged in while in use
          late,               \* history: robots whose entry a late packet spoiled
          untold,             \* history: robots whose notice no scheduler has
          torn,               \* two song changes have moved robots at once
          thread              \* what each thread is doing

maps == <<idle_robot_infos, temp_robot_infos, used_robot_infos>>
links == <<user_follow_infos, user_infos, follow, socket>>
clients == <<conn, packets, notices, requests, connects>>
history == <<twice, late, untold, torn>>
vars == <<maps, links, schduler_infos, socket_robot_map, clients, history, thread>>

Idle == [pc |-> "idle", uid |-> Nobody, robots |-> {}, socket |-> NoSocket]

\* A worker at step pc of a request: robots of the user uid.
Serves(pc, uid, robots) ==
    [pc |-> pc, uid |-> uid, robots |-> robots, socket |-> NoSocket]

Goto(t, pc) == thread' = [thread EXCEPT ![t].pc = pc]
Done(t)     == thread' = [thread EXCEPT ![t] = Idle]

\* The process has not crashed.
Running == thread[Network].pc # "crashed"

\* The threads that hold the lock for reading and move robots: nobody else has
\* it for writing.
Moving == {t \in Workers : thread[t].pc = "follow"}

\* What a change of a map may leave in it. Any entries of a torn tree may go, and
\* new ones be lost or old ones stay.
Changed(map, gone, new) ==
    IF torn THEN SUBSET (map \cup new) ELSE {(map \ gone) \cup new}

\* A worker takes a request that concerns uid.
Request(t, uid) ==
    /\ t \in Workers
    /\ thread[t] = Idle
    /\ requests < MaxRequests
    /\ requests' = requests + 1
    /\ UNCHANGED <<conn, packets, connects>>

\* Schedulers are told to start robots for uid. With no scheduler connected the
\* message is not sent.
Notify(uid, robots) ==
    IF schduler_infos # {}
    THEN /\ notices' = notices \cup ({uid} \X robots)
         /\ UNCHANGED untold
    ELSE /\ untold' = untold \cup robots
         /\ UNCHANGED notices

-----------------------------------------------------------------------------
(* The schedulers and the robot clients, which are other programs *)

\* A scheduler connects and its SCHEDULER_LOGIN is queued.
ConnectScheduler(s) ==
    /\ Running /\ conn[s] = NoRobot
    /\ connects < MaxConnects
    /\ connects' = connects + 1
    /\ conn' = [conn EXCEPT ![s] = Scheduler]
    /\ packets' = packets \cup {[uid |-> Nobody, robot |-> Scheduler, socket |-> s]}
    /\ UNCHANGED <<maps, links, schduler_infos, socket_robot_map, notices, requests,
                   history, thread>>

\* A robot client that a scheduler started connects and its ROBOT_LOGIN is
\* queued. It may connect again when its scheduler was told twice, or starts it
\* again: then the notice stays.
ConnectRobot(uid, r, s) ==
    /\ Running /\ conn[s] = NoRobot
    /\ connects < MaxConnects
    /\ connects' = connects + 1
    /\ <<uid, r>> \in notices
    /\ notices' \in {notices, notices \ {<<uid, r>>}}
    /\ conn' = [conn EXCEPT ![s] = r]
    /\ packets' = packets \cup {[uid |-> uid, robot |-> r, socket |-> s]}
    /\ UNCHANGED <<maps, links, schduler_infos, socket_robot_map, requests,
                   history, thread>>

-----------------------------------------------------------------------------
(* OnUserLogin: a user has signed in *)

\* GetRobot, for each robot: idle to temporary. The first of the map is taken;
\* which one that is makes no difference here.
GetIdleRobot(robots) ==
    /\ idle_robot_infos' \in Changed(idle_robot_infos, robots, {})
    /\ temp_robot_infos' \in Changed(temp_robot_infos, {}, robots)
    /\ UNCHANGED used_robot_infos

\* A user who has robots keeps them; another one gets two, or one if there is
\* no more, or none, and then the handler ends.
UserLogin(t, uid) ==
    /\ Request(t, uid) /\ Moving = {}
    /\ \/ /\ user_follow_infos[uid] # {}
          /\ thread' = [thread EXCEPT ![t] = Serves("user_info", uid, user_follow_infos[uid])]
          /\ UNCHANGED maps
       \/ /\ user_follow_infos[uid] = {}
          /\ \E robots \in SUBSET idle_robot_infos :
               /\ Cardinality(robots) =
                     IF Cardinality(idle_robot_infos) < 2 THEN Cardinality(idle_robot_infos) ELSE 2
               /\ GetIdleRobot(robots)
               /\ thread' = IF robots = {} THEN thread
                            ELSE [thread EXCEPT ![t] = Serves("user_info", uid, robots)]
    /\ UNCHANGED <<links, schduler_infos, socket_robot_map, notices, history>>

SetUserInfoLogin(t) ==
    /\ thread[t].pc = "user_info" /\ Moving = {}
    /\ user_infos' \in Changed(user_infos, {}, {thread[t].uid})
    /\ Goto(t, "scheduler_send")
    /\ UNCHANGED <<maps, user_follow_infos, follow, socket, schduler_infos, socket_robot_map,
                   clients, history>>

SchedulerSendMessage(t) ==
    /\ thread[t].pc = "scheduler_send" /\ Moving = {}
    /\ Notify(thread[t].uid, thread[t].robots)
    /\ Done(t)
    /\ UNCHANGED <<maps, links, schduler_infos, socket_robot_map, conn, packets, requests,
                   connects, twice, late, torn>>

-----------------------------------------------------------------------------
(* SCHEDULER_LOGIN and ROBOT_LOGIN *)

\* OnSchedulerMgrLogin: SetScheduler. (NoticeAssistantLogin changes nothing.)
SchedulerLogin(t, p) ==
    /\ t \in Workers /\ thread[t] = Idle /\ Moving = {}
    /\ p \in packets /\ p.robot = Scheduler
    /\ packets' = packets \ {p}
    /\ schduler_infos' = schduler_infos \cup {p.socket}
    /\ UNCHANGED <<maps, links, socket_robot_map, conn, notices, requests, connects,
                   history, thread>>

\* Fault: the user's list of robots is not written.
RobotLoginSucessFault(p) ==
    /\ socket' = [socket EXCEPT ![p.robot] = p.socket]
    /\ follow' = [follow EXCEPT ![p.robot] = @ \cup {p.uid}]
    /\ temp_robot_infos' \in Changed(temp_robot_infos, {p.robot}, {})
    /\ used_robot_infos' = used_robot_infos \cup {p.robot}
    /\ UNCHANGED <<idle_robot_infos, user_infos, user_follow_infos>>

\* Fault: the robot stays among those that wait for their client.
RobotLoginStaysFault(p) ==
    /\ socket' = [socket EXCEPT ![p.robot] = p.socket]
    /\ follow' = [follow EXCEPT ![p.robot] = @ \cup {p.uid}]
    /\ used_robot_infos' = used_robot_infos \cup {p.robot}
    /\ user_follow_infos' = [user_follow_infos EXCEPT ![p.uid] = @ \cup {p.robot}]
    /\ UNCHANGED <<idle_robot_infos, temp_robot_infos, user_infos>>

\* What a log-in changes: the robot is in use and follows the user.
RobotLoginSucess(p) ==
    /\ socket' = [socket EXCEPT ![p.robot] = p.socket]
    /\ follow' = [follow EXCEPT ![p.robot] = @ \cup {p.uid}]
    /\ temp_robot_infos' \in Changed(temp_robot_infos, {p.robot}, {})
    /\ used_robot_infos' = used_robot_infos \cup {p.robot}
    /\ user_follow_infos' = [user_follow_infos EXCEPT ![p.uid] = @ \cup {p.robot}]
    /\ UNCHANGED <<idle_robot_infos, user_infos>>

\* OnRobotLogin, first call: a robot that waits or is in use logs in; for one
\* that is idle the handler goes on with an empty RobotBasicInfo.
RobotLogin(t, p) ==
    LET known == p.robot \in temp_robot_infos \cup used_robot_infos
    IN  /\ t \in Workers /\ thread[t] = Idle /\ Moving = {}
        /\ p \in packets /\ p.robot \in Robots
        /\ packets' = packets \ {p}
        /\ IF known THEN RobotLoginSucess(p) ELSE UNCHANGED <<maps, links>>
        /\ twice' = twice \cup ({p.robot} \cap used_robot_infos)
        /\ thread' = [thread EXCEPT ![t] =
              [pc |-> "set_robot", uid |-> p.uid, socket |-> p.socket,
               robots |-> IF known THEN {p.robot} ELSE {}]]
        /\ UNCHANGED <<schduler_infos, socket_robot_map, conn, notices, requests, connects,
                       late, untold, torn>>

\* The connection on s is no longer the robots', or its end has been handled.
Ended(s, robots) ==
    \/ conn[s] \notin robots
    \/ thread[Network].socket = s /\ thread[Network].pc # "get_robot"

\* Fault: no entry is written.
SetRobotInfoFault(t) ==
    /\ thread[t].pc = "set_robot"
    /\ Done(t)
    /\ UNCHANGED <<maps, links, schduler_infos, socket_robot_map, clients, history>>

\* OnRobotLogin, second call: the entry for the descriptor, of the robot or, if
\* the log-in failed, of the empty one.
SetRobotInfo(t) ==
    LET s == thread[t].socket
        r == IF thread[t].robots = {} THEN NoRobot ELSE CHOOSE x \in thread[t].robots : TRUE
    IN  /\ thread[t].pc = "set_robot"
        /\ socket_robot_map' = [socket_robot_map EXCEPT ![s] = r]
        /\ late' = IF Ended(s, thread[t].robots)
                   THEN late \cup ({r, socket_robot_map[s]} \cap Robots) ELSE late
        /\ Done(t)
        /\ UNCHANGED <<maps, links, schduler_infos, clients, twice, untold, torn>>

-----------------------------------------------------------------------------
(* OnNoticeUserChangerSong: the song of a user has changed *)

\* GetUserFollowAllRobot begins: robots of the user that are not in use are to
\* wait for their client again. The songs sent afterwards change nothing here.
UserChangesSong(t, uid) ==
    LET missing == user_follow_infos[uid] \ used_robot_infos
    IN  /\ Request(t, uid)
        /\ \/ missing = {} /\ UNCHANGED <<thread, torn>>
           \/ /\ missing # {}
              /\ torn' = (torn \/ Moving # {})
              /\ thread' = [thread EXCEPT ![t] = Serves("follow", uid, missing)]
        /\ UNCHANGED <<maps, links, schduler_infos, socket_robot_map, notices,
                       twice, late, untold>>

\* Fault: the robots stay among the idle ones.
CheckUserFollowStaysFault(uid, missing) ==
    /\ user_infos' \in Changed(user_infos, {}, {uid})
    /\ temp_robot_infos' \in Changed(temp_robot_infos, {}, missing)
    /\ UNCHANGED <<idle_robot_infos, used_robot_infos, user_follow_infos, follow, socket>>

CheckUserFollow(uid, missing) ==
    /\ user_infos' \in Changed(user_infos, {}, {uid})
    /\ idle_robot_infos' \in Changed(idle_robot_infos, missing, {})
    /\ temp_robot_infos' \in Changed(temp_robot_infos, {}, missing)
    /\ UNCHANGED <<used_robot_infos, user_follow_infos, follow, socket>>

\* It ends. Without a scheduler begin() of the empty map is read: the notice goes
\* nowhere or the process ends.
GetUserFollowAllRobot(t) ==
    /\ thread[t].pc = "follow"
    /\ CheckUserFollow(thread[t].uid, thread[t].robots)
    /\ Notify(thread[t].uid, thread[t].robots)
    /\ \/ Done(t)
       \/ /\ schduler_infos = {}
          /\ thread' = [x \in Threads |-> [Idle EXCEPT !.pc = "crashed"]]
    /\ UNCHANGED <<schduler_infos, socket_robot_map, conn, packets, requests, connects,
                   twice, late, torn>>

-----------------------------------------------------------------------------
(* OnRobotManagerClose: the network thread finds a connection at its end *)

CloseBegins(s) ==
    /\ thread[Network] = Idle
    /\ conn[s] # NoRobot
    /\ thread' = [thread EXCEPT ![Network] = [Idle EXCEPT !.pc = "get_robot", !.socket = s]]
    /\ UNCHANGED <<maps, links, schduler_infos, socket_robot_map, clients, history>>

\* Fault: a descriptor without an entry is not told apart.
GetRobotInfoFault ==
    LET r == socket_robot_map[thread[Network].socket]
    IN  /\ thread[Network].pc = "get_robot"
        /\ thread' = [thread EXCEPT ![Network].robots = {r}, ![Network].pc = "clear"]
        /\ UNCHANGED <<maps, links, schduler_infos, socket_robot_map, clients, history>>

\* Without an entry the handler ends. The empty RobotBasicInfo counts as none here:
\* it follows nobody, so ClearRobot returns at once, and it is then erased.
GetRobotInfo ==
    LET r == socket_robot_map[thread[Network].socket]
    IN  /\ thread[Network].pc = "get_robot"
        /\ \E pc \in IF r = NoRobot THEN {"del_robot", "del_scheduler"} ELSE {"clear"} :
             thread' = [thread EXCEPT ![Network].robots = {r} \cap Robots,
                                      ![Network].pc = pc]
        /\ UNCHANGED <<maps, links, schduler_infos, socket_robot_map, clients, history>>

\* Fault: the robot is taken off the robots in use and not given back.
ClearRobotFault(r) ==
    /\ user_infos' \in Changed(user_infos, follow[r], {})
    /\ user_follow_infos' = [u \in Users |->
          IF u \in follow[r] /\ user_follow_infos[u] = {r} THEN {} ELSE user_follow_infos[u]]
    /\ used_robot_infos' = used_robot_infos \ {r}
    /\ UNCHANGED <<idle_robot_infos, temp_robot_infos, follow, socket>>

\* For every user the robot has ever followed: the user is signed out, and the
\* robot is taken off a copy of the user's robots, so that the user's entry
\* changes only if it goes.
ClearRobot(r) ==
    /\ user_infos' \in Changed(user_infos, follow[r], {})
    /\ user_follow_infos' = [u \in Users |->
          IF u \in follow[r] /\ user_follow_infos[u] = {r} THEN {} ELSE user_follow_infos[u]]
    /\ used_robot_infos' = used_robot_infos \ {r}
    /\ idle_robot_infos' \in Changed(idle_robot_infos, {}, {r})
    /\ UNCHANGED <<temp_robot_infos, follow, socket>>

ClearRobotConnection ==
    /\ thread[Network].pc = "clear" /\ Moving = {}
    /\ \E r \in thread[Network].robots : ClearRobot(r)
    /\ Goto(Network, "del_robot")
    /\ UNCHANGED <<schduler_infos, socket_robot_map, clients, history>>

\* Fault: the entry of the descriptor stays.
DelRobotInfoFault ==
    /\ thread[Network].pc = "del_robot"
    /\ UNCHANGED socket_robot_map
    /\ Goto(Network, "del_scheduler")
    /\ UNCHANGED <<maps, links, schduler_infos, clients, history>>

DelRobotInfo ==
    /\ thread[Network].pc = "del_robot"
    /\ socket_robot_map' = [socket_robot_map EXCEPT ![thread[Network].socket] = NoRobot]
    /\ Goto(Network, "del_scheduler")
    /\ UNCHANGED <<maps, links, schduler_infos, clients, history>>

DeleteScheduler ==
    /\ thread[Network].pc = "del_scheduler" /\ Moving = {}
    /\ schduler_infos' = schduler_infos \ {thread[Network].socket}
    /\ Goto(Network, "free")
    /\ UNCHANGED <<maps, links, socket_robot_map, clients, history>>

\* The descriptor is free again. With a scheduler go notices it had not acted on.
CloseEnds ==
    LET s == thread[Network].socket
    IN  /\ thread[Network].pc = "free"
        /\ conn' = [conn EXCEPT ![s] = NoRobot]
        /\ IF conn[s] = Scheduler
           THEN \E lost \in {{}, notices} :
                  /\ notices' = notices \ lost
                  /\ untold' = untold \cup {n[2] : n \in lost}
           ELSE UNCHANGED <<notices, untold>>
        /\ Done(Network)
        /\ UNCHANGED <<maps, links, schduler_infos, socket_robot_map, packets, requests,
                       connects, twice, late, torn>>

-----------------------------------------------------------------------------
Init ==
    /\ idle_robot_infos = Robots /\ temp_robot_infos = {} /\ used_robot_infos = {}
    /\ user_follow_infos = [u \in Users |-> {}] /\ user_infos = {}
    /\ schduler_infos = {} /\ socket_robot_map = [s \in Sockets |-> NoRobot]
    /\ follow = [r \in Robots |-> {}] /\ socket = [r \in Robots |-> NoSocket]
    /\ conn = [s \in Sockets |-> NoRobot] /\ packets = {} /\ notices = {}
    /\ requests = 0 /\ connects = 0
    /\ twice = {} /\ late = {} /\ untold = {} /\ torn = FALSE
    /\ thread = [t \in Threads |-> Idle]

Next ==
    \/ \E s \in Sockets : ConnectScheduler(s) \/ CloseBegins(s)
    \/ \E u \in Users, r \in Robots, s \in Sockets : ConnectRobot(u, r, s)
    \/ \E t \in Workers, u \in Users : UserLogin(t, u) \/ UserChangesSong(t, u)
    \/ \E t \in Workers, p \in packets : SchedulerLogin(t, p) \/ RobotLogin(t, p)
    \/ \E t \in Workers : \/ SetUserInfoLogin(t) \/ SchedulerSendMessage(t)
                          \/ SetRobotInfo(t) \/ GetUserFollowAllRobot(t)
    \/ GetRobotInfo \/ ClearRobotConnection \/ DelRobotInfo \/ DeleteScheduler \/ CloseEnds

Spec == Init /\ [][Next]_vars

-----------------------------------------------------------------------------
(* Properties *)

DataOK ==
    /\ {idle_robot_infos, temp_robot_infos, used_robot_infos} \subseteq SUBSET Robots
    /\ user_follow_infos \in [Users -> SUBSET Robots] /\ user_infos \subseteq Users
    /\ schduler_infos \subseteq Sockets
    /\ socket_robot_map \in [Sockets -> Robots \cup {NoRobot}]
    /\ follow \in [Robots -> SUBSET Users]
    /\ socket \in [Robots -> Sockets \cup {NoSocket}]
    /\ conn \in [Sockets -> Robots \cup {Scheduler, NoRobot}]
    /\ packets \subseteq [uid : Users \cup {Nobody}, robot : Robots \cup {Scheduler},
                          socket : Sockets]
    /\ notices \subseteq Users \X Robots
    /\ requests \in 0..MaxRequests /\ connects \in 0..MaxConnects
    /\ {twice, late, untold} \subseteq SUBSET Robots /\ torn \in BOOLEAN

\* Every variable keeps its type.
TypeOK ==
    /\ DataOK
    /\ \A t \in Threads :
         /\ thread[t].uid \in Users \cup {Nobody} /\ thread[t].robots \subseteq Robots
         /\ thread[t].socket \in Sockets \cup {NoSocket}

\* GetRobot, RobotLoginSucess, CheckUserFollowAllRobot and ClearRobot between
\* them neither lose a robot nor put it in two maps, except one that logged in
\* a second time while in use: the end of the first connection frees it under
\* the second. CheckUserFollowAllRobot moves robots under a lock that it shares:
\* nothing is said once two song changes have done so at once.
RobotInOneMap == ~torn => \A r \in Robots :
    /\ r \in idle_robot_infos \cup temp_robot_infos \cup used_robot_infos
    /\ \/ r \in twice
       \/ Cardinality({m \in {1, 2, 3} : r \in maps[m]}) = 1

\* A robot in use is connected on the descriptor that songs are sent to, unless
\* it logged in twice, or a packet handled late wrote (or will now write) an
\* entry for a connection that had ended.
UsedIsConnected == Running => \A r \in used_robot_infos \ (twice \cup late) :
    \/ conn[socket[r]] = r
    \/ \E t \in Workers : thread[t].pc = "set_robot" /\ r \in thread[t].robots

\* When OnClearRobotConnection has dealt with a descriptor and it is free again,
\* no entry is left for it that would end the use of a robot when the next
\* connection on it ends, but for what a late packet wrote.
EntryIsLive == \A s \in Sockets :
    conn[s] = NoRobot /\ socket_robot_map[s] # NoRobot => socket_robot_map[s] \in late

\* A robot that waits for its client has a client coming: a notice a scheduler
\* still has, a log-in not yet handled, or a handler about to send the notice;
\* unless its notice found no scheduler or went with one. A temporary map torn by
\* two song changes may keep a robot whose log-in took it off.
WaitingIsExpected == Running /\ ~torn => \A r \in temp_robot_infos \ untold :
    \/ \E u \in Users : <<u, r>> \in notices
    \/ \E p \in packets : p.robot = r
    \/ \E t \in Workers : thread[t].pc \in {"user_info", "scheduler_send"} /\ r \in thread[t].robots

\* A robot in use is on the list of a user, so that a song change finds it.
UsedIsFollowing == \A r \in used_robot_infos : \E u \in Users : r \in user_follow_infos[u]
=============================================================================
