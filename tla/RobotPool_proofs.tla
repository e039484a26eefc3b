-------------------------- MODULE RobotPool_proofs --------------------------
(***************************************************************************)
(* For any users, robots, descriptors and workers: no robot is lost or in  *)
(* two maps, one in use is connected and follows a user, one that waits is *)
(* expected, and a descriptor that is free has no entry, but for the       *)
(* exceptions that RobotPool names.                                        *)
(*                                                                         *)
(* The end of a connection frees the robot of its entry. That this is      *)
(* right rests on claims: an entry, a log-in that will write one, and the  *)
(* network thread about to free the robot. A robot that has not logged in  *)
(* while in use has one claim at most, and only while in use (OneClaim).   *)
(* What a song change moves is not in use, and stays so until it has ended *)
(* (Missing).                                                              *)
(***************************************************************************)
EXTENDS RobotPool, FiniteSetTheorems, TLAPS

WorkerPcs  == {"idle", "user_info", "scheduler_send", "set_robot", "follow"}
NetworkPcs == {"idle", "get_robot", "clear", "del_robot", "del_scheduler", "free"}

ThreadType ==
    [pc : WorkerPcs \cup NetworkPcs \cup {"crashed"}, uid : Users \cup {Nobody},
     robots : SUBSET Robots, socket : Sockets \cup {NoSocket}]

\* The network thread is at one of the steps pcs for descriptor s.
Closing(s, pcs) == thread[Network].socket = s /\ thread[Network].pc \in pcs

\* What a thread holds at each step; all of them stop at once.
Shape ==
    /\ thread \in [Threads -> ThreadType]
    /\ Running =>
         /\ thread[Network].pc \in NetworkPcs
         /\ thread[Network].pc # "idle" =>
              /\ thread[Network].socket \in Sockets
              /\ conn[thread[Network].socket] # NoRobot
         /\ thread[Network].pc = "clear" => \E r \in Robots : thread[Network].robots = {r}
         /\ \A t \in Workers :
              /\ thread[t].pc \in WorkerPcs
              /\ thread[t].pc \in {"user_info", "scheduler_send", "follow"} => thread[t].uid \in Users
              /\ thread[t].pc = "set_robot" =>
                   /\ thread[t].socket \in Sockets
                   /\ thread[t].robots = {} \/ \E r \in Robots : thread[t].robots = {r}
    /\ ~Running => \A t \in Threads : thread[t].pc = "crashed"

\* The robots that a song change moves are not in use: nobody can log one in.
Missing == \A t \in Workers :
    thread[t].pc = "follow" => thread[t].robots \cap used_robot_infos = {}

PacketsKnown == \A p \in packets : p.robot \in Robots => p.uid \in Users

\* The claims on a robot.
Entry(r, s)   == socket_robot_map[s] = r /\ ~Closing(s, {"clear", "del_robot"})
Pending(r, t) == thread[t].pc = "set_robot" /\ r \in thread[t].robots
Clearing(r)   == thread[Network].pc = "clear" /\ r \in thread[Network].robots

OneClaim == Running => \A r \in Robots \ twice :
    /\ \A s \in Sockets : Entry(r, s) =>
         /\ r \in used_robot_infos
         /\ \A x \in Sockets : Entry(r, x) => x = s
         /\ \A t \in Workers : ~Pending(r, t)
         /\ ~Clearing(r)
    /\ \A t \in Workers : Pending(r, t) =>
         /\ r \in used_robot_infos
         /\ \A x \in Workers : Pending(r, x) => x = t
         /\ ~Clearing(r)
    /\ Clearing(r) => r \in used_robot_infos

\* The robot is connected, and the end of its connection will free it.
Settled(r) ==
    LET s == socket[r]
    IN  /\ s \in Sockets /\ conn[s] = r /\ socket_robot_map[s] = r
        /\ ~Closing(s, {"del_robot", "del_scheduler", "free"})
        /\ Closing(s, {"clear"}) => r \in thread[Network].robots

Connected == Running => \A r \in used_robot_infos \ (twice \cup late) :
    Settled(r) \/ \E t \in Workers : Pending(r, t) /\ thread[t].socket = socket[r]

Live == \A s \in Sockets :
    (/\ conn[s] = NoRobot \/ Closing(s, {"del_scheduler", "free"})
     /\ socket_robot_map[s] # NoRobot) => socket_robot_map[s] \in late

-----------------------------------------------------------------------------
(* Facts about single states *)

\* What TypeOK and Shape say of each variable.
LEMMA Types ==
    ASSUME TypeOK, Shape
    PROVE  /\ idle_robot_infos \subseteq Robots /\ temp_robot_infos \subseteq Robots
           /\ used_robot_infos \subseteq Robots /\ user_infos \subseteq Users
           /\ twice \subseteq Robots /\ late \subseteq Robots /\ untold \subseteq Robots
           /\ user_follow_infos \in [Users -> SUBSET Robots]
           /\ socket_robot_map \in [Sockets -> Robots \cup {NoRobot}]
           /\ socket \in [Robots -> Sockets \cup {NoSocket}]
           /\ conn \in [Sockets -> Robots \cup {Scheduler, NoRobot}]
           /\ notices \subseteq Users \X Robots
           /\ \A p \in packets : p.uid \in Users \cup {Nobody} /\ p.socket \in Sockets
           /\ thread \in [Threads -> ThreadType]
  BY DEF TypeOK, DataOK, Shape

\* Once the process has crashed no handler and no client takes a step.
LEMMA StepRuns ==
    ASSUME Shape, Next
    PROVE  Running
<1>1. SUFFICES ASSUME ~Running
      PROVE  FALSE
  OBVIOUS
<1>2. \A t \in Threads : thread[t].pc = "crashed"
  BY <1>1 DEF Shape
<1>3. \A t \in Threads : thread[t] # Idle
  BY <1>2 DEF Idle
<1> QED
  BY <1>1, <1>2, <1>3
  DEF Next, Threads, ConnectScheduler, CloseBegins, ConnectRobot, UserLogin, UserChangesSong,
      Request, SchedulerLogin, RobotLogin, SetUserInfoLogin, SchedulerSendMessage,
      SetRobotInfo, GetRobotInfo, ClearRobotConnection, DelRobotInfo, DeleteScheduler,
      CloseEnds, GetUserFollowAllRobot

\* In exactly one of the three sets.
OneOf(r, A, B, C) ==
    \/ r \in A /\ r \notin B /\ r \notin C
    \/ r \in B /\ r \notin A /\ r \notin C
    \/ r \in C /\ r \notin A /\ r \notin B

\* The number of maps a robot is in, as RobotInOneMap counts them.
LEMMA OneOfCount ==
    ASSUME NEW r, NEW A, NEW B, NEW C
    PROVE  Cardinality({m \in {1, 2, 3} : r \in <<A, B, C>>[m]}) = 1 <=> OneOf(r, A, B, C)
<1> DEFINE In == {m \in {1, 2, 3} : r \in <<A, B, C>>[m]}
<1>1. /\ 1 \in In <=> r \in A
      /\ 2 \in In <=> r \in B
      /\ 3 \in In <=> r \in C
  OBVIOUS
<1>2. In \subseteq {1, 2, 3} /\ IsFiniteSet(In)
  <2>1. IsFiniteSet(({1} \cup {2}) \cup {3})
    BY FS_Singleton, FS_Union
  <2>2. In \subseteq ({1} \cup {2}) \cup {3}
    OBVIOUS
  <2> QED
    BY <2>1, <2>2, FS_Subset
<1> HIDE DEF In
<1>3. Cardinality(In) = 1 <=> \E m \in {1, 2, 3} : In = {m}
  <2>1. Cardinality(In) = 1 <=> \E m : In = {m}
    BY <1>2, FS_Singleton
  <2>2. \A m : In = {m} => m \in {1, 2, 3}
    BY <1>2
  <2> QED
    BY <2>1, <2>2
<1>4. ASSUME OneOf(r, A, B, C)
      PROVE  \E m \in {1, 2, 3} : In = {m}
  <2>1. CASE 1 \in In
    <3>1. In = {1}
      BY <1>1, <1>2, <1>4, <2>1 DEF OneOf
    <3> QED
      BY <3>1
  <2>2. CASE 2 \in In
    <3>1. In = {2}
      BY <1>1, <1>2, <1>4, <2>2 DEF OneOf
    <3> QED
      BY <3>1
  <2>3. CASE 3 \in In
    <3>1. In = {3}
      BY <1>1, <1>2, <1>4, <2>3 DEF OneOf
    <3> QED
      BY <3>1
  <2> QED
    BY <1>1, <1>4, <2>1, <2>2, <2>3 DEF OneOf
<1>5. ASSUME NEW m \in {1, 2, 3}, In = {m}
      PROVE  OneOf(r, A, B, C)
  <2>1. m = 1 \/ m = 2 \/ m = 3
    OBVIOUS
  <2>2. /\ 1 \in In <=> m = 1
        /\ 2 \in In <=> m = 2
        /\ 3 \in In <=> m = 3
    BY <1>5
  <2> QED
    BY <1>1, <2>1, <2>2 DEF OneOf
<1> QED
  BY <1>3, <1>4, <1>5 DEF In

\* RobotInOneMap without numbers, which is what the steps keep.
InOneMap == ~torn => \A r \in Robots :
    /\ r \in idle_robot_infos \cup temp_robot_infos \cup used_robot_infos
    /\ r \in twice \/ OneOf(r, idle_robot_infos, temp_robot_infos, used_robot_infos)

IInv ==
    /\ TypeOK /\ Shape /\ PacketsKnown /\ Missing
    /\ InOneMap /\ OneClaim
    /\ Connected /\ Live
    /\ WaitingIsExpected /\ UsedIsFollowing

\* Why a client of a robot that waits will come, as WaitingIsExpected lists it.
Noticed(r)  == \E u \in Users : <<u, r>> \in notices
Queued(r)   == \E p \in packets : p.robot = r
Handled(r)  == \E t \in Workers :
    thread[t].pc \in {"user_info", "scheduler_send"} /\ r \in thread[t].robots
Expected(r) == Noticed(r) \/ Queued(r) \/ Handled(r)

LEMMA InOneMapCounts == InOneMap <=> RobotInOneMap
  BY OneOfCount DEF InOneMap, RobotInOneMap, maps

\* What SetRobotInfo writes: the one robot of the thread, or none.
LEMMA Written ==
    ASSUME TypeOK, Shape, Running, NEW t \in Workers, SetRobotInfo(t)
    PROVE  \E s \in Sockets, r \in Robots \cup {NoRobot} :
             /\ thread[t].pc = "set_robot" /\ thread[t].socket = s
             /\ thread[t].robots = {r} \cap Robots
             /\ socket_robot_map' = [socket_robot_map EXCEPT ![s] = r]
             /\ late' = IF Ended(s, thread[t].robots)
                        THEN late \cup ({r, socket_robot_map[s]} \cap Robots) ELSE late
             /\ thread' = [thread EXCEPT ![t] = Idle]
             /\ UNCHANGED <<maps, links, schduler_infos, clients, twice, untold, torn>>
<1> DEFINE s == thread[t].socket
           r == IF thread[t].robots = {} THEN NoRobot ELSE CHOOSE x \in thread[t].robots : TRUE
<1>1. s \in Sockets /\ thread[t].pc = "set_robot"
  BY DEF SetRobotInfo, Shape
<1>2. r \in Robots \cup {NoRobot} /\ thread[t].robots = {r} \cap Robots
  <2>1. CASE thread[t].robots = {}
    BY <2>1, RobotAssumption
  <2>2. CASE thread[t].robots # {}
    <3>1. PICK x \in Robots : thread[t].robots = {x}
      BY <1>1, <2>2 DEF Shape
    <3>2. (CHOOSE y \in thread[t].robots : TRUE) = x
      BY <3>1
    <3> QED
      BY <2>2, <3>1, <3>2
  <2> QED
    BY <2>1, <2>2
<1>3. /\ socket_robot_map' = [socket_robot_map EXCEPT ![s] = r]
      /\ late' = IF Ended(s, thread[t].robots)
                 THEN late \cup ({r, socket_robot_map[s]} \cap Robots) ELSE late
      /\ thread' = [thread EXCEPT ![t] = Idle]
      /\ UNCHANGED <<maps, links, schduler_infos, clients, twice, untold, torn>>
  BY DEF SetRobotInfo, Done
<1> QED
  BY <1>1, <1>2, <1>3

\* What UserChangesSong changes: the robots to move are not in use.
LEMMA SongBegins ==
    ASSUME TypeOK, Shape, NEW t \in Workers, NEW u \in Users, UserChangesSong(t, u)
    PROVE  /\ thread[t] = Idle
           /\ \/ UNCHANGED thread
              \/ \E robots \in SUBSET Robots :
                    /\ robots \cap used_robot_infos = {}
                    /\ thread' = [thread EXCEPT ![t] =
                          [pc |-> "follow", uid |-> u, robots |-> robots, socket |-> NoSocket]]
           /\ requests < MaxRequests /\ requests' = requests + 1
           /\ UNCHANGED <<idle_robot_infos, temp_robot_infos, used_robot_infos,
                          user_follow_infos, user_infos, follow, socket, schduler_infos,
                          socket_robot_map, conn, packets, notices, connects, twice, late,
                          untold>>
           /\ torn => torn'
<1>1. user_follow_infos[u] \ used_robot_infos \subseteq Robots
  BY Types
<1>3. /\ thread[t] = Idle
      /\ requests < MaxRequests /\ requests' = requests + 1
      /\ UNCHANGED <<idle_robot_infos, temp_robot_infos, used_robot_infos,
                     user_follow_infos, user_infos, follow, socket, schduler_infos,
                     socket_robot_map, conn, packets, notices, connects, twice, late,
                     untold>>
  BY DEF UserChangesSong, Request, maps, links
<1>4. \/ UNCHANGED thread
      \/ thread' = [thread EXCEPT ![t] =
            [pc |-> "follow", uid |-> u, robots |-> user_follow_infos[u] \ used_robot_infos,
             socket |-> NoSocket]]
  BY DEF UserChangesSong, Serves
<1>5. torn => torn'
  BY Zenon DEF UserChangesSong
<1> QED
  BY <1>1, <1>3, <1>4, <1>5

\* Every step leaves each thread with what its next step needs.
LEMMA ShapeStep ==
    ASSUME TypeOK, Shape, PacketsKnown, Next
    PROVE  Shape'
<1>1. ASSUME NEW s \in Sockets,
             ConnectScheduler(s)
      PROVE  Shape'
  BY <1>1, Types, StepRuns, RobotAssumption
  DEF ConnectScheduler, Shape, ThreadType, WorkerPcs, NetworkPcs, Threads, Running,
      vars, links, clients, history, maps
<1>2. ASSUME NEW s \in Sockets,
             CloseBegins(s)
      PROVE  Shape'
  BY <1>2, Types, StepRuns, RobotAssumption
  DEF CloseBegins, Idle, Shape, ThreadType, WorkerPcs, NetworkPcs, Threads, Running,
      vars, links, clients, history, maps
<1>3. ASSUME NEW u \in Users, NEW r \in Robots, NEW s \in Sockets,
             ConnectRobot(u, r, s)
      PROVE  Shape'
  BY <1>3, Types, StepRuns, RobotAssumption
  DEF ConnectRobot, Shape, ThreadType, WorkerPcs, NetworkPcs, Threads, Running, vars,
      links, clients, history, maps
<1>4. ASSUME NEW t \in Workers, NEW u \in Users,
             UserLogin(t, u)
      PROVE  Shape'
  <2>1. thread[t] = Idle /\ UNCHANGED conn
    BY <1>4 DEF UserLogin, Request, links
  <2>2. \/ UNCHANGED thread
        \/ \E robots \in SUBSET Robots : thread' = [thread EXCEPT ![t] = Serves("user_info", u, robots)]
    BY <1>4, Types DEF UserLogin
  <2> QED
    BY <2>1, <2>2, Types, StepRuns, RobotAssumption
    DEF Serves, Shape, ThreadType, WorkerPcs, NetworkPcs, Threads, Running
<1>5. ASSUME NEW t \in Workers, NEW u \in Users,
             UserChangesSong(t, u)
      PROVE  Shape'
  <2>1. UNCHANGED conn /\ thread[t] = Idle
    BY <1>5, SongBegins
  <2>2. \/ UNCHANGED thread
        \/ \E robots \in SUBSET Robots :
              thread' = [thread EXCEPT ![t] =
                [pc |-> "follow", uid |-> u, robots |-> robots, socket |-> NoSocket]]
    BY <1>5, SongBegins
  <2> QED
    BY <2>1, <2>2, Types, StepRuns, RobotAssumption
    DEF Shape, ThreadType, WorkerPcs, NetworkPcs, Threads, Running
<1>6. ASSUME NEW t \in Workers, NEW p \in packets,
             SchedulerLogin(t, p)
      PROVE  Shape'
  BY <1>6, Types, StepRuns, RobotAssumption
  DEF SchedulerLogin, Idle, Shape, ThreadType, WorkerPcs, NetworkPcs, Threads, Running,
      vars, links, clients, history, maps
<1>7. ASSUME NEW t \in Workers, NEW p \in packets,
             RobotLogin(t, p)
      PROVE  Shape'
  <2>1. /\ thread[t] = Idle /\ UNCHANGED conn
        /\ p.robot \in Robots /\ p.uid \in Users /\ p.socket \in Sockets
    BY <1>7, Types DEF RobotLogin, PacketsKnown
  <2>2. PICK robots \in {{}, {p.robot}} :
          thread' = [thread EXCEPT ![t] =
            [pc |-> "set_robot", uid |-> p.uid, socket |-> p.socket, robots |-> robots]]
    BY <1>7 DEF RobotLogin
  <2> QED
    BY <2>1, <2>2, Types, StepRuns, RobotAssumption
    DEF Shape, ThreadType, WorkerPcs, NetworkPcs, Threads, Running
<1>8. ASSUME NEW t \in Workers,
             SetUserInfoLogin(t)
      PROVE  Shape'
  BY <1>8, Types, StepRuns, RobotAssumption
  DEF SetUserInfoLogin, Changed, Goto, Shape, ThreadType, WorkerPcs, NetworkPcs, Threads,
      Running, vars, links, clients, history, maps
<1>9. ASSUME NEW t \in Workers,
             SchedulerSendMessage(t)
      PROVE  Shape'
  BY <1>9, Types, StepRuns, RobotAssumption
  DEF SchedulerSendMessage, Notify, Done, Idle, Shape, ThreadType, WorkerPcs,
      NetworkPcs, Threads, Running, vars, links, clients, history, maps
<1>10. ASSUME NEW t \in Workers,
             SetRobotInfo(t)
      PROVE  Shape'
  BY <1>10, Types, StepRuns, RobotAssumption
  DEF SetRobotInfo, Done, Idle, Ended, Shape, ThreadType, WorkerPcs, NetworkPcs,
      Threads, Running, vars, links, clients, history, maps
<1>11. CASE GetRobotInfo
  BY <1>11, Types, StepRuns, RobotAssumption
  DEF GetRobotInfo, Shape, ThreadType, WorkerPcs, NetworkPcs, Threads, Running, vars,
      links, clients, history, maps
<1>12. CASE ClearRobotConnection
  BY <1>12, Types, StepRuns, RobotAssumption
  DEF ClearRobotConnection, ClearRobot, Changed, Goto, Shape, ThreadType, WorkerPcs, NetworkPcs,
      Threads, Running, vars, links, clients, history, maps
<1>13. CASE DelRobotInfo
  BY <1>13, Types, StepRuns, RobotAssumption
  DEF DelRobotInfo, Goto, Shape, ThreadType, WorkerPcs, NetworkPcs, Threads, Running,
      vars, links, clients, history, maps
<1>14. CASE DeleteScheduler
  BY <1>14, Types, StepRuns, RobotAssumption
  DEF DeleteScheduler, Goto, Shape, ThreadType, WorkerPcs, NetworkPcs, Threads, Running,
      vars, links, clients, history, maps
<1>15. CASE CloseEnds
  BY <1>15, Types, StepRuns, RobotAssumption
  DEF CloseEnds, Done, Idle, Shape, ThreadType, WorkerPcs, NetworkPcs, Threads, Running,
      vars, links, clients, history, maps
<1>16. ASSUME NEW t \in Workers,
             GetUserFollowAllRobot(t)
      PROVE  Shape'
  <2>1. thread[t].pc = "follow" /\ UNCHANGED conn /\ Running
    BY <1>16, StepRuns DEF GetUserFollowAllRobot
  <2>2. CASE Done(t)
    BY <2>1, <2>2, Types, RobotAssumption
    DEF Done, Idle, Shape, ThreadType, WorkerPcs, NetworkPcs, Threads, Running
  <2>3. CASE thread' = [x \in Threads |-> [Idle EXCEPT !.pc = "crashed"]]
    <3>1. \A x \in Threads : thread'[x] = [Idle EXCEPT !.pc = "crashed"]
      BY <2>3
    <3>2. [Idle EXCEPT !.pc = "crashed"] \in ThreadType
      BY DEF Idle, ThreadType
    <3>3. \A x \in Threads : thread'[x].pc = "crashed"
      BY <3>1 DEF Idle
    <3>4. ~Running' /\ thread' \in [Threads -> ThreadType]
      BY <2>3, <3>2, <3>3 DEF Running, Threads
    <3> QED
      BY <3>3, <3>4 DEF Shape
  <2> QED
    BY <1>16, <2>2, <2>3 DEF GetUserFollowAllRobot
<1> QED
  BY <1>1, <1>2, <1>3, <1>4, <1>5, <1>6, <1>7, <1>8, <1>9, <1>10, <1>11, <1>12, <1>13, <1>14, <1>15,
     <1>16
  DEF Next

-----------------------------------------------------------------------------
(* Every step keeps each part of the invariant *)

\* Every step keeps the types, and a log-in always names its user.
LEMMA DataStep ==
    ASSUME TypeOK, Shape, PacketsKnown, Next
    PROVE  DataOK' /\ PacketsKnown'
<1>1. ASSUME NEW s \in Sockets,
             ConnectScheduler(s)
      PROVE  DataOK' /\ PacketsKnown'
  BY <1>1, Types, RobotAssumption
  DEF ConnectScheduler, TypeOK, DataOK, PacketsKnown, vars, links, clients, history,
      maps
<1>2. ASSUME NEW s \in Sockets,
             CloseBegins(s)
      PROVE  DataOK' /\ PacketsKnown'
  BY <1>2, Types, RobotAssumption
  DEF CloseBegins, Idle, TypeOK, DataOK, PacketsKnown, vars, links, clients, history,
      maps
<1>3. ASSUME NEW u \in Users, NEW r \in Robots, NEW s \in Sockets,
             ConnectRobot(u, r, s)
      PROVE  DataOK' /\ PacketsKnown'
  BY <1>3, Types, RobotAssumption
  DEF ConnectRobot, TypeOK, DataOK, PacketsKnown, vars, links, clients, history, maps
<1>4. ASSUME NEW t \in Workers, NEW u \in Users,
             UserLogin(t, u)
      PROVE  DataOK' /\ PacketsKnown'
  BY <1>4, Types, RobotAssumption
  DEF UserLogin, Request, GetIdleRobot, Changed, Serves, Idle, TypeOK, DataOK, PacketsKnown,
      vars, links, clients, history, maps
<1>5. ASSUME NEW t \in Workers, NEW u \in Users,
             UserChangesSong(t, u)
      PROVE  DataOK' /\ PacketsKnown'
  <2>1. torn' \in BOOLEAN
    BY <1>5 DEF UserChangesSong, TypeOK, DataOK
  <2>2. requests' \in 0..MaxRequests
    BY <1>5, SongBegins, RobotAssumption DEF TypeOK, DataOK, RobotAssumption
  <2> QED
    BY <1>5, <2>1, <2>2, SongBegins DEF TypeOK, DataOK, PacketsKnown
<1>6. ASSUME NEW t \in Workers, NEW p \in packets,
             SchedulerLogin(t, p)
      PROVE  DataOK' /\ PacketsKnown'
  BY <1>6, Types, RobotAssumption
  DEF SchedulerLogin, Idle, TypeOK, DataOK, PacketsKnown, vars, links, clients, history,
      maps
<1>7. ASSUME NEW t \in Workers, NEW p \in packets,
             RobotLogin(t, p)
      PROVE  DataOK' /\ PacketsKnown'
  BY <1>7, Types, RobotAssumption
  DEF RobotLogin, RobotLoginSucess, Changed, Idle, TypeOK, DataOK, PacketsKnown, vars, links,
      clients, history, maps
<1>8. ASSUME NEW t \in Workers,
             SetUserInfoLogin(t)
      PROVE  DataOK' /\ PacketsKnown'
  <2>1. thread[t].uid \in Users
    BY <1>8, StepRuns DEF SetUserInfoLogin, Shape
  <2> QED
    BY <1>8, <2>1 DEF SetUserInfoLogin, Changed, TypeOK, DataOK, PacketsKnown, clients, history, maps
<1>9. ASSUME NEW t \in Workers,
             SchedulerSendMessage(t)
      PROVE  DataOK' /\ PacketsKnown'
  <2>1. thread[t].uid \in Users /\ thread[t].robots \subseteq Robots
    BY <1>9, StepRuns DEF SchedulerSendMessage, Shape, TypeOK, Threads
  <2> QED
    BY <1>9, <2>1
    DEF SchedulerSendMessage, Notify, TypeOK, DataOK, PacketsKnown, links, maps
<1>10. ASSUME NEW t \in Workers,
             SetRobotInfo(t)
      PROVE  DataOK' /\ PacketsKnown'
  <2>1. PICK s \in Sockets, r \in Robots \cup {NoRobot} :
          /\ socket_robot_map' = [socket_robot_map EXCEPT ![s] = r]
          /\ late' \in {late, late \cup ({r, socket_robot_map[s]} \cap Robots)}
          /\ UNCHANGED <<maps, links, schduler_infos, clients, twice, untold, torn>>
    BY <1>10, Written, StepRuns
  <2> QED
    BY <2>1 DEF TypeOK, DataOK, PacketsKnown, links, clients, maps
<1>11. CASE GetRobotInfo
  BY <1>11, Types, RobotAssumption
  DEF GetRobotInfo, TypeOK, DataOK, PacketsKnown, vars, links, clients, history, maps
<1>12. CASE ClearRobotConnection
  <2>1. PICK r \in Robots : ClearRobot(r)
    BY <1>12, StepRuns DEF ClearRobotConnection, Shape
  <2> QED
    BY <1>12, <2>1
    DEF ClearRobotConnection, ClearRobot, Changed, TypeOK, DataOK, PacketsKnown, clients, history
<1>13. CASE DelRobotInfo
  BY <1>13, Types, RobotAssumption
  DEF DelRobotInfo, Goto, TypeOK, DataOK, PacketsKnown, vars, links, clients, history,
      maps
<1>14. CASE DeleteScheduler
  BY <1>14, Types, RobotAssumption
  DEF DeleteScheduler, Goto, TypeOK, DataOK, PacketsKnown, vars, links, clients,
      history, maps
<1>15. CASE CloseEnds
  <2>1. /\ notices' \subseteq notices
        /\ untold' \subseteq untold \cup {n[2] : n \in notices}
    BY <1>15 DEF CloseEnds
  <2>2. \A n \in notices : n[2] \in Robots
    BY Types
  <2>3. notices' \subseteq Users \X Robots /\ untold' \subseteq Robots
    BY <2>1, <2>2, Types
  <2>4. conn' \in [Sockets -> Robots \cup {Scheduler, NoRobot}]
    BY <1>15, Types DEF CloseEnds
  <2> QED
    BY <1>15, <2>3, <2>4 DEF CloseEnds, TypeOK, DataOK, PacketsKnown, links, maps
<1>16. ASSUME NEW t \in Workers,
             GetUserFollowAllRobot(t)
      PROVE  DataOK' /\ PacketsKnown'
  <2>1. thread[t].uid \in Users /\ thread[t].robots \subseteq Robots
    BY <1>16, StepRuns DEF GetUserFollowAllRobot, Shape, TypeOK, Threads
  <2> QED
    BY <1>16, <2>1
    DEF GetUserFollowAllRobot, CheckUserFollow, Changed, Notify, TypeOK, DataOK, PacketsKnown
<1> QED
  BY <1>1, <1>2, <1>3, <1>4, <1>5, <1>6, <1>7, <1>8, <1>9, <1>10, <1>11, <1>12, <1>13, <1>14, <1>15,
     <1>16
  DEF Next

\* A worker begins to move robots only with a song change.
LEMMA Begins ==
    ASSUME TypeOK, Shape, Next, NEW t \in Workers,
           thread'[t].pc = "follow", thread'[t] # thread[t]
    PROVE  \E u \in Users : UserChangesSong(t, u)
<1> SUFFICES ASSUME \A u \in Users : ~UserChangesSong(t, u)
             PROVE  FALSE
  OBVIOUS
<1>1. thread \in [Threads -> ThreadType] /\ t \in Threads /\ t # Network
  BY Types, RobotAssumption DEF Threads
<1>2. ASSUME NEW x \in Threads, NEW f, f.pc # "follow", thread' = [thread EXCEPT ![x] = f]
      PROVE  FALSE
  BY <1>1, <1>2
<1>3. ~UNCHANGED thread
  OBVIOUS
<1>4. Idle.pc # "follow"
  BY DEF Idle
<1>5. \A x \in Threads : ~Done(x)
  <2> SUFFICES ASSUME NEW x \in Threads, Done(x) PROVE FALSE
    OBVIOUS
  <2>1. thread' = [thread EXCEPT ![x] = Idle]
    BY DEF Done
  <2> QED
    BY <1>2, <1>4, <2>1
<1>6. \A pc \in WorkerPcs \ {"follow"} : ~Goto(t, pc)
  BY <1>1 DEF Goto, WorkerPcs, ThreadType
<1>7. \A x \in Threads : \A pc : x # t => ~Goto(x, pc)
  BY <1>1 DEF Goto
<1>8. \A u \in Users, x \in Workers : ~UserChangesSong(x, u)
  BY <1>1, <1>3 DEF UserChangesSong, Threads
<1>9. \A x \in Workers, u \in Users : ~UserLogin(x, u)
  BY <1>2, <1>3 DEF UserLogin, Serves, Threads
<1>10. \A x \in Workers, p \in packets : ~SchedulerLogin(x, p) /\ ~RobotLogin(x, p)
  BY <1>2, <1>3 DEF SchedulerLogin, RobotLogin, Threads
<1>11. \A x \in Workers : ~SetUserInfoLogin(x) /\ ~SchedulerSendMessage(x) /\ ~SetRobotInfo(x)
  BY <1>5, <1>6, <1>7 DEF SetUserInfoLogin, SchedulerSendMessage, SetRobotInfo, Threads, WorkerPcs
<1>12. \A x \in Workers : ~GetUserFollowAllRobot(x)
  BY <1>1, <1>5 DEF GetUserFollowAllRobot, Idle, Threads
<1>13. ~GetRobotInfo
  BY <1>1 DEF GetRobotInfo
<1>14. ~ClearRobotConnection /\ ~DelRobotInfo /\ ~DeleteScheduler /\ ~CloseEnds
  BY <1>1, <1>5, <1>7 DEF ClearRobotConnection, DelRobotInfo, DeleteScheduler, CloseEnds, Threads
<1>15. \A s \in Sockets : ~ConnectScheduler(s) /\ ~CloseBegins(s)
  BY <1>1, <1>3 DEF ConnectScheduler, CloseBegins
<1>16. \A u \in Users, r \in Robots, s \in Sockets : ~ConnectRobot(u, r, s)
  BY <1>3 DEF ConnectRobot
<1> QED
  BY <1>8, <1>9, <1>10, <1>11, <1>12, <1>13, <1>14, <1>15, <1>16 DEF Next

\* While a song change moves robots, none comes into use or leaves it.
LEMMA MissingStep ==
    ASSUME TypeOK, Shape, Missing, Next
    PROVE  Missing'
<1> SUFFICES ASSUME NEW t \in Workers, thread'[t].pc = "follow"
             PROVE  thread'[t].robots \cap used_robot_infos' = {}
  BY DEF Missing
<1>1. CASE thread'[t] = thread[t]
  <2>1. Moving # {} /\ thread[t].robots \cap used_robot_infos = {}
    BY <1>1 DEF Moving, Missing
  <2>2. UNCHANGED used_robot_infos
    BY <2>1
    DEF Next, ConnectScheduler, CloseBegins, ConnectRobot, UserLogin, UserChangesSong,
        SchedulerLogin, RobotLogin, SetUserInfoLogin, SchedulerSendMessage, SetRobotInfo,
        GetUserFollowAllRobot, CheckUserFollow, GetRobotInfo, ClearRobotConnection,
        DelRobotInfo, DeleteScheduler, CloseEnds, GetIdleRobot, maps
  <2> QED
    BY <1>1, <2>1, <2>2
<1>2. CASE thread'[t] # thread[t]
  <2>1. PICK u \in Users : UserChangesSong(t, u)
    BY <1>2, Begins
  <2> QED
    BY <1>2, <2>1, SongBegins, Types DEF Threads
<1> QED
  BY <1>1, <1>2

\* The maps are changed by GetRobot (idle to temporary), RobotLoginSucess,
\* CheckUserFollowAllRobot (only of robots not in use) and ClearRobot, whose
\* robot is in use by OneClaim.
LEMMA InOneMapStep ==
    ASSUME IInv, Next, Shape'
    PROVE  InOneMap'
<1>0. Running
  BY StepRuns DEF IInv
<1>1. ASSUME NEW s \in Sockets,
             ConnectScheduler(s)
      PROVE  InOneMap'
  BY <1>1, <1>0, Types, RobotAssumption
  DEF ConnectScheduler, IInv, InOneMap, OneOf, OneClaim, Clearing, Shape, Running, maps,
      links, clients, history
<1>2. ASSUME NEW s \in Sockets,
             CloseBegins(s)
      PROVE  InOneMap'
  BY <1>2, <1>0, Types, RobotAssumption
  DEF CloseBegins, Idle, IInv, InOneMap, OneOf, OneClaim, Clearing, Shape, Running,
      maps, links, clients, history
<1>3. ASSUME NEW u \in Users, NEW r \in Robots, NEW s \in Sockets,
             ConnectRobot(u, r, s)
      PROVE  InOneMap'
  BY <1>3, <1>0, Types, RobotAssumption
  DEF ConnectRobot, IInv, InOneMap, OneOf, OneClaim, Clearing, Shape, Running, maps,
      links, clients, history
<1>4. ASSUME NEW t \in Workers, NEW u \in Users,
             UserLogin(t, u)
      PROVE  InOneMap'
  BY <1>4, <1>0, Types, RobotAssumption
  DEF UserLogin, Request, GetIdleRobot, Changed, Serves, Idle, IInv, InOneMap, OneOf, OneClaim,
      Clearing, Shape, Running, maps, links, clients, history
<1>5. ASSUME NEW t \in Workers, NEW u \in Users,
             UserChangesSong(t, u)
      PROVE  InOneMap'
  BY <1>5, SongBegins DEF IInv, InOneMap, OneOf
<1>6. ASSUME NEW t \in Workers, NEW p \in packets,
             SchedulerLogin(t, p)
      PROVE  InOneMap'
  BY <1>6, <1>0, Types, RobotAssumption
  DEF SchedulerLogin, Idle, IInv, InOneMap, OneOf, OneClaim, Clearing, Shape, Running,
      maps, links, clients, history
<1>7. ASSUME NEW t \in Workers, NEW p \in packets,
             RobotLogin(t, p)
      PROVE  InOneMap'
  BY <1>7, <1>0, Types, RobotAssumption
  DEF RobotLogin, RobotLoginSucess, Changed, Idle, IInv, InOneMap, OneOf, OneClaim, Clearing,
      Shape, Running, maps, links, clients, history
<1>8. ASSUME NEW t \in Workers,
             SetUserInfoLogin(t)
      PROVE  InOneMap'
  BY <1>8, <1>0, Types, RobotAssumption
  DEF SetUserInfoLogin, Changed, Goto, IInv, InOneMap, OneOf, OneClaim, Clearing, Shape, Running,
      maps, links, clients, history
<1>9. ASSUME NEW t \in Workers,
             SchedulerSendMessage(t)
      PROVE  InOneMap'
  BY <1>9, <1>0, Types, RobotAssumption
  DEF SchedulerSendMessage, Notify, Done, Idle, IInv, InOneMap, OneOf, OneClaim,
      Clearing, Shape, Running, maps, links, clients, history
<1>10. ASSUME NEW t \in Workers,
             SetRobotInfo(t)
      PROVE  InOneMap'
  BY <1>10, <1>0, Types, RobotAssumption
  DEF SetRobotInfo, Done, Idle, Ended, IInv, InOneMap, OneOf, OneClaim, Clearing, Shape,
      Running, maps, links, clients, history
<1>11. CASE GetRobotInfo
  BY <1>11, <1>0, Types, RobotAssumption
  DEF GetRobotInfo, IInv, InOneMap, OneOf, OneClaim, Clearing, Shape, Running, maps,
      links, clients, history
<1>12. CASE ClearRobotConnection
  BY <1>12, <1>0, Types, RobotAssumption
  DEF ClearRobotConnection, ClearRobot, Changed, Goto, IInv, InOneMap, OneOf, OneClaim, Clearing,
      Shape, Running, maps, links, clients, history
<1>13. CASE DelRobotInfo
  BY <1>13, <1>0, Types, RobotAssumption
  DEF DelRobotInfo, Goto, IInv, InOneMap, OneOf, OneClaim, Clearing, Shape, Running,
      maps, links, clients, history
<1>14. CASE DeleteScheduler
  BY <1>14, <1>0, Types, RobotAssumption
  DEF DeleteScheduler, Goto, IInv, InOneMap, OneOf, OneClaim, Clearing, Shape, Running,
      maps, links, clients, history
<1>15. CASE CloseEnds
  BY <1>15, <1>0, Types, RobotAssumption
  DEF CloseEnds, Done, Idle, IInv, InOneMap, OneOf, OneClaim, Clearing, Shape, Running,
      maps, links, clients, history
<1>16. ASSUME NEW t \in Workers,
             GetUserFollowAllRobot(t)
      PROVE  InOneMap'
  <2>1. thread[t].robots \subseteq Robots /\ thread[t].robots \cap used_robot_infos = {}
    BY <1>16, Types DEF IInv, Missing, GetUserFollowAllRobot, TypeOK, Threads
  <2> QED
    BY <1>16, <2>1
    DEF GetUserFollowAllRobot, CheckUserFollow, Changed, IInv, InOneMap, OneOf
<1> QED
  BY <1>1, <1>2, <1>3, <1>4, <1>5, <1>6, <1>7, <1>8, <1>9, <1>10, <1>11, <1>12, <1>13, <1>14, <1>15,
     <1>16
  DEF Next

\* A claim arises when a robot that was not in use logs in; it moves from the
\* log-in to the entry and from the entry to the end of the connection.
LEMMA OneClaimStep ==
    ASSUME IInv, Next, Shape'
    PROVE  OneClaim'
<1>0. Running
  BY StepRuns DEF IInv
<1>1. ASSUME NEW s \in Sockets,
             ConnectScheduler(s)
      PROVE  OneClaim'
  BY <1>1, <1>0, Types, RobotAssumption
  DEF ConnectScheduler, IInv, OneClaim, Entry, Pending, Clearing, Closing, Shape,
      Running, Threads, ThreadType, maps, links, clients, history
<1>2. ASSUME NEW s \in Sockets,
             CloseBegins(s)
      PROVE  OneClaim'
  BY <1>2, <1>0, Types, RobotAssumption
  DEF CloseBegins, Idle, IInv, OneClaim, Entry, Pending, Clearing, Closing, Shape,
      Running, Threads, ThreadType, maps, links, clients, history
<1>3. ASSUME NEW u \in Users, NEW r \in Robots, NEW s \in Sockets,
             ConnectRobot(u, r, s)
      PROVE  OneClaim'
  BY <1>3, <1>0, Types, RobotAssumption
  DEF ConnectRobot, IInv, OneClaim, Entry, Pending, Clearing, Closing, Shape, Running,
      Threads, ThreadType, maps, links, clients, history
<1>4. ASSUME NEW t \in Workers, NEW u \in Users,
             UserLogin(t, u)
      PROVE  OneClaim'
  BY <1>4, <1>0, Types, RobotAssumption
  DEF UserLogin, Request, GetIdleRobot, Changed, Serves, Idle, IInv, OneClaim, Entry, Pending,
      Clearing, Closing, Shape, Running, Threads, ThreadType, maps, links, clients,
      history
<1>5. ASSUME NEW t \in Workers, NEW u \in Users,
             UserChangesSong(t, u)
      PROVE  OneClaim'
  <2>1. /\ thread \in [Threads -> ThreadType] /\ t \in Threads /\ t # Network
        /\ UNCHANGED <<used_robot_infos, twice, socket_robot_map>>
    BY <1>5, SongBegins, Types, RobotAssumption DEF IInv, Threads, RobotAssumption
  <2>2. \/ UNCHANGED thread
        \/ \E f : f.pc = "follow" /\ thread' = [thread EXCEPT ![t] = f]
    BY <1>5, SongBegins DEF IInv
  <2>3. \A r \in Robots, w \in Workers : Pending(r, w)' => Pending(r, w)
    BY <2>1, <2>2 DEF Pending, Threads
  <2>4. /\ \A r \in Robots, x \in Sockets : Entry(r, x)' => Entry(r, x)
        /\ \A r \in Robots : Clearing(r)' => Clearing(r)
    <3>1. thread'[Network] = thread[Network]
      BY <2>1, <2>2 DEF Threads
    <3> QED
      BY <2>1, <3>1 DEF Entry, Closing, Clearing
  <2>5. OneClaim /\ Running /\ used_robot_infos' = used_robot_infos /\ twice' = twice
    BY <1>0, <2>1 DEF IInv
  <2> QED
    BY <2>3, <2>4, <2>5 DEF OneClaim
<1>6. ASSUME NEW t \in Workers, NEW p \in packets,
             SchedulerLogin(t, p)
      PROVE  OneClaim'
  BY <1>6, <1>0, Types, RobotAssumption
  DEF SchedulerLogin, Idle, IInv, OneClaim, Entry, Pending, Clearing, Closing, Shape,
      Running, Threads, ThreadType, maps, links, clients, history
<1>7. ASSUME NEW t \in Workers, NEW p \in packets,
             RobotLogin(t, p)
      PROVE  OneClaim'
  BY <1>7, <1>0, Types, RobotAssumption
  DEF RobotLogin, RobotLoginSucess, Changed, Idle, IInv, OneClaim, Entry, Pending, Clearing,
      Closing, Shape, Running, Threads, ThreadType, maps, links, clients, history
<1>8. ASSUME NEW t \in Workers,
             SetUserInfoLogin(t)
      PROVE  OneClaim'
  BY <1>8, <1>0, Types, RobotAssumption
  DEF SetUserInfoLogin, Changed, Goto, IInv, OneClaim, Entry, Pending, Clearing, Closing, Shape,
      Running, Threads, ThreadType, maps, links, clients, history
<1>9. ASSUME NEW t \in Workers,
             SchedulerSendMessage(t)
      PROVE  OneClaim'
  <2>1. /\ thread \in [Threads -> ThreadType] /\ t \in Threads /\ t # Network
        /\ thread' = [thread EXCEPT ![t] = Idle]
        /\ UNCHANGED <<used_robot_infos, twice, socket_robot_map>>
    BY <1>9, Types, RobotAssumption
    DEF IInv, SchedulerSendMessage, Done, Threads, RobotAssumption, maps
  <2>2. \A r \in Robots, w \in Workers : Pending(r, w)' => Pending(r, w)
    BY <2>1 DEF Pending, Idle, Threads
  <2>3. /\ \A r \in Robots, x \in Sockets : Entry(r, x)' => Entry(r, x)
        /\ \A r \in Robots : Clearing(r)' => Clearing(r)
    BY <2>1 DEF Entry, Closing, Clearing
  <2> QED
    BY <1>0, <2>1, <2>2, <2>3 DEF IInv, OneClaim
<1>10. ASSUME NEW t \in Workers,
             SetRobotInfo(t)
      PROVE  OneClaim'
  <2> DEFINE s == thread[t].socket
             r == IF thread[t].robots = {} THEN NoRobot ELSE CHOOSE x \in thread[t].robots : TRUE
  <2>1. /\ thread \in [Threads -> ThreadType] /\ t \in Threads /\ t # Network
        /\ thread' = [thread EXCEPT ![t] = Idle] /\ thread[t].pc = "set_robot"
        /\ socket_robot_map \in [Sockets -> Robots \cup {NoRobot}]
        /\ socket_robot_map' = [socket_robot_map EXCEPT ![s] = r]
        /\ UNCHANGED <<used_robot_infos, twice>>
    BY <1>10, Types, RobotAssumption
    DEF IInv, SetRobotInfo, Done, Threads, RobotAssumption, maps
  <2>2. \A y \in Robots, w \in Workers : Pending(y, w)' => w # t /\ Pending(y, w)
    BY <2>1 DEF Pending, Idle, Threads
  <2>3. /\ \A y \in Robots : Clearing(y)' => Clearing(y)
        /\ \A x : Closing(x, {"clear", "del_robot"})' <=> Closing(x, {"clear", "del_robot"})
    BY <2>1 DEF Closing, Clearing
  <2>4. r \in Robots => Pending(r, t)
    BY <2>1, RobotAssumption DEF Pending, RobotAssumption
  <2> HIDE DEF r
  <2>5. \A y \in Robots, x \in Sockets :
           Entry(y, x)' => (x # s /\ Entry(y, x)) \/ (x = s /\ Pending(y, t))
    <3> TAKE y \in Robots, x \in Sockets
    <3>1. CASE x = s
      <4>1. socket_robot_map'[x] = r
        BY <2>1, <3>1
      <4> QED
        BY <2>4, <3>1, <4>1 DEF Entry
    <3>2. CASE x # s
      <4>1. socket_robot_map'[x] = socket_robot_map[x]
        BY <2>1, <3>2
      <4> QED
        BY <2>3, <3>2, <4>1 DEF Entry
    <3> QED
      BY <3>1, <3>2
  <2> HIDE DEF s
  <2> SUFFICES ASSUME NEW y \in Robots \ twice
               PROVE  /\ \A a \in Sockets : Entry(y, a)' =>
                           /\ y \in used_robot_infos
                           /\ \A x \in Sockets : Entry(y, x)' => x = a
                           /\ \A w \in Workers : ~Pending(y, w)'
                           /\ ~Clearing(y)'
                      /\ \A w \in Workers : Pending(y, w)' =>
                           /\ y \in used_robot_infos
                           /\ \A x \in Workers : Pending(y, x)' => x = w
                           /\ ~Clearing(y)'
                      /\ Clearing(y)' => y \in used_robot_infos
    BY <2>1 DEF OneClaim
  <2>6. /\ \A a \in Sockets : Entry(y, a) =>
             /\ y \in used_robot_infos
             /\ \A x \in Sockets : Entry(y, x) => x = a
             /\ \A w \in Workers : ~Pending(y, w)
             /\ ~Clearing(y)
        /\ \A w \in Workers : Pending(y, w) =>
             /\ y \in used_robot_infos
             /\ \A x \in Workers : Pending(y, x) => x = w
             /\ ~Clearing(y)
        /\ Clearing(y) => y \in used_robot_infos
    BY <1>0 DEF IInv, OneClaim
  <2>7. /\ \A w \in Workers : Pending(y, w)' => w # t /\ Pending(y, w)
        /\ \A x \in Sockets : Entry(y, x)' => (x # s /\ Entry(y, x)) \/ (x = s /\ Pending(y, t))
        /\ Clearing(y)' => Clearing(y)
    BY <2>2, <2>3, <2>5
  <2>8. ASSUME NEW a \in Sockets, Entry(y, a)'
        PROVE  /\ y \in used_robot_infos
               /\ \A x \in Sockets : Entry(y, x)' => x = a
               /\ \A w \in Workers : ~Pending(y, w)'
               /\ ~Clearing(y)'
    BY <2>6, <2>7, <2>8
  <2>9. ASSUME NEW w \in Workers, Pending(y, w)'
        PROVE  /\ y \in used_robot_infos
               /\ \A x \in Workers : Pending(y, x)' => x = w
               /\ ~Clearing(y)'
    BY <2>6, <2>7, <2>9
  <2>10. Clearing(y)' => y \in used_robot_infos
    BY <2>6, <2>7
  <2> QED
    BY <2>8, <2>9, <2>10, Zenon
<1>11. CASE GetRobotInfo
  BY <1>11, <1>0, Types, RobotAssumption
  DEF GetRobotInfo, IInv, OneClaim, Entry, Pending, Clearing, Closing, Shape, Running,
      Threads, ThreadType, maps, links, clients, history
<1>12. CASE ClearRobotConnection
  BY <1>12, <1>0, Types, RobotAssumption
  DEF ClearRobotConnection, ClearRobot, Changed, Goto, IInv, OneClaim, Entry, Pending, Clearing,
      Closing, Shape, Running, Threads, ThreadType, maps, links, clients, history
<1>13. CASE DelRobotInfo
  BY <1>13, <1>0, Types, RobotAssumption
  DEF DelRobotInfo, Goto, IInv, OneClaim, Entry, Pending, Clearing, Closing, Shape,
      Running, Threads, ThreadType, maps, links, clients, history
<1>14. CASE DeleteScheduler
  BY <1>14, <1>0, Types, RobotAssumption
  DEF DeleteScheduler, Goto, IInv, OneClaim, Entry, Pending, Clearing, Closing, Shape,
      Running, Threads, ThreadType, maps, links, clients, history
<1>15. CASE CloseEnds
  BY <1>15, <1>0, Types, RobotAssumption
  DEF CloseEnds, Done, Idle, IInv, OneClaim, Entry, Pending, Clearing, Closing, Shape,
      Running, Threads, ThreadType, maps, links, clients, history
<1>16. ASSUME NEW t \in Workers,
             GetUserFollowAllRobot(t)
      PROVE  OneClaim'
  <2>1. /\ thread \in [Threads -> ThreadType] /\ t \in Threads /\ t # Network
        /\ UNCHANGED <<used_robot_infos, twice, socket_robot_map>>
    BY <1>16, Types, RobotAssumption
    DEF IInv, GetUserFollowAllRobot, CheckUserFollow, Threads, RobotAssumption
  <2>2. Running' => thread' = [thread EXCEPT ![t] = Idle]
    BY <1>16 DEF GetUserFollowAllRobot, Running, Threads, Idle, Done
  <2> SUFFICES ASSUME thread' = [thread EXCEPT ![t] = Idle]
               PROVE  OneClaim'
    BY <2>2 DEF OneClaim
  <2>3. \A r \in Robots, w \in Workers : Pending(r, w)' => Pending(r, w)
    BY <2>1 DEF Pending, Idle, Threads
  <2>4. /\ \A r \in Robots, x \in Sockets : Entry(r, x)' => Entry(r, x)
        /\ \A r \in Robots : Clearing(r)' => Clearing(r)
    BY <2>1 DEF Entry, Closing, Clearing
  <2> QED
    BY <1>0, <2>1, <2>3, <2>4 DEF IInv, OneClaim
<1> QED
  BY <1>1, <1>2, <1>3, <1>4, <1>5, <1>6, <1>7, <1>8, <1>9, <1>10, <1>11, <1>12, <1>13, <1>14, <1>15,
     <1>16
  DEF Next

\* A robot in use keeps its descriptor until the end of that connection frees
\* it; an entry written over it is one of a late packet.
LEMMA ConnectedStep ==
    ASSUME IInv, Next, Shape'
    PROVE  Connected'
<1>0. Running
  BY StepRuns DEF IInv
<1>1. ASSUME NEW s \in Sockets,
             ConnectScheduler(s)
      PROVE  Connected'
  BY <1>1, <1>0, Types, RobotAssumption
  DEF ConnectScheduler, IInv, Connected, OneClaim, Settled, Entry, Pending, Clearing,
      Closing, Shape, Running, Threads, ThreadType, maps, links, clients, history
<1>2. ASSUME NEW s \in Sockets,
             CloseBegins(s)
      PROVE  Connected'
  BY <1>2, <1>0, Types, RobotAssumption
  DEF CloseBegins, Idle, IInv, Connected, OneClaim, Settled, Entry, Pending, Clearing,
      Closing, Shape, Running, Threads, ThreadType, maps, links, clients, history
<1>3. ASSUME NEW u \in Users, NEW r \in Robots, NEW s \in Sockets,
             ConnectRobot(u, r, s)
      PROVE  Connected'
  BY <1>3, <1>0, Types, RobotAssumption
  DEF ConnectRobot, IInv, Connected, OneClaim, Settled, Entry, Pending, Clearing,
      Closing, Shape, Running, Threads, ThreadType, maps, links, clients, history
<1>4. ASSUME NEW t \in Workers, NEW u \in Users,
             UserLogin(t, u)
      PROVE  Connected'
  BY <1>4, <1>0, Types, RobotAssumption
  DEF UserLogin, Request, GetIdleRobot, Changed, Serves, Idle, IInv, Connected, OneClaim,
      Settled, Entry, Pending, Clearing, Closing, Shape, Running, Threads, ThreadType,
      maps, links, clients, history
<1>5. ASSUME NEW t \in Workers, NEW u \in Users,
             UserChangesSong(t, u)
      PROVE  Connected'
  BY <1>5, <1>0, Types, RobotAssumption
  DEF UserChangesSong, Request, Idle, IInv, Connected,
      OneClaim, Settled, Entry, Pending, Clearing, Closing, Shape, Running, Threads,
      ThreadType, maps, links, clients, history
<1>6. ASSUME NEW t \in Workers, NEW p \in packets,
             SchedulerLogin(t, p)
      PROVE  Connected'
  BY <1>6, <1>0, Types, RobotAssumption
  DEF SchedulerLogin, Idle, IInv, Connected, OneClaim, Settled, Entry, Pending,
      Clearing, Closing, Shape, Running, Threads, ThreadType, maps, links, clients,
      history
<1>7. ASSUME NEW t \in Workers, NEW p \in packets,
             RobotLogin(t, p)
      PROVE  Connected'
  BY <1>7, <1>0, Types, RobotAssumption
  DEF RobotLogin, RobotLoginSucess, Changed, Idle, IInv, Connected, OneClaim, Settled, Entry,
      Pending, Clearing, Closing, Shape, Running, Threads, ThreadType, maps, links,
      clients, history
<1>8. ASSUME NEW t \in Workers,
             SetUserInfoLogin(t)
      PROVE  Connected'
  BY <1>8, <1>0, Types, RobotAssumption
  DEF SetUserInfoLogin, Changed, Goto, IInv, Connected, OneClaim, Settled, Entry, Pending,
      Clearing, Closing, Shape, Running, Threads, ThreadType, maps, links, clients,
      history
<1>9. ASSUME NEW t \in Workers,
             SchedulerSendMessage(t)
      PROVE  Connected'
  BY <1>9, <1>0, Types, RobotAssumption
  DEF SchedulerSendMessage, Notify, Done, Idle, IInv, Connected, OneClaim, Settled,
      Entry, Pending, Clearing, Closing, Shape, Running, Threads, ThreadType, maps,
      links, clients, history
<1>10. ASSUME NEW t \in Workers,
             SetRobotInfo(t)
      PROVE  Connected'
  <2> DEFINE s == thread[t].socket
             r == IF thread[t].robots = {} THEN NoRobot ELSE CHOOSE x \in thread[t].robots : TRUE
  <2>1. /\ thread \in [Threads -> ThreadType] /\ t \in Threads /\ t # Network
        /\ thread' = [thread EXCEPT ![t] = Idle] /\ thread[t].pc = "set_robot"
        /\ socket_robot_map \in [Sockets -> Robots \cup {NoRobot}]
        /\ socket_robot_map' = [socket_robot_map EXCEPT ![s] = r]
        /\ late' = IF Ended(s, thread[t].robots)
                   THEN late \cup ({r, socket_robot_map[s]} \cap Robots) ELSE late
        /\ UNCHANGED <<used_robot_infos, twice, socket, conn>>
        /\ used_robot_infos \subseteq Robots
    BY <1>10, Types, RobotAssumption
    DEF IInv, SetRobotInfo, Done, Threads, RobotAssumption, maps, links, clients
  <2>2. thread[t].robots = {} \/ \E x \in Robots : thread[t].robots = {x}
    BY <1>0, <2>1 DEF IInv, Shape
  <2>3. \A y \in Robots : y \in thread[t].robots => r = y
    BY <2>2
  <2> HIDE DEF r
  <2>4. thread'[Network] = thread[Network] /\ \A w \in Workers : w # t => thread'[w] = thread[w]
    BY <2>1, RobotAssumption DEF Threads
  <2>5. \A x, pcs : Closing(x, pcs)' <=> Closing(x, pcs)
    BY <2>4 DEF Closing
  <2> SUFFICES ASSUME NEW y \in used_robot_infos, y \notin twice, y \notin late'
               PROVE  Settled(y)' \/ \E w \in Workers :
                                       Pending(y, w)' /\ thread'[w].socket = socket[y]
    BY <2>1 DEF Connected
  <2>6. y \in Robots /\ y \notin late
    BY <2>1
  <2>7. y \in {r, socket_robot_map[s]} => ~Ended(s, thread[t].robots)
    BY <2>1, <2>6
  <2>8. CASE Settled(y)
    <3>1. /\ socket[y] \in Sockets /\ conn[socket[y]] = y /\ socket_robot_map[socket[y]] = y
          /\ ~Closing(socket[y], {"del_robot", "del_scheduler", "free"})
          /\ Closing(socket[y], {"clear"}) => y \in thread[Network].robots
      BY <2>8 DEF Settled
    <3>2. socket_robot_map'[socket[y]] = y
      <4>1. CASE socket[y] = s
        <5>1. y \in thread[t].robots
          BY <2>7, <3>1, <4>1 DEF Ended
        <5>2. r = y
          BY <2>3, <2>6, <5>1
        <5> QED
          BY <2>1, <3>1, <4>1, <5>2
      <4>2. CASE socket[y] # s
        BY <2>1, <3>1, <4>2
      <4> QED
        BY <4>1, <4>2
    <3> QED
      BY <2>1, <2>4, <2>5, <3>1, <3>2 DEF Settled
  <2>9. ASSUME NEW w \in Workers, Pending(y, w), thread[w].socket = socket[y], w # t
        PROVE  Pending(y, w)' /\ thread'[w].socket = socket[y]
    BY <2>4, <2>9 DEF Pending
  <2>10. ASSUME Pending(y, t), s = socket[y]
         PROVE  Settled(y)'
    <3>1. r = y /\ s \in Sockets
      BY <1>0, <2>1, <2>3, <2>6, <2>10 DEF Pending, IInv, Shape
    <3>2. ~Ended(s, thread[t].robots)
      BY <2>7, <3>1
    <3>3. conn[s] = y /\ ~Closing(s, {"clear", "del_robot", "del_scheduler", "free"})
      BY <2>2, <2>10, <3>2 DEF Ended, Closing, Pending
    <3>4. socket_robot_map'[s] = y
      BY <2>1, <3>1
    <3>5. ~(/\ thread'[Network].socket = s
            /\ thread'[Network].pc \in {"clear", "del_robot", "del_scheduler", "free"})
      BY <2>4, <3>3 DEF Closing
    <3>6. socket' = socket /\ conn' = conn
      BY <2>1
    <3>7. /\ socket'[y] = s /\ conn'[s] = y
          /\ s \in Sockets
      BY <2>10, <3>1, <3>3, <3>6
    <3> HIDE DEF s
    <3> QED
      BY <3>4, <3>5, <3>7 DEF Settled, Closing
  <2> QED
    BY <1>0, <2>1, <2>6, <2>8, <2>9, <2>10 DEF IInv, Connected
<1>11. CASE GetRobotInfo
  BY <1>11, <1>0, Types, RobotAssumption
  DEF GetRobotInfo, IInv, Connected, OneClaim, Settled, Entry, Pending, Clearing,
      Closing, Shape, Running, Threads, ThreadType, maps, links, clients, history
<1>12. CASE ClearRobotConnection
  BY <1>12, <1>0, Types, RobotAssumption
  DEF ClearRobotConnection, ClearRobot, Changed, Goto, IInv, Connected, OneClaim, Settled, Entry,
      Pending, Clearing, Closing, Shape, Running, Threads, ThreadType, maps, links,
      clients, history
<1>13. CASE DelRobotInfo
  BY <1>13, <1>0, Types, RobotAssumption
  DEF DelRobotInfo, Goto, IInv, Connected, OneClaim, Settled, Entry, Pending, Clearing,
      Closing, Shape, Running, Threads, ThreadType, maps, links, clients, history
<1>14. CASE DeleteScheduler
  BY <1>14, <1>0, Types, RobotAssumption
  DEF DeleteScheduler, Goto, IInv, Connected, OneClaim, Settled, Entry, Pending,
      Clearing, Closing, Shape, Running, Threads, ThreadType, maps, links, clients,
      history
<1>15. CASE CloseEnds
  BY <1>15, <1>0, Types, RobotAssumption
  DEF CloseEnds, Done, Idle, IInv, Connected, OneClaim, Settled, Entry, Pending,
      Clearing, Closing, Shape, Running, Threads, ThreadType, maps, links, clients,
      history
<1>16. ASSUME NEW t \in Workers,
             GetUserFollowAllRobot(t)
      PROVE  Connected'
  <2>1. /\ thread \in [Threads -> ThreadType] /\ t \in Threads /\ t # Network
        /\ thread[t].pc = "follow"
        /\ UNCHANGED <<used_robot_infos, twice, late, socket_robot_map, socket, conn>>
    BY <1>16, Types, RobotAssumption
    DEF IInv, GetUserFollowAllRobot, CheckUserFollow, Threads, RobotAssumption
  <2>2. Running' => thread' = [thread EXCEPT ![t] = Idle]
    BY <1>16 DEF GetUserFollowAllRobot, Running, Threads, Idle, Done
  <2> SUFFICES ASSUME thread' = [thread EXCEPT ![t] = Idle]
               PROVE  Connected'
    BY <2>2 DEF Connected
  <2>3. \A r \in Robots, w \in Workers :
           Pending(r, w) => Pending(r, w)' /\ thread'[w] = thread[w]
    BY <2>1 DEF Pending, Idle, Threads
  <2>4. \A r \in Robots : Settled(r) => Settled(r)'
    BY <2>1 DEF Settled, Closing
  <2>5. used_robot_infos \subseteq Robots
    BY Types DEF IInv
  <2> QED
    BY <1>0, <2>1, <2>3, <2>4, <2>5 DEF IInv, Connected
<1> QED
  BY <1>1, <1>2, <1>3, <1>4, <1>5, <1>6, <1>7, <1>8, <1>9, <1>10, <1>11, <1>12, <1>13, <1>14, <1>15,
     <1>16
  DEF Next

\* DelRobotInfo empties the entry of the descriptor that ends; only a late
\* packet writes it again before the descriptor is free.
LEMMA LiveStep ==
    ASSUME IInv, Next, Shape'
    PROVE  Live'
<1>0. Running
  BY StepRuns DEF IInv
<1>1. ASSUME NEW s \in Sockets,
             ConnectScheduler(s)
      PROVE  Live'
  BY <1>1, <1>0, Types, RobotAssumption
  DEF ConnectScheduler, IInv, Live, Closing, Shape, Running, Threads, ThreadType, maps,
      links, clients, history
<1>2. ASSUME NEW s \in Sockets,
             CloseBegins(s)
      PROVE  Live'
  BY <1>2, <1>0, Types, RobotAssumption
  DEF CloseBegins, Idle, IInv, Live, Closing, Shape, Running, Threads, ThreadType, maps,
      links, clients, history
<1>3. ASSUME NEW u \in Users, NEW r \in Robots, NEW s \in Sockets,
             ConnectRobot(u, r, s)
      PROVE  Live'
  BY <1>3, <1>0, Types, RobotAssumption
  DEF ConnectRobot, IInv, Live, Closing, Shape, Running, Threads, ThreadType, maps,
      links, clients, history
<1>4. ASSUME NEW t \in Workers, NEW u \in Users,
             UserLogin(t, u)
      PROVE  Live'
  BY <1>4, <1>0, Types, RobotAssumption
  DEF UserLogin, Request, GetIdleRobot, Changed, Serves, Idle, IInv, Live, Closing, Shape,
      Running, Threads, ThreadType, maps, links, clients, history
<1>5. ASSUME NEW t \in Workers, NEW u \in Users,
             UserChangesSong(t, u)
      PROVE  Live'
  BY <1>5, <1>0, Types, RobotAssumption
  DEF UserChangesSong, Request, Idle, IInv, Live, Closing,
      Shape, Running, Threads, ThreadType, maps, links, clients, history
<1>6. ASSUME NEW t \in Workers, NEW p \in packets,
             SchedulerLogin(t, p)
      PROVE  Live'
  BY <1>6, <1>0, Types, RobotAssumption
  DEF SchedulerLogin, Idle, IInv, Live, Closing, Shape, Running, Threads, ThreadType,
      maps, links, clients, history
<1>7. ASSUME NEW t \in Workers, NEW p \in packets,
             RobotLogin(t, p)
      PROVE  Live'
  BY <1>7, <1>0, Types, RobotAssumption
  DEF RobotLogin, RobotLoginSucess, Changed, Idle, IInv, Live, Closing, Shape, Running, Threads,
      ThreadType, maps, links, clients, history
<1>8. ASSUME NEW t \in Workers,
             SetUserInfoLogin(t)
      PROVE  Live'
  BY <1>8, <1>0, Types, RobotAssumption
  DEF SetUserInfoLogin, Changed, Goto, IInv, Live, Closing, Shape, Running, Threads, ThreadType,
      maps, links, clients, history
<1>9. ASSUME NEW t \in Workers,
             SchedulerSendMessage(t)
      PROVE  Live'
  BY <1>9, <1>0, Types, RobotAssumption
  DEF SchedulerSendMessage, Notify, Done, Idle, IInv, Live, Closing, Shape, Running,
      Threads, ThreadType, maps, links, clients, history
<1>10. ASSUME NEW t \in Workers,
             SetRobotInfo(t)
      PROVE  Live'
  <2> DEFINE s == thread[t].socket
             r == IF thread[t].robots = {} THEN NoRobot ELSE CHOOSE x \in thread[t].robots : TRUE
  <2>1. /\ thread \in [Threads -> ThreadType] /\ t \in Threads /\ t # Network
        /\ thread' = [thread EXCEPT ![t] = Idle] /\ thread[t].pc = "set_robot"
        /\ socket_robot_map \in [Sockets -> Robots \cup {NoRobot}]
        /\ socket_robot_map' = [socket_robot_map EXCEPT ![s] = r]
        /\ late' = IF Ended(s, thread[t].robots)
                   THEN late \cup ({r, socket_robot_map[s]} \cap Robots) ELSE late
        /\ UNCHANGED conn
    BY <1>10, Types, RobotAssumption
    DEF IInv, SetRobotInfo, Done, Threads, RobotAssumption, clients
  <2>2. thread[t].robots = {} \/ \E x \in Robots : thread[t].robots = {x}
    BY <1>0, <2>1 DEF IInv, Shape
  <2>3. r # NoRobot => r \in Robots /\ thread[t].robots = {r}
    BY <2>2
  <2> HIDE DEF r
  <2>4. thread'[Network] = thread[Network]
    BY <2>1, RobotAssumption DEF Threads
  <2> SUFFICES ASSUME NEW x \in Sockets,
                      conn[x] = NoRobot \/ Closing(x, {"del_scheduler", "free"}),
                      socket_robot_map'[x] # NoRobot
               PROVE  socket_robot_map'[x] \in late'
    BY <2>1, <2>4 DEF Live, Closing
  <2>5. CASE x = s
    <3>1. socket_robot_map'[x] = r /\ r \in Robots /\ thread[t].robots = {r}
      BY <2>1, <2>3, <2>5
    <3>2. Ended(s, thread[t].robots)
      BY <2>5, <3>1, RobotAssumption DEF Ended, Closing, RobotAssumption
    <3>3. late' = late \cup ({r, socket_robot_map[s]} \cap Robots)
      BY <2>1, <3>2
    <3> QED
      BY <3>1, <3>3
  <2>6. CASE x # s
    <3>1. socket_robot_map'[x] = socket_robot_map[x]
      BY <2>1, <2>6
    <3>2. socket_robot_map[x] \in late
      BY <3>1 DEF IInv, Live
    <3> QED
      BY <2>1, <3>1, <3>2
  <2> QED
    BY <2>5, <2>6
<1>11. CASE GetRobotInfo
  BY <1>11, <1>0, Types, RobotAssumption
  DEF GetRobotInfo, IInv, Live, Closing, Shape, Running, Threads, ThreadType, maps,
      links, clients, history
<1>12. CASE ClearRobotConnection
  BY <1>12, <1>0, Types, RobotAssumption
  DEF ClearRobotConnection, ClearRobot, Changed, Goto, IInv, Live, Closing, Shape, Running,
      Threads, ThreadType, maps, links, clients, history
<1>13. CASE DelRobotInfo
  BY <1>13, <1>0, Types, RobotAssumption
  DEF DelRobotInfo, Goto, IInv, Live, Closing, Shape, Running, Threads, ThreadType,
      maps, links, clients, history
<1>14. CASE DeleteScheduler
  BY <1>14, <1>0, Types, RobotAssumption
  DEF DeleteScheduler, Goto, IInv, Live, Closing, Shape, Running, Threads, ThreadType,
      maps, links, clients, history
<1>15. CASE CloseEnds
  BY <1>15, <1>0, Types, RobotAssumption
  DEF CloseEnds, Done, Idle, IInv, Live, Closing, Shape, Running, Threads, ThreadType,
      maps, links, clients, history
<1>16. ASSUME NEW t \in Workers,
             GetUserFollowAllRobot(t)
      PROVE  Live'
  <2>1. t # Network /\ UNCHANGED <<late, socket_robot_map, conn>>
    BY <1>16, RobotAssumption DEF GetUserFollowAllRobot, RobotAssumption
  <2>2. \A s : Closing(s, {"del_scheduler", "free"})' => Closing(s, {"del_scheduler", "free"})
    BY <1>16, <2>1, Types
    DEF GetUserFollowAllRobot, Done, Idle, Closing, Threads, IInv
  <2> QED
    BY <2>1, <2>2 DEF IInv, Live
<1> QED
  BY <1>1, <1>2, <1>3, <1>4, <1>5, <1>6, <1>7, <1>8, <1>9, <1>10, <1>11, <1>12, <1>13, <1>14, <1>15,
     <1>16
  DEF Next

LEMMA StaysTorn ==
    ASSUME Next, torn
    PROVE  torn'
  BY DEF Next, ConnectScheduler, CloseBegins, ConnectRobot, UserLogin, UserChangesSong,
      SchedulerLogin, RobotLogin, SetUserInfoLogin, SchedulerSendMessage, SetRobotInfo,
      GetUserFollowAllRobot, GetRobotInfo, ClearRobotConnection, DelRobotInfo,
      DeleteScheduler, CloseEnds, history

\* The reason why a client comes passes from the handler to the notice and from
\* the notice to the packet, whose handling ends the wait.
LEMMA WaitingStep ==
    ASSUME IInv, Next, Shape'
    PROVE  WaitingIsExpected'
<1> TypeOK /\ Shape
  BY DEF IInv
<1>0. Running
  BY StepRuns DEF IInv
<1>b. SUFFICES ASSUME Running', ~torn',
                      NEW q \in Robots, q \in temp_robot_infos', q \notin untold'
      PROVE  Expected(q)'
  BY DataStep DEF IInv, DataOK, WaitingIsExpected, Expected, Noticed, Queued, Handled
<1>c. ~torn
  BY <1>b, StaysTorn
<1>a. \A r \in temp_robot_infos \ untold : Expected(r)
  BY <1>0, <1>c DEF IInv, WaitingIsExpected, Expected, Noticed, Queued, Handled
<1>1. ASSUME NEW s \in Sockets,
             ConnectScheduler(s)
      PROVE  Expected(q)'
  BY <1>1, <1>0, <1>a, <1>b, Types, RobotAssumption
  DEF ConnectScheduler, IInv, Expected, Noticed, Queued, Handled, Shape, Running,
      Threads, ThreadType, maps, links, clients, history
<1>2. ASSUME NEW s \in Sockets,
             CloseBegins(s)
      PROVE  Expected(q)'
  <2>1. Expected(q)
    BY <1>2, <1>a, <1>b DEF CloseBegins, maps, history
  <2> QED
    BY <1>2, <2>1, RobotAssumption
    DEF CloseBegins, Expected, Noticed, Queued, Handled, clients
<1>3. ASSUME NEW u \in Users, NEW r \in Robots, NEW s \in Sockets,
             ConnectRobot(u, r, s)
      PROVE  Expected(q)'
  <2>1. Expected(q)
    BY <1>3, <1>a, <1>b DEF ConnectRobot, maps, history
  <2>2. CASE q = r
    <3>1. [uid |-> u, robot |-> r, socket |-> s] \in packets'
      BY <1>3 DEF ConnectRobot
    <3> QED
      BY <2>2, <3>1 DEF Expected, Queued
  <2>3. CASE q # r
    <3>1. ASSUME NEW v \in Users, <<v, q>> \in notices
          PROVE  <<v, q>> \in notices'
      BY <1>3, <2>3, <3>1 DEF ConnectRobot
    <3> QED
      BY <1>3, <2>1, <3>1 DEF ConnectRobot, Expected, Noticed, Queued, Handled
  <2> QED
    BY <2>2, <2>3
<1>4. ASSUME NEW t \in Workers, NEW u \in Users,
             UserLogin(t, u)
      PROVE  Expected(q)'
  <2>1. PICK robots \in SUBSET Robots :
          /\ \/ thread' = [thread EXCEPT ![t] = Serves("user_info", u, robots)]
             \/ UNCHANGED thread /\ robots = {}
          /\ temp_robot_infos' \subseteq temp_robot_infos \cup robots
    BY <1>4, <1>c, Types DEF UserLogin, GetIdleRobot, Changed, maps
  <2>2. UNCHANGED <<notices, packets, untold>> /\ thread[t] = Idle
    BY <1>4 DEF UserLogin, Request, history
  <2>3. CASE q \in robots
    BY <2>1, <2>3, Types DEF Serves, Expected, Handled, Threads
  <2>4. CASE q \notin robots
    <3>1. Expected(q)
      BY <1>a, <1>b, <2>1, <2>2, <2>4
    <3>2. ASSUME Handled(q)
          PROVE  Handled(q)'
      BY <2>1, <2>2, <3>2, Types DEF Handled, Serves, Idle, Threads
    <3> QED
      BY <2>2, <3>1, <3>2 DEF Expected, Noticed, Queued
  <2> QED
    BY <2>3, <2>4
<1>5. ASSUME NEW t \in Workers, NEW u \in Users,
             UserChangesSong(t, u)
      PROVE  Expected(q)'
  <2>1. Expected(q) /\ UNCHANGED <<notices, packets>>
    BY <1>5, <1>a, <1>b DEF UserChangesSong, Request, maps
  <2>2. ASSUME Handled(q)
        PROVE  Handled(q)'
    BY <1>5, <2>2, Types DEF UserChangesSong, Request, Handled, Idle, Threads
  <2> QED
    BY <2>1, <2>2 DEF Expected, Noticed, Queued
<1>6. ASSUME NEW t \in Workers, NEW p \in packets,
             SchedulerLogin(t, p)
      PROVE  Expected(q)'
  <2>1. Expected(q)
    BY <1>6, <1>a, <1>b DEF SchedulerLogin, maps, history
  <2>2. ASSUME NEW x \in packets, x.robot = q
        PROVE  x \in packets'
    BY <1>6, <2>2, RobotAssumption DEF SchedulerLogin
  <2> QED
    BY <1>6, <2>1, <2>2 DEF SchedulerLogin, Expected, Noticed, Queued, Handled
<1>7. ASSUME NEW t \in Workers, NEW p \in packets,
             RobotLogin(t, p)
      PROVE  Expected(q)'
  <2>1. q # p.robot /\ q \in temp_robot_infos /\ q \notin untold
    BY <1>7, <1>b, <1>c DEF RobotLogin, RobotLoginSucess, Changed, maps
  <2>2. Expected(q)
    BY <2>1, <1>a, <1>b
  <2>3. ASSUME NEW x \in packets, x.robot = q
        PROVE  x \in packets'
    BY <1>7, <2>1, <2>3 DEF RobotLogin
  <2>4. ASSUME Handled(q)
        PROVE  Handled(q)'
    BY <1>7, <2>4, Types DEF RobotLogin, Handled, Idle, Threads, IInv
  <2> QED
    BY <1>7, <2>2, <2>3, <2>4 DEF RobotLogin, Expected, Noticed, Queued
<1>8. ASSUME NEW t \in Workers,
             SetUserInfoLogin(t)
      PROVE  Expected(q)'
  <2>1. Expected(q)
    BY <1>8, <1>a, <1>b DEF SetUserInfoLogin, maps, history
  <2>2. ASSUME Handled(q)
        PROVE  Handled(q)'
    BY <1>8, <2>2, Types DEF IInv, SetUserInfoLogin, Changed, Goto, Handled, Threads, ThreadType
  <2> QED
    BY <1>8, <2>1, <2>2 DEF SetUserInfoLogin, Expected, Noticed, Queued, clients
<1>9. ASSUME NEW t \in Workers,
             SchedulerSendMessage(t)
      PROVE  Expected(q)'
  <2>1. /\ Notify(thread[t].uid, thread[t].robots)
        /\ thread' = [thread EXCEPT ![t] = Idle]
        /\ thread[t].pc = "scheduler_send"
        /\ UNCHANGED <<maps, packets>>
    BY <1>9 DEF SchedulerSendMessage, Done
  <2>2. notices \subseteq notices' /\ untold \subseteq untold'
    BY <2>1 DEF Notify
  <2>3. Expected(q)
    BY <1>a, <1>b, <2>1, <2>2 DEF maps
  <2>4. CASE q \in thread[t].robots
    <3>1. thread[t].uid \in Users
      BY <1>0, <2>1 DEF IInv, Shape
    <3>2. <<thread[t].uid, q>> \in notices'
      BY <1>b, <2>1, <2>4 DEF Notify
    <3> QED
      BY <3>1, <3>2 DEF Expected, Noticed
  <2>5. CASE q \notin thread[t].robots
    <3>1. ASSUME Handled(q)
          PROVE  Handled(q)'
      BY <2>1, <2>5, <3>1, Types DEF IInv, Handled, Threads
    <3> QED
      BY <2>1, <2>2, <2>3, <3>1 DEF Expected, Noticed, Queued
  <2> QED
    BY <2>4, <2>5
<1>10. ASSUME NEW t \in Workers,
             SetRobotInfo(t)
      PROVE  Expected(q)'
  BY <1>10, <1>0, <1>a, <1>b, Types, RobotAssumption
  DEF SetRobotInfo, Done, Idle, Ended, IInv, Expected, Noticed, Queued, Handled, Shape,
      Running, Threads, ThreadType, maps, links, clients, history
<1>11. CASE GetRobotInfo
  BY <1>11, <1>0, <1>a, <1>b, Types, RobotAssumption
  DEF GetRobotInfo, IInv, Expected, Noticed, Queued, Handled, Shape, Running, Threads,
      ThreadType, maps, links, clients, history
<1>12. CASE ClearRobotConnection
  BY <1>12, <1>0, <1>a, <1>b, Types, RobotAssumption
  DEF ClearRobotConnection, ClearRobot, Changed, Goto, IInv, Expected, Noticed, Queued, Handled,
      Shape, Running, Threads, ThreadType, maps, links, clients, history
<1>13. CASE DelRobotInfo
  BY <1>13, <1>0, <1>a, <1>b, Types, RobotAssumption
  DEF DelRobotInfo, Goto, IInv, Expected, Noticed, Queued, Handled, Shape, Running,
      Threads, ThreadType, maps, links, clients, history
<1>14. CASE DeleteScheduler
  BY <1>14, <1>0, <1>a, <1>b, Types, RobotAssumption
  DEF DeleteScheduler, Goto, IInv, Expected, Noticed, Queued, Handled, Shape, Running,
      Threads, ThreadType, maps, links, clients, history
<1>15. CASE CloseEnds
  <2>1. PICK lost \in SUBSET notices :
          /\ notices' = notices \ lost
          /\ untold' = untold \cup {n[2] : n \in lost}
    <3>1. ASSUME UNCHANGED <<notices, untold>>
          PROVE  /\ notices' = notices \ {}
                 /\ untold' = untold \cup {n[2] : n \in {}}
      BY <3>1
    <3>2. ASSUME ~UNCHANGED <<notices, untold>>
          PROVE  \E lost \in {{}, notices} :
                    /\ notices' = notices \ lost
                    /\ untold' = untold \cup {n[2] : n \in lost}
      BY <1>15, <3>2 DEF CloseEnds
    <3> QED
      BY <3>1, <3>2
  <2>2. ASSUME NEW v \in Users, <<v, q>> \in notices
        PROVE  <<v, q>> \in notices'
    <3>1. <<v, q>> \notin lost
      BY <1>b, <2>1
    <3> QED
      BY <2>1, <2>2, <3>1
  <2>3. Expected(q)
    BY <1>15, <1>a, <1>b, <2>1 DEF CloseEnds, maps
  <2>4. ASSUME Handled(q)
        PROVE  Handled(q)'
    BY <1>15, <2>4, Types, RobotAssumption DEF IInv, CloseEnds, Done, Handled, Threads
  <2> QED
    BY <1>15, <2>2, <2>3, <2>4 DEF CloseEnds, Expected, Noticed, Queued
<1>16. ASSUME NEW t \in Workers,
             GetUserFollowAllRobot(t)
      PROVE  Expected(q)'
  <2>1. /\ temp_robot_infos' = temp_robot_infos \cup thread[t].robots
        /\ Notify(thread[t].uid, thread[t].robots) /\ packets' = packets
        /\ thread[t].pc = "follow" /\ thread[t].uid \in Users
    BY <1>0, <1>16, <1>b, <1>c DEF GetUserFollowAllRobot, CheckUserFollow, Changed, Shape
  <2>2. thread' = [thread EXCEPT ![t] = Idle]
    BY <1>16, <1>b DEF GetUserFollowAllRobot, Running, Threads, Idle, Done
  <2>3. CASE q \in thread[t].robots
    <3>1. <<thread[t].uid, q>> \in notices'
      BY <1>b, <2>1, <2>3 DEF Notify
    <3> QED
      BY <2>1, <3>1 DEF Expected, Noticed
  <2>4. CASE q \notin thread[t].robots
    <3>1. q \notin untold /\ notices \subseteq notices'
      BY <1>b, <2>1 DEF Notify
    <3>2. Expected(q)
      BY <1>a, <1>b, <2>1, <2>4, <3>1
    <3>3. ASSUME Handled(q)
          PROVE  Handled(q)'
      BY <2>1, <2>2, <3>3, Types DEF Handled, Threads
    <3> QED
      BY <2>1, <3>1, <3>2, <3>3 DEF Expected, Noticed, Queued
  <2> QED
    BY <2>3, <2>4
<1> QED
  BY <1>1, <1>2, <1>3, <1>4, <1>5, <1>6, <1>7, <1>8, <1>9, <1>10, <1>11, <1>12, <1>13, <1>14, <1>15,
     <1>16
  DEF Next

\* A log-in adds the robot to its user's list, and ClearRobot empties only the
\* lists that hold no other robot.
LEMMA FollowingStep ==
    ASSUME IInv, Next, Shape'
    PROVE  UsedIsFollowing'
<1>0. Running
  BY StepRuns DEF IInv
<1>1. ASSUME NEW s \in Sockets,
             ConnectScheduler(s)
      PROVE  UsedIsFollowing'
  BY <1>1, <1>0, Types, RobotAssumption
  DEF ConnectScheduler, IInv, UsedIsFollowing, Shape, Running, PacketsKnown, maps,
      links, clients, history
<1>2. ASSUME NEW s \in Sockets,
             CloseBegins(s)
      PROVE  UsedIsFollowing'
  BY <1>2, <1>0, Types, RobotAssumption
  DEF CloseBegins, Idle, IInv, UsedIsFollowing, Shape, Running, PacketsKnown, maps,
      links, clients, history
<1>3. ASSUME NEW u \in Users, NEW r \in Robots, NEW s \in Sockets,
             ConnectRobot(u, r, s)
      PROVE  UsedIsFollowing'
  BY <1>3, <1>0, Types, RobotAssumption
  DEF ConnectRobot, IInv, UsedIsFollowing, Shape, Running, PacketsKnown, maps, links,
      clients, history
<1>4. ASSUME NEW t \in Workers, NEW u \in Users,
             UserLogin(t, u)
      PROVE  UsedIsFollowing'
  BY <1>4, <1>0, Types, RobotAssumption
  DEF UserLogin, Request, GetIdleRobot, Changed, Serves, Idle, IInv, UsedIsFollowing, Shape,
      Running, PacketsKnown, maps, links, clients, history
<1>5. ASSUME NEW t \in Workers, NEW u \in Users,
             UserChangesSong(t, u)
      PROVE  UsedIsFollowing'
  BY <1>5, <1>0, Types, RobotAssumption
  DEF UserChangesSong, Request, Idle, IInv, UsedIsFollowing,
      Shape, Running, PacketsKnown, maps, links, clients, history
<1>6. ASSUME NEW t \in Workers, NEW p \in packets,
             SchedulerLogin(t, p)
      PROVE  UsedIsFollowing'
  BY <1>6, <1>0, Types, RobotAssumption
  DEF SchedulerLogin, Idle, IInv, UsedIsFollowing, Shape, Running, PacketsKnown, maps,
      links, clients, history
<1>7. ASSUME NEW t \in Workers, NEW p \in packets,
             RobotLogin(t, p)
      PROVE  UsedIsFollowing'
  BY <1>7, <1>0, Types, RobotAssumption
  DEF RobotLogin, RobotLoginSucess, Changed, Idle, IInv, UsedIsFollowing, Shape, Running,
      PacketsKnown, maps, links, clients, history
<1>8. ASSUME NEW t \in Workers,
             SetUserInfoLogin(t)
      PROVE  UsedIsFollowing'
  BY <1>8, <1>0, Types, RobotAssumption
  DEF SetUserInfoLogin, Changed, Goto, IInv, UsedIsFollowing, Shape, Running, PacketsKnown, maps,
      links, clients, history
<1>9. ASSUME NEW t \in Workers,
             SchedulerSendMessage(t)
      PROVE  UsedIsFollowing'
  BY <1>9, <1>0, Types, RobotAssumption
  DEF SchedulerSendMessage, Notify, Done, Idle, IInv, UsedIsFollowing, Shape, Running,
      PacketsKnown, maps, links, clients, history
<1>10. ASSUME NEW t \in Workers,
             SetRobotInfo(t)
      PROVE  UsedIsFollowing'
  BY <1>10, <1>0, Types, RobotAssumption
  DEF SetRobotInfo, Done, Idle, Ended, IInv, UsedIsFollowing, Shape, Running,
      PacketsKnown, maps, links, clients, history
<1>11. CASE GetRobotInfo
  BY <1>11, <1>0, Types, RobotAssumption
  DEF GetRobotInfo, IInv, UsedIsFollowing, Shape, Running, PacketsKnown, maps, links,
      clients, history
<1>12. CASE ClearRobotConnection
  BY <1>12, <1>0, Types, RobotAssumption
  DEF ClearRobotConnection, ClearRobot, Changed, Goto, IInv, UsedIsFollowing, Shape, Running,
      PacketsKnown, maps, links, clients, history
<1>13. CASE DelRobotInfo
  BY <1>13, <1>0, Types, RobotAssumption
  DEF DelRobotInfo, Goto, IInv, UsedIsFollowing, Shape, Running, PacketsKnown, maps,
      links, clients, history
<1>14. CASE DeleteScheduler
  BY <1>14, <1>0, Types, RobotAssumption
  DEF DeleteScheduler, Goto, IInv, UsedIsFollowing, Shape, Running, PacketsKnown, maps,
      links, clients, history
<1>15. CASE CloseEnds
  BY <1>15, <1>0, Types, RobotAssumption
  DEF CloseEnds, Done, Idle, IInv, UsedIsFollowing, Shape, Running, PacketsKnown, maps,
      links, clients, history
<1>16. ASSUME NEW t \in Workers,
             GetUserFollowAllRobot(t)
      PROVE  UsedIsFollowing'
  BY <1>16 DEF GetUserFollowAllRobot, CheckUserFollow, IInv, UsedIsFollowing
<1> QED
  BY <1>1, <1>2, <1>3, <1>4, <1>5, <1>6, <1>7, <1>8, <1>9, <1>10, <1>11, <1>12, <1>13, <1>14, <1>15,
     <1>16
  DEF Next

-----------------------------------------------------------------------------
(* The theorems *)

\* The robot server starts with every robot idle and no connection.
LEMMA InitIInv == Init => IInv
<1> SUFFICES ASSUME Init
    PROVE  IInv
  OBVIOUS
<1>1. /\ Running
      /\ \A t \in Threads : thread[t] = Idle
      /\ thread \in [Threads -> ThreadType]
  BY DEF Init, Running, Threads, Idle, ThreadType, WorkerPcs
<1>2. Shape
  BY <1>1, RobotAssumption DEF Shape, Idle, Threads, WorkerPcs, NetworkPcs
<1>3. torn \in BOOLEAN
  BY DEF Init
<1>4. TypeOK /\ PacketsKnown
  BY <1>1, <1>3, RobotAssumption DEF Init, TypeOK, DataOK, PacketsKnown, Idle
<1>5. Missing
  BY <1>1 DEF Missing, Idle, Threads
<1>6. InOneMap /\ UsedIsFollowing /\ WaitingIsExpected /\ Connected
  BY DEF Init, InOneMap, OneOf, UsedIsFollowing, WaitingIsExpected, Connected
<1>7. OneClaim
  BY <1>1, RobotAssumption DEF Init, OneClaim, Entry, Pending, Clearing, Idle, Threads
<1>8. Live
  BY DEF Init, Live
<1> QED
  BY <1>2, <1>4, <1>5, <1>6, <1>7, <1>8 DEF IInv

LEMMA StepIInv == IInv /\ [Next]_vars => IInv'
<1> SUFFICES ASSUME IInv, [Next]_vars
    PROVE  IInv'
  OBVIOUS
<1> TypeOK /\ Shape /\ PacketsKnown
  BY DEF IInv
<1>1. CASE Next
  <2>1. Shape'
    BY <1>1, ShapeStep
  <2>2. DataOK' /\ PacketsKnown'
    BY <1>1, DataStep
  <2>3. TypeOK'
    BY <2>1, <2>2 DEF TypeOK, Shape, ThreadType
  <2> QED
    BY <1>1, <2>1, <2>2, <2>3, MissingStep, InOneMapStep, OneClaimStep, ConnectedStep, LiveStep,
       WaitingStep, FollowingStep
    DEF IInv
<1>2. CASE UNCHANGED vars
  <2> USE <1>2 DEF vars, maps, links, clients, history, Running
  <2>1. (TypeOK /\ Shape /\ PacketsKnown /\ Missing)'
    BY DEF IInv, TypeOK, DataOK, Shape, PacketsKnown, Missing
  <2>2. (InOneMap /\ UsedIsFollowing /\ WaitingIsExpected)'
    BY DEF IInv, InOneMap, OneOf, UsedIsFollowing, WaitingIsExpected
  <2>3. OneClaim'
    BY DEF IInv, OneClaim, Entry, Pending, Clearing, Closing
  <2>4. Connected'
    BY DEF IInv, Connected, Pending, Settled, Closing
  <2>5. Live'
    BY DEF IInv, Live, Closing
  <2> QED
    BY <2>1, <2>2, <2>3, <2>4, <2>5 DEF IInv
<1> QED
  BY <1>1, <1>2

\* The invariant on which the theorems below rest holds throughout.
THEOREM Invariant == Spec => []IInv
  BY InitIInv, StepIInv, PTL DEF Spec

\* The maps, links and threads of the robot server keep their types: what
\* GetRobotInfo finds for a descriptor is a robot or none.
THEOREM TypeCorrect == Spec => []TypeOK
<1>1. IInv => TypeOK
  BY DEF IInv
<1> QED
  BY <1>1, Invariant, PTL

\* GetRobot, RobotLoginSucess, CheckUserFollowAllRobot and ClearRobot, called by
\* any number of workers and the network thread, neither lose a robot nor put it
\* in two maps, unless it logs in while in use or two song changes, which share
\* the lock, have moved robots at once.
THEOREM RobotsKept == Spec => []RobotInOneMap
<1>1. IInv => RobotInOneMap
  BY InOneMapCounts DEF IInv
<1> QED
  BY <1>1, Invariant, PTL

\* The songs of a user go to a descriptor on which the robot is connected, or
\* on which OnRobotLogin has not yet written its entry, but for the robots that
\* logged in twice or whose packet was handled late.
THEOREM UsedConnected == Spec => []UsedIsConnected
<1>1. IInv => UsedIsConnected
  BY DEF IInv, Connected, Settled, Pending, UsedIsConnected
<1> QED
  BY <1>1, Invariant, PTL

\* OnRobotManagerClose leaves no entry for a free descriptor, so the end of the
\* next connection on it frees nobody's robot, but for what a late packet wrote.
THEOREM NoStaleEntry == Spec => []EntryIsLive
<1>1. IInv => EntryIsLive
  BY DEF IInv, Live, EntryIsLive
<1> QED
  BY <1>1, Invariant, PTL

\* A robot put into the temporary map by OnUserLogin or by a song change has a
\* client coming, unless no scheduler has its notice or two song changes, which
\* share the lock, have moved robots at once.
THEOREM WaitingExpected == Spec => []WaitingIsExpected
<1>1. IInv => WaitingIsExpected
  BY DEF IInv
<1> QED
  BY <1>1, Invariant, PTL

\* GetUserFollowAllRobot finds every robot in use through some user.
THEOREM UsedFollowing == Spec => []UsedIsFollowing
<1>1. IInv => UsedIsFollowing
  BY DEF IInv
<1> QED
  BY <1>1, Invariant, PTL
=============================================================================
