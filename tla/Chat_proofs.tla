----------------------------- MODULE Chat_proofs -----------------------------
(***************************************************************************)
(* Theorems about ChatSession, and about ChatMessage on top of it, for any *)
(* number of users, sockets, sessions, groups, workers and packets.        *)
(*                                                                         *)
(* Sessions: a private session never leaves the pair of users it was drawn *)
(* for; every member of a conversation has been told its session; a user   *)
(* without a connection is the work of a late packet, or of two deletions  *)
(* from user_infos_map_ at once.                                           *)
(*                                                                         *)
(* None of the three is inductive as it stands: a thread may carry a       *)
(* session, an answer or a UserInfo from one cache to another. IInv adds   *)
(* what the threads hold, and that the entry of a user in user_infos_map   *)
(* is a sign-in of that user; TInv what is known of a session while an     *)
(* invitation waits or has been found; GInv which connections will still   *)
(* find their user when they end.                                          *)
(*                                                                         *)
(* Messages: a private message reaches only the user its session was told  *)
(* for, a group's only a member; a confirmation is final unless it came    *)
(* too early; a message is left in the database only for one who is away.  *)
(* The receiver's session is compared with the message's, not with what    *)
(* clients were told, so FInv relates the two: who is told a session, or   *)
(* is about to be, and for whom. MInv adds what a message under way has    *)
(* been checked for, CInv that its id is its own, AInv that the session of *)
(* a user whose packets are handled one at a time is the one last told.    *)
(***************************************************************************)
EXTENDS ChatMessage, TLAPS


\* The entry of a user is its own.
OwnEntry ==
    \A u \in Users : user_infos_map[u] # 0 => infos[user_infos_map[u]].user = u

\* A session is drawn for two users, once.
PairOfTwo ==
    \A s \in Sessions : pair[s] # {} =>
        \E u, v \in Users : u # v /\ pair[s] = {u, v}

\* What a thread holds. A UserInfo it took is its user's.
Owns(x) ==
    /\ thread[x].pc \in {"login_user", "login_socket", "ask", "invite", "enter", "join",
                         "clear_leave", "meet", "group"} =>
         /\ thread[x].uid \in Users
         /\ thread[x].info # 0
         /\ infos[thread[x].info].user = thread[x].uid
    /\ thread[x].pc \in {"ask", "invite", "join", "clear_leave", "meet"} =>
         thread[x].opp \in Users /\ thread[x].opp # thread[x].uid
    /\ thread[x].pc \in {"quit", "clear_meeting", "clear_user", "erase"} =>
         thread[x].uid \in Users
    /\ thread[x].pc \in {"login_user", "login_socket", "quit", "aberrant"} =>
         thread[x].socket \in Sockets
    /\ thread[x].pc = "aberrant" => thread[x].info # 0
    /\ x = Network =>
         thread[x].pc \in {"idle", "aberrant", "clear_meeting", "clear_user", "erase"}
    /\ (x = Network /\ thread[x].pc # "idle") => thread[x].socket \in Sockets
    /\ thread[x].pc \in {"invite", "enter", "join", "clear_leave", "meet", "group"} =>
         thread[x].session # NoSession
    /\ thread[x].pc = "group" => thread[x].session \in Groups

ThreadOwn == \A x \in Threads : Owns(x)

\* A thread carries a private session for one of its pair.
Carries(x) ==
    thread[x].session \in Sessions =>
        /\ thread[x].uid \in pair[thread[x].session]
        /\ thread[x].pc \in {"invite", "join", "clear_leave", "meet"} =>
             pair[thread[x].session] = {thread[x].uid, thread[x].opp}

ThreadSession == \A x \in Threads : Carries(x)

IInv == TypeOK /\ OwnEntry /\ PairOfTwo /\ ThreadOwn /\ ThreadSession /\ ExclusiveSession

-----------------------------------------------------------------------------
(* Which steps change what *)

\* Each step of a handler changes what its operation on the caches changes.
LEMMA ContinueWrites ==
    ASSUME NEW t \in Threads, Continue(t)
    PROVE  /\ infos' = infos \/ Enter(t) \/ Join(t)
           /\ user_infos_map' = user_infos_map \/ LoginUser(t) \/ EraseUser(t)
           /\ torn' = torn \/ ClearUser(t)
           /\ \/ socket_infos_map' = socket_infos_map /\ late' = late
              \/ LoginSocket(t) \/ QuitSocket(t) \/ (t = Network /\ AberrantSocket)
           /\ leave_infos_map' = leave_infos_map \/ Invite(t) \/ ClearLeave(t) \/ ClearMeeting(t)
           /\ \/ meeting_infos_map' = meeting_infos_map
              \/ Meet(t) \/ EnterGroup(t) \/ ClearMeeting(t)
           /\ pair' = pair \/ AskFirst(t)
  <1>1. CASE LoginUser(t)
    BY <1>1 DEF LoginUser, historyVars
  <1>2. CASE LoginSocket(t) \/ QuitSocket(t)
    BY <1>2 DEF LoginSocket, QuitSocket
  <1>3. CASE AskFirst(t) \/ AskSecond(t)
    BY <1>3 DEF AskFirst, AskSecond, cacheVars, historyVars
  <1>4. CASE Invite(t) \/ ClearLeave(t)
    BY <1>4 DEF Invite, ClearLeave, historyVars
  <1>5. CASE Enter(t) \/ Join(t)
    BY <1>5 DEF Enter, Join, historyVars
  <1>6. CASE Meet(t) \/ EnterGroup(t)
    BY <1>6 DEF Meet, EnterGroup, historyVars
  <1>7. CASE ClearMeeting(t)
    BY <1>7 DEF ClearMeeting, historyVars
  <1>8. CASE ClearUser(t) \/ EraseUser(t)
    BY <1>8 DEF ClearUser, EraseUser, cacheVars, historyVars
  <1>9. CASE t = Network /\ AberrantSocket
    BY <1>9 DEF AberrantSocket, historyVars
  <1> QED
    BY <1>1, <1>2, <1>3, <1>4, <1>5, <1>6, <1>7, <1>8, <1>9 DEF Continue

\* Clients change no cache; a handler that begins at most makes a UserInfo.
LEMMA OthersWrite ==
    ASSUME \/ \E u \in Users, s \in Sockets : Connect(u, s)
           \/ \E s \in Sockets : Close(s)
           \/ \E t \in Workers : Begin(t)
    PROVE  /\ UNCHANGED <<user_infos_map, socket_infos_map, leave_infos_map,
                          meeting_infos_map, pair, late, torn>>
           /\ infos' = infos \/ \E u \in Users, s \in Sockets : NewInfo(u, s)
  <1>1. ASSUME NEW u \in Users, NEW s \in Sockets, Connect(u, s)
        PROVE  UNCHANGED <<cacheVars, pair, late, torn>>
    BY <1>1 DEF Connect, historyVars
  <1>2. ASSUME NEW s \in Sockets, Close(s)
        PROVE  UNCHANGED <<cacheVars, pair, late, torn>>
    BY <1>2 DEF Close, historyVars
  <1>3. ASSUME NEW t \in Workers, NEW u \in Users, NEW s \in Sockets, Login(t, u, s)
        PROVE  /\ UNCHANGED <<user_infos_map, socket_infos_map, leave_infos_map,
                              meeting_infos_map, pair, late, torn>>
               /\ NewInfo(u, s)
    BY <1>3 DEF Login, historyVars
  <1>4. ASSUME NEW t \in Workers, NEW u \in Users, NEW s \in Sockets, NEW x,
               Ask(t, u, s, x) \/ AskGroup(t, u, s, x) \/ Quit(t, u, s, x)
        PROVE  UNCHANGED <<cacheVars, pair, late, torn>>
    BY <1>4 DEF Ask, AskGroup, Quit, historyVars
  <1>5. ASSUME UNCHANGED <<cacheVars, pair, late, torn>>
        PROVE  UNCHANGED <<infos, user_infos_map, socket_infos_map, leave_infos_map,
                           meeting_infos_map, pair, late, torn>>
    BY <1>5 DEF cacheVars
  <1> QED
    BY <1>1, <1>2, <1>3, <1>4, <1>5 DEF Begin

\* Which steps change which cache, and the sessions drawn.
LEMMA Writers ==
    ASSUME Next
    PROVE  /\ \/ infos' = infos
              \/ \E u \in Users, s \in Sockets : NewInfo(u, s)
              \/ \E t \in Threads : Enter(t) \/ Join(t)
           /\ \/ user_infos_map' = user_infos_map
              \/ \E t \in Threads : LoginUser(t) \/ EraseUser(t)
           /\ torn' = torn \/ \E t \in Threads : ClearUser(t)
           /\ \/ socket_infos_map' = socket_infos_map /\ late' = late
              \/ \E t \in Threads :
                   LoginSocket(t) \/ QuitSocket(t) \/ (t = Network /\ AberrantSocket)
           /\ \/ leave_infos_map' = leave_infos_map
              \/ \E t \in Threads : Invite(t) \/ ClearLeave(t) \/ ClearMeeting(t)
           /\ \/ meeting_infos_map' = meeting_infos_map
              \/ \E t \in Threads : Meet(t) \/ EnterGroup(t) \/ ClearMeeting(t)
           /\ pair' = pair \/ \E t \in Threads : AskFirst(t)
  BY ContinueWrites, OthersWrite DEF Next

-----------------------------------------------------------------------------
(* UserInfo *)

Info == [user : Users, socket : Sockets, session : AnySession]

\* Setting the session of one UserInfo changes nothing else of any.
LEMMA SetSession ==
    ASSUME infos \in Seq(Info), NEW i \in 1 .. Len(infos), NEW s \in AnySession,
           set_session(i, s)
    PROVE  /\ infos' \in Seq(Info) /\ Len(infos') = Len(infos)
           /\ \A j \in 1 .. Len(infos) :
                /\ infos'[j].user = infos[j].user /\ infos'[j].socket = infos[j].socket
                /\ infos'[j].session = IF j = i THEN s ELSE infos[j].session
  <1>1. infos[i] \in Info
    OBVIOUS
  <1>2. infos' = [infos EXCEPT ![i] = [infos[i] EXCEPT !.session = s]]
    BY DEF set_session
  <1>3. [infos[i] EXCEPT !.session = s] \in Info
    BY <1>1 DEF Info
  <1>4. infos' \in Seq(Info) /\ Len(infos') = Len(infos)
    BY <1>2, <1>3
  <1>5. ASSUME NEW j \in 1 .. Len(infos)
        PROVE  /\ infos'[j].user = infos[j].user /\ infos'[j].socket = infos[j].socket
               /\ infos'[j].session = IF j = i THEN s ELSE infos[j].session
    <2>1. infos[j] \in Info
      OBVIOUS
    <2>. QED BY <1>1, <1>2, <2>1 DEF Info
  <1>. QED BY <1>4, <1>5

\* A sign-in adds a UserInfo and keeps the others.
LEMMA AddInfo ==
    ASSUME infos \in Seq(Info), NEW u \in Users, NEW s \in Sockets, NewInfo(u, s)
    PROVE  /\ infos' \in Seq(Info) /\ Len(infos') = Len(infos) + 1
           /\ \A j \in 1 .. Len(infos) : infos'[j] = infos[j]
           /\ infos'[Len(infos) + 1] = [user |-> u, socket |-> s, session |-> NoSession]
  <1>1. [user |-> u, socket |-> s, session |-> NoSession] \in Info
    BY DEF Info, AnySession
  <1>. QED BY <1>1 DEF NewInfo
-----------------------------------------------------------------------------
(* The entries of users *)

\* A change of the map loses the entries it is to lose; more of them, or none,
\* only if two threads erased from it at once. No entry changes.
LEMMA Changed ==
    ASSUME NEW n \in Nat, NEW map \in [Users -> 0 .. n], NEW gone, Change(map, gone)
    PROVE  /\ user_infos_map' \in [Users -> 0 .. n]
           /\ \A v \in Users : user_infos_map'[v] \in {0, map[v]}
           /\ ~torn => \A v \in Users :
                         user_infos_map'[v] = IF v \in gone THEN 0 ELSE map[v]
  <1>1. PICK lost \in IF torn THEN SUBSET Users ELSE {gone} :
          user_infos_map' = [v \in Users |-> IF v \in lost THEN 0 ELSE map[v]]
    BY DEF Change
  <1>2. ~torn => lost = gone
    BY <1>1
  <1>. QED BY <1>1, <1>2

\* The entry of a user who signs in is the new UserInfo.
LEMMA Added ==
    ASSUME NEW n \in Nat, user_infos_map \in [Users -> 0 .. n],
           NEW u \in Users, NEW i \in 0 .. n, AddUserInfos(u, i)
    PROVE  /\ user_infos_map' \in [Users -> 0 .. n]
           /\ user_infos_map'[u] \in {0, i}
           /\ \A v \in Users \ {u} : user_infos_map'[v] \in {0, user_infos_map[v]}
           /\ ~torn => /\ user_infos_map'[u] = i
                       /\ \A v \in Users \ {u} : user_infos_map'[v] = user_infos_map[v]
  <1> DEFINE map == [user_infos_map EXCEPT ![u] = i]
  <1>1. map \in [Users -> 0 .. n] /\ Change(map, {})
    BY DEF AddUserInfos
  <1>2. map[u] = i /\ \A v \in Users \ {u} : map[v] = user_infos_map[v]
    OBVIOUS
  <1> HIDE DEF map
  <1>3. /\ user_infos_map' \in [Users -> 0 .. n]
        /\ \A v \in Users : user_infos_map'[v] \in {0, map[v]}
        /\ ~torn => \A v \in Users : user_infos_map'[v] = map[v]
    BY <1>1, Changed
  <1>. QED BY <1>2, <1>3

\* A deletion removes its user, and no other.
LEMMA Erased ==
    ASSUME NEW n \in Nat, user_infos_map \in [Users -> 0 .. n],
           NEW u \in Users, DelUserInos(u)
    PROVE  /\ user_infos_map' \in [Users -> 0 .. n]
           /\ \A v \in Users : user_infos_map'[v] \in {0, user_infos_map[v]}
           /\ ~torn => /\ user_infos_map'[u] = 0
                       /\ \A v \in Users \ {u} : user_infos_map'[v] = user_infos_map[v]
  <1>1. Change(user_infos_map, {u})
    BY DEF DelUserInos
  <1>2. /\ user_infos_map' \in [Users -> 0 .. n]
        /\ \A v \in Users : user_infos_map'[v] \in {0, user_infos_map[v]}
        /\ ~torn => \A v \in Users :
                      user_infos_map'[v] = IF v \in {u} THEN 0 ELSE user_infos_map[v]
    BY <1>1, Changed
  <1>. QED BY <1>2

-----------------------------------------------------------------------------
(* Threads *)

Pcs == {"idle", "login_user", "login_socket", "ask", "invite", "enter", "join",
        "clear_leave", "meet", "group", "quit", "aberrant", "clear_meeting", "clear_user",
        "erase"}

ThreadRecord(n) ==
    [pc : Pcs, uid : Users \cup {Nobody}, opp : Users \cup {Nobody},
     socket : Sockets \cup {0}, info : 0 .. n, session : AnySession]

ThreadType == thread \in [Threads -> ThreadRecord(Len(infos))]

\* TypeOK, the threads apart.
CacheType ==
    /\ infos \in Seq(Info)
    /\ user_infos_map \in [Users -> 0 .. Len(infos)]
    /\ socket_infos_map \in [Sockets -> 0 .. Len(infos)]
    /\ leave_infos_map \in [Users -> [Users -> AnySession]]
    /\ meeting_infos_map \in [Sessions \cup Groups -> SUBSET Users]
    /\ conn \in [Sockets -> Users \cup {Nobody}]
    /\ packets \subseteq Users \X Sockets
    /\ handled \in 0 .. MaxPackets
    /\ told \in [Users -> SUBSET (Sessions \cup Groups)]
    /\ pair \in [Sessions -> SUBSET Users]
    /\ late \subseteq Sockets
    /\ torn \in BOOLEAN

\* TypeOK is the types of the caches and those of the handlers.
LEMMA TypeSplit == TypeOK <=> CacheType /\ ThreadType
  BY DEF TypeOK, CacheType, ThreadType, ThreadRecord, Pcs, Info

\* The same after a step.
LEMMA TypeSplitPrime == TypeOK' <=> CacheType' /\ ThreadType'
  BY DEF TypeOK, CacheType, ThreadType, ThreadRecord, Pcs, Info

\* A step of one thread leaves the others what they hold.
LEMMA OtherThreads ==
    ASSUME IInv, NEW t \in Threads, thread'[t] \in ThreadRecord(Len(infos')),
           thread' = [thread EXCEPT ![t] = thread'[t]],
           Len(infos) \in Nat, Len(infos') \in Nat, Len(infos) <= Len(infos'),
           \A i \in 1 .. Len(infos) : infos'[i].user = infos[i].user,
           \A s \in Sessions : pair[s] # {} => pair'[s] = pair[s],
           Owns(t)', Carries(t)'
    PROVE  ThreadType' /\ ThreadOwn' /\ ThreadSession'
  <1>1. thread \in [Threads -> ThreadRecord(Len(infos))] /\ ThreadOwn /\ ThreadSession
    BY TypeSplit DEF IInv, ThreadType
  <1>2. \A x \in Threads : x # t => thread'[x] = thread[x]
    BY <1>1
  <1>3. ThreadRecord(Len(infos)) \subseteq ThreadRecord(Len(infos'))
    BY DEF ThreadRecord
  <1>4. ThreadType'
    BY <1>1, <1>3 DEF ThreadType
  <1>5. ASSUME NEW x \in Threads, x # t PROVE Owns(x)'
    <2>1. thread'[x] = thread[x] /\ Owns(x) /\ thread[x].info \in 0 .. Len(infos)
      BY <1>1, <1>2, <1>5 DEF ThreadOwn, ThreadRecord
    <2>2. thread[x].info # 0 => infos'[thread[x].info].user = infos[thread[x].info].user
      BY <2>1
    <2>. QED BY <2>1, <2>2 DEF Owns
  <1>6. ASSUME NEW x \in Threads, x # t PROVE Carries(x)'
    <2>1. thread'[x] = thread[x] /\ Carries(x)
      BY <1>1, <1>2, <1>6 DEF ThreadSession
    <2>. QED BY <2>1 DEF Carries
  <1>. QED BY <1>4, <1>5, <1>6 DEF ThreadOwn, ThreadSession

-----------------------------------------------------------------------------
(* One lemma per step *)

\* AddUserInfos of OnUserLogin: the user's entry becomes the new UserInfo.
LEMMA LoginUserStep ==
    ASSUME IInv, NEW t \in Threads, LoginUser(t)
    PROVE  IInv'
  <1> USE CacheAssumption, SessionAssumption DEF CacheAssumption, SessionAssumption
  <1> DEFINE r == [thread[t] EXCEPT !.pc = "login_socket"]
  <1>1. /\ CacheType /\ thread \in [Threads -> ThreadRecord(Len(infos))] /\ Owns(t) /\ Carries(t)
        /\ OwnEntry /\ ExclusiveSession /\ Len(infos) \in Nat
    BY TypeSplit DEF IInv, ThreadType, ThreadOwn, ThreadSession, CacheType
  <1>0. /\ user_infos_map' \in [Users -> 0 .. Len(infos)]
        /\ user_infos_map'[thread[t].uid] \in {0, thread[t].info}
        /\ \A v \in Users \ {thread[t].uid} : user_infos_map'[v] \in {0, user_infos_map[v]}
    <2>1. /\ AddUserInfos(thread[t].uid, thread[t].info) /\ user_infos_map \in [Users -> 0 .. Len(infos)]
          /\ thread[t].uid \in Users /\ thread[t].info \in 0 .. Len(infos)
      BY <1>1 DEF LoginUser, Owns, CacheType, ThreadRecord
    <2>. QED BY <1>1, <2>1, Added
  <1>2. thread' = [thread EXCEPT ![t] = r] /\ UNCHANGED <<infos, pair>>
    BY <1>1 DEF LoginUser, Goto, cacheVars, clientVars, historyVars
  <1>3. thread[t] \in ThreadRecord(Len(infos)) /\ thread'[t] = r
    BY <1>1, <1>2
  <1>4. r \in ThreadRecord(Len(infos'))
    BY <1>1, <1>2, <1>3 DEF LoginUser, Goto, CacheType, ThreadRecord, Pcs, Idle, AnySession, Owns
  <1>5. CacheType'
    BY <1>0, <1>1, <1>2, <1>3 DEF CacheType, ThreadRecord, AnySession, Owns, LoginUser, Goto, cacheVars, clientVars, historyVars
  <1>6. Owns(t)'
    BY <1>1, <1>2, <1>3, <1>4 DEF Owns, OwnEntry, CacheType, ThreadRecord, Idle, LoginUser, Goto
  <1>7. Carries(t)'
    BY <1>1, <1>2, <1>3 DEF Carries, Owns, ExclusiveSession, CacheType, ThreadRecord, Idle, AnySession, LoginUser, Goto
  <1> HIDE DEF r
  <1>8. ThreadType' /\ ThreadOwn' /\ ThreadSession'
    <2>1. /\ thread' = [thread EXCEPT ![t] = thread'[t]]
          /\ thread'[t] \in ThreadRecord(Len(infos'))
          /\ Len(infos') = Len(infos)
          /\ \A i \in 1 .. Len(infos) : infos'[i].user = infos[i].user
          /\ \A x \in Sessions : pair[x] # {} => pair'[x] = pair[x]
      BY <1>2, <1>3, <1>4
    <2>2. Len(infos) <= Len(infos') /\ Len(infos') \in Nat
      BY <1>1, <2>1
    <2>. QED BY <1>1, <1>6, <1>7, <2>1, <2>2, OtherThreads
  <1> USE DEF r
  <1>9. OwnEntry'
    BY <1>0, <1>1, <1>2, <1>3 DEF OwnEntry, Owns, CacheType, LoginUser, Goto, cacheVars, clientVars, historyVars
  <1>10. PairOfTwo'
    BY <1>2 DEF IInv, PairOfTwo
  <1>11. ExclusiveSession'
    BY <1>1, <1>2, <1>3 DEF ExclusiveSession, Owns, Carries, CacheType, ThreadRecord, AnySession,
       LoginUser, Goto, cacheVars, clientVars, historyVars
  <1>. QED BY <1>5, <1>8, <1>9, <1>10, <1>11, TypeSplitPrime DEF IInv

\* AddSocket of OnUserLogin: only the socket map changes.
LEMMA LoginSocketStep ==
    ASSUME IInv, NEW t \in Threads, LoginSocket(t)
    PROVE  IInv'
  <1> USE CacheAssumption, SessionAssumption DEF CacheAssumption, SessionAssumption
  <1> DEFINE r == Idle
  <1>1. /\ CacheType /\ thread \in [Threads -> ThreadRecord(Len(infos))] /\ Owns(t) /\ Carries(t)
        /\ OwnEntry /\ ExclusiveSession /\ Len(infos) \in Nat
    BY TypeSplit DEF IInv, ThreadType, ThreadOwn, ThreadSession, CacheType
  <1>2. thread' = [thread EXCEPT ![t] = r] /\ UNCHANGED <<infos, pair>>
    BY <1>1 DEF LoginSocket, AddSocket, NoteLate, Done, cacheVars, clientVars, historyVars
  <1>3. thread[t] \in ThreadRecord(Len(infos)) /\ thread'[t] = r
    BY <1>1, <1>2
  <1>4. r \in ThreadRecord(Len(infos'))
    BY <1>1, <1>2, <1>3 DEF LoginSocket, AddSocket, NoteLate, Done, CacheType, ThreadRecord, Pcs, Idle, AnySession, Owns
  <1>5. CacheType'
    BY <1>1, <1>2, <1>3 DEF CacheType, ThreadRecord, AnySession, Owns, LoginSocket, AddSocket, NoteLate, Done, cacheVars, clientVars, historyVars
  <1>6. Owns(t)'
    BY <1>1, <1>2, <1>3, <1>4 DEF Owns, OwnEntry, CacheType, ThreadRecord, Idle, LoginSocket, AddSocket, NoteLate, Done
  <1>7. Carries(t)'
    BY <1>1, <1>2, <1>3 DEF Carries, Owns, ExclusiveSession, CacheType, ThreadRecord, Idle, AnySession, LoginSocket, AddSocket, NoteLate, Done
  <1> HIDE DEF r
  <1>8. ThreadType' /\ ThreadOwn' /\ ThreadSession'
    <2>1. /\ thread' = [thread EXCEPT ![t] = thread'[t]]
          /\ thread'[t] \in ThreadRecord(Len(infos'))
          /\ Len(infos') = Len(infos)
          /\ \A i \in 1 .. Len(infos) : infos'[i].user = infos[i].user
          /\ \A x \in Sessions : pair[x] # {} => pair'[x] = pair[x]
      BY <1>2, <1>3, <1>4
    <2>2. Len(infos) <= Len(infos') /\ Len(infos') \in Nat
      BY <1>1, <2>1
    <2>. QED BY <1>1, <1>6, <1>7, <2>1, <2>2, OtherThreads
  <1> USE DEF r
  <1>9. OwnEntry'
    BY <1>1, <1>2, <1>3 DEF OwnEntry, Owns, CacheType, LoginSocket, AddSocket, NoteLate, Done, cacheVars, clientVars, historyVars
  <1>10. PairOfTwo'
    BY <1>2 DEF IInv, PairOfTwo
  <1>11. ExclusiveSession'
    BY <1>1, <1>2, <1>3 DEF ExclusiveSession, Owns, Carries, CacheType, ThreadRecord, AnySession,
       LoginSocket, AddSocket, NoteLate, Done, cacheVars, clientVars, historyVars
  <1>. QED BY <1>5, <1>8, <1>9, <1>10, <1>11, TypeSplitPrime DEF IInv

\* AddLeaveInfos of OnGetUserInfo: the invitation left for the opponent holds
\* the pair's session, which the thread owns.
LEMMA InviteStep ==
    ASSUME IInv, NEW t \in Threads, Invite(t)
    PROVE  IInv'
  <1> USE CacheAssumption, SessionAssumption DEF CacheAssumption, SessionAssumption
  <1> DEFINE r == [thread[t] EXCEPT !.pc = "enter"]
  <1>1. /\ CacheType /\ thread \in [Threads -> ThreadRecord(Len(infos))] /\ Owns(t) /\ Carries(t)
        /\ OwnEntry /\ ExclusiveSession /\ Len(infos) \in Nat
    BY TypeSplit DEF IInv, ThreadType, ThreadOwn, ThreadSession, CacheType
  <1>2. thread' = [thread EXCEPT ![t] = r] /\ UNCHANGED <<infos, pair>>
    BY <1>1 DEF Invite, AddLeaveInfos, Goto, cacheVars, clientVars, historyVars
  <1>3. thread[t] \in ThreadRecord(Len(infos)) /\ thread'[t] = r
    BY <1>1, <1>2
  <1>4. r \in ThreadRecord(Len(infos'))
    BY <1>1, <1>2, <1>3 DEF Invite, AddLeaveInfos, Goto, CacheType, ThreadRecord, Pcs, Idle, AnySession, Owns
  <1>5. CacheType'
    BY <1>1, <1>2, <1>3 DEF CacheType, ThreadRecord, AnySession, Owns, Invite, AddLeaveInfos, Goto, cacheVars, clientVars, historyVars
  <1>6. Owns(t)'
    BY <1>1, <1>2, <1>3, <1>4 DEF Owns, OwnEntry, CacheType, ThreadRecord, Idle, Invite, AddLeaveInfos, Goto
  <1>7. Carries(t)'
    BY <1>1, <1>2, <1>3 DEF Carries, Owns, ExclusiveSession, CacheType, ThreadRecord, Idle, AnySession, Invite, AddLeaveInfos, Goto
  <1> HIDE DEF r
  <1>8. ThreadType' /\ ThreadOwn' /\ ThreadSession'
    <2>1. /\ thread' = [thread EXCEPT ![t] = thread'[t]]
          /\ thread'[t] \in ThreadRecord(Len(infos'))
          /\ Len(infos') = Len(infos)
          /\ \A i \in 1 .. Len(infos) : infos'[i].user = infos[i].user
          /\ \A x \in Sessions : pair[x] # {} => pair'[x] = pair[x]
      BY <1>2, <1>3, <1>4
    <2>2. Len(infos) <= Len(infos') /\ Len(infos') \in Nat
      BY <1>1, <2>1
    <2>. QED BY <1>1, <1>6, <1>7, <2>1, <2>2, OtherThreads
  <1> USE DEF r
  <1>9. OwnEntry'
    BY <1>1, <1>2, <1>3 DEF OwnEntry, Owns, CacheType, Invite, AddLeaveInfos, Goto, cacheVars, clientVars, historyVars
  <1>10. PairOfTwo'
    BY <1>2 DEF IInv, PairOfTwo
  <1>11. ExclusiveSession'
    BY <1>1, <1>2, <1>3 DEF ExclusiveSession, Owns, Carries, CacheType, ThreadRecord, AnySession,
       Invite, AddLeaveInfos, Goto, cacheVars, clientVars, historyVars
  <1>. QED BY <1>5, <1>8, <1>9, <1>10, <1>11, TypeSplitPrime DEF IInv

\* The session found is an invitation's, so it is the pair's or a group's.
LEMMA AskSecondStep ==
    ASSUME IInv, NEW t \in Threads, AskSecond(t)
    PROVE  IInv'
  <1> USE CacheAssumption, SessionAssumption DEF CacheAssumption, SessionAssumption
  <1> DEFINE r == [thread[t] EXCEPT !.pc = "join", !.session = leave_infos_map[thread[t].uid][thread[t].opp]]
  <1>1. /\ CacheType /\ thread \in [Threads -> ThreadRecord(Len(infos))] /\ Owns(t) /\ Carries(t)
        /\ OwnEntry /\ ExclusiveSession /\ Len(infos) \in Nat
    BY TypeSplit DEF IInv, ThreadType, ThreadOwn, ThreadSession, CacheType
  <1>2. thread' = [thread EXCEPT ![t] = r] /\ UNCHANGED <<infos, pair>>
    BY <1>1 DEF AskSecond, IsExitsLeaveInfos, cacheVars, clientVars, historyVars
  <1>3. thread[t] \in ThreadRecord(Len(infos)) /\ thread'[t] = r
    BY <1>1, <1>2
  <1>4. r \in ThreadRecord(Len(infos'))
    <2>1. thread[t].uid \in Users /\ thread[t].opp \in Users
      BY <1>1 DEF AskSecond, Owns
    <2>2. leave_infos_map[thread[t].uid][thread[t].opp] \in AnySession
      BY <1>1, <2>1 DEF CacheType
    <2>. QED BY <1>2, <1>3, <2>2 DEF ThreadRecord, Pcs
  <1>5. CacheType'
    BY <1>1, <1>2, <1>3 DEF CacheType, ThreadRecord, AnySession, Owns, AskSecond, IsExitsLeaveInfos, cacheVars, clientVars, historyVars
  <1>6. Owns(t)'
    BY <1>1, <1>2, <1>3, <1>4 DEF Owns, OwnEntry, CacheType, ThreadRecord, Idle, AskSecond, IsExitsLeaveInfos
  <1>7. Carries(t)'
    BY <1>1, <1>2, <1>3 DEF Carries, Owns, ExclusiveSession, CacheType, ThreadRecord, Idle, AnySession, AskSecond, IsExitsLeaveInfos
  <1> HIDE DEF r
  <1>8. ThreadType' /\ ThreadOwn' /\ ThreadSession'
    <2>1. /\ thread' = [thread EXCEPT ![t] = thread'[t]]
          /\ thread'[t] \in ThreadRecord(Len(infos'))
          /\ Len(infos') = Len(infos)
          /\ \A i \in 1 .. Len(infos) : infos'[i].user = infos[i].user
          /\ \A x \in Sessions : pair[x] # {} => pair'[x] = pair[x]
      BY <1>2, <1>3, <1>4
    <2>2. Len(infos) <= Len(infos') /\ Len(infos') \in Nat
      BY <1>1, <2>1
    <2>. QED BY <1>1, <1>6, <1>7, <2>1, <2>2, OtherThreads
  <1> USE DEF r
  <1>9. OwnEntry'
    BY <1>1, <1>2, <1>3 DEF OwnEntry, Owns, CacheType, AskSecond, IsExitsLeaveInfos, cacheVars, clientVars, historyVars
  <1>10. PairOfTwo'
    BY <1>2 DEF IInv, PairOfTwo
  <1>11. ExclusiveSession'
    BY <1>1, <1>2, <1>3 DEF ExclusiveSession, Owns, Carries, CacheType, ThreadRecord, AnySession,
       AskSecond, IsExitsLeaveInfos, cacheVars, clientVars, historyVars
  <1>. QED BY <1>5, <1>8, <1>9, <1>10, <1>11, TypeSplitPrime DEF IInv

\* ClearLeaveInfos only removes invitations.
LEMMA ClearLeaveStep ==
    ASSUME IInv, NEW t \in Threads, ClearLeave(t)
    PROVE  IInv'
  <1> USE CacheAssumption, SessionAssumption DEF CacheAssumption, SessionAssumption
  <1> DEFINE r == [thread[t] EXCEPT !.pc = "meet"]
  <1>1. /\ CacheType /\ thread \in [Threads -> ThreadRecord(Len(infos))] /\ Owns(t) /\ Carries(t)
        /\ OwnEntry /\ ExclusiveSession /\ Len(infos) \in Nat
    BY TypeSplit DEF IInv, ThreadType, ThreadOwn, ThreadSession, CacheType
  <1>2. thread' = [thread EXCEPT ![t] = r] /\ UNCHANGED <<infos, pair>>
    BY <1>1 DEF ClearLeave, ClearLeaveInfos, NoInvitations, Goto, cacheVars, clientVars, historyVars
  <1>3. thread[t] \in ThreadRecord(Len(infos)) /\ thread'[t] = r
    BY <1>1, <1>2
  <1>4. r \in ThreadRecord(Len(infos'))
    BY <1>1, <1>2, <1>3 DEF ClearLeave, ClearLeaveInfos, NoInvitations, Goto, CacheType, ThreadRecord, Pcs, Idle, AnySession, Owns
  <1>5. CacheType'
    BY <1>1, <1>2, <1>3 DEF CacheType, ThreadRecord, AnySession, Owns, ClearLeave, ClearLeaveInfos, NoInvitations, Goto, cacheVars, clientVars, historyVars
  <1>6. Owns(t)'
    BY <1>1, <1>2, <1>3, <1>4 DEF Owns, OwnEntry, CacheType, ThreadRecord, Idle, ClearLeave, ClearLeaveInfos, NoInvitations, Goto
  <1>7. Carries(t)'
    BY <1>1, <1>2, <1>3 DEF Carries, Owns, ExclusiveSession, CacheType, ThreadRecord, Idle, AnySession, ClearLeave, ClearLeaveInfos, NoInvitations, Goto
  <1> HIDE DEF r
  <1>8. ThreadType' /\ ThreadOwn' /\ ThreadSession'
    <2>1. /\ thread' = [thread EXCEPT ![t] = thread'[t]]
          /\ thread'[t] \in ThreadRecord(Len(infos'))
          /\ Len(infos') = Len(infos)
          /\ \A i \in 1 .. Len(infos) : infos'[i].user = infos[i].user
          /\ \A x \in Sessions : pair[x] # {} => pair'[x] = pair[x]
      BY <1>2, <1>3, <1>4
    <2>2. Len(infos) <= Len(infos') /\ Len(infos') \in Nat
      BY <1>1, <2>1
    <2>. QED BY <1>1, <1>6, <1>7, <2>1, <2>2, OtherThreads
  <1> USE DEF r
  <1>9. OwnEntry'
    BY <1>1, <1>2, <1>3 DEF OwnEntry, Owns, CacheType, ClearLeave, ClearLeaveInfos, NoInvitations, Goto, cacheVars, clientVars, historyVars
  <1>10. PairOfTwo'
    BY <1>2 DEF IInv, PairOfTwo
  <1>11. ExclusiveSession'
    BY <1>1, <1>2, <1>3 DEF ExclusiveSession, Owns, Carries, CacheType, ThreadRecord, AnySession,
       ClearLeave, ClearLeaveInfos, NoInvitations, Goto, cacheVars, clientVars, historyVars
  <1>. QED BY <1>5, <1>8, <1>9, <1>10, <1>11, TypeSplitPrime DEF IInv

\* AddMeetingPair records the session the thread owns for its pair.
LEMMA MeetStep ==
    ASSUME IInv, NEW t \in Threads, Meet(t)
    PROVE  IInv'
  <1> USE CacheAssumption, SessionAssumption DEF CacheAssumption, SessionAssumption
  <1> DEFINE r == Idle
  <1>1. /\ CacheType /\ thread \in [Threads -> ThreadRecord(Len(infos))] /\ Owns(t) /\ Carries(t)
        /\ OwnEntry /\ ExclusiveSession /\ Len(infos) \in Nat
    BY TypeSplit DEF IInv, ThreadType, ThreadOwn, ThreadSession, CacheType
  <1>2. thread' = [thread EXCEPT ![t] = r] /\ UNCHANGED <<infos, pair>>
    BY <1>1 DEF Meet, AddMeetingPair, Done, cacheVars, clientVars, historyVars
  <1>3. thread[t] \in ThreadRecord(Len(infos)) /\ thread'[t] = r
    BY <1>1, <1>2
  <1>4. r \in ThreadRecord(Len(infos'))
    BY <1>1, <1>2, <1>3 DEF Meet, AddMeetingPair, Done, CacheType, ThreadRecord, Pcs, Idle, AnySession, Owns
  <1>5. CacheType'
    BY <1>1, <1>2, <1>3 DEF CacheType, ThreadRecord, AnySession, Owns, Meet, AddMeetingPair, Done, cacheVars, clientVars, historyVars
  <1>6. Owns(t)'
    BY <1>1, <1>2, <1>3, <1>4 DEF Owns, OwnEntry, CacheType, ThreadRecord, Idle, Meet, AddMeetingPair, Done
  <1>7. Carries(t)'
    BY <1>1, <1>2, <1>3 DEF Carries, Owns, ExclusiveSession, CacheType, ThreadRecord, Idle, AnySession, Meet, AddMeetingPair, Done
  <1> HIDE DEF r
  <1>8. ThreadType' /\ ThreadOwn' /\ ThreadSession'
    <2>1. /\ thread' = [thread EXCEPT ![t] = thread'[t]]
          /\ thread'[t] \in ThreadRecord(Len(infos'))
          /\ Len(infos') = Len(infos)
          /\ \A i \in 1 .. Len(infos) : infos'[i].user = infos[i].user
          /\ \A x \in Sessions : pair[x] # {} => pair'[x] = pair[x]
      BY <1>2, <1>3, <1>4
    <2>2. Len(infos) <= Len(infos') /\ Len(infos') \in Nat
      BY <1>1, <2>1
    <2>. QED BY <1>1, <1>6, <1>7, <2>1, <2>2, OtherThreads
  <1> USE DEF r
  <1>9. OwnEntry'
    BY <1>1, <1>2, <1>3 DEF OwnEntry, Owns, CacheType, Meet, AddMeetingPair, Done, cacheVars, clientVars, historyVars
  <1>10. PairOfTwo'
    BY <1>2 DEF IInv, PairOfTwo
  <1>11. ExclusiveSession'
    BY <1>1, <1>2, <1>3 DEF ExclusiveSession, Owns, Carries, CacheType, ThreadRecord, AnySession,
       Meet, AddMeetingPair, Done, cacheVars, clientVars, historyVars
  <1>. QED BY <1>5, <1>8, <1>9, <1>10, <1>11, TypeSplitPrime DEF IInv

\* OnGetGroupInfo adds a member to a group, whose session is no private one.
LEMMA EnterGroupStep ==
    ASSUME IInv, NEW t \in Threads, EnterGroup(t)
    PROVE  IInv'
  <1> USE CacheAssumption, SessionAssumption DEF CacheAssumption, SessionAssumption
  <1> DEFINE r == [thread[t] EXCEPT !.pc = "enter"]
  <1>1. /\ CacheType /\ thread \in [Threads -> ThreadRecord(Len(infos))] /\ Owns(t) /\ Carries(t)
        /\ OwnEntry /\ ExclusiveSession /\ Len(infos) \in Nat
    BY TypeSplit DEF IInv, ThreadType, ThreadOwn, ThreadSession, CacheType
  <1>2. thread' = [thread EXCEPT ![t] = r] /\ UNCHANGED <<infos, pair>>
    BY <1>1 DEF EnterGroup, AddMeetingMember, Goto, cacheVars, clientVars, historyVars
  <1>3. thread[t] \in ThreadRecord(Len(infos)) /\ thread'[t] = r
    BY <1>1, <1>2
  <1>4. r \in ThreadRecord(Len(infos'))
    BY <1>1, <1>2, <1>3 DEF EnterGroup, AddMeetingMember, Goto, CacheType, ThreadRecord, Pcs, Idle, AnySession, Owns
  <1>5. CacheType'
    BY <1>1, <1>2, <1>3 DEF CacheType, ThreadRecord, AnySession, Owns, EnterGroup, AddMeetingMember, Goto, cacheVars, clientVars, historyVars
  <1>6. Owns(t)'
    BY <1>1, <1>2, <1>3, <1>4 DEF Owns, OwnEntry, CacheType, ThreadRecord, Idle, EnterGroup, AddMeetingMember, Goto
  <1>7. Carries(t)'
    BY <1>1, <1>2, <1>3 DEF Carries, Owns, ExclusiveSession, CacheType, ThreadRecord, Idle, AnySession, EnterGroup, AddMeetingMember, Goto
  <1> HIDE DEF r
  <1>8. ThreadType' /\ ThreadOwn' /\ ThreadSession'
    <2>1. /\ thread' = [thread EXCEPT ![t] = thread'[t]]
          /\ thread'[t] \in ThreadRecord(Len(infos'))
          /\ Len(infos') = Len(infos)
          /\ \A i \in 1 .. Len(infos) : infos'[i].user = infos[i].user
          /\ \A x \in Sessions : pair[x] # {} => pair'[x] = pair[x]
      BY <1>2, <1>3, <1>4
    <2>2. Len(infos) <= Len(infos') /\ Len(infos') \in Nat
      BY <1>1, <2>1
    <2>. QED BY <1>1, <1>6, <1>7, <2>1, <2>2, OtherThreads
  <1> USE DEF r
  <1>9. OwnEntry'
    BY <1>1, <1>2, <1>3 DEF OwnEntry, Owns, CacheType, EnterGroup, AddMeetingMember, Goto, cacheVars, clientVars, historyVars
  <1>10. PairOfTwo'
    BY <1>2 DEF IInv, PairOfTwo
  <1>11. ExclusiveSession'
    BY <1>1, <1>2, <1>3 DEF ExclusiveSession, Owns, Carries, CacheType, ThreadRecord, AnySession,
       EnterGroup, AddMeetingMember, Goto, cacheVars, clientVars, historyVars
  <1>. QED BY <1>5, <1>8, <1>9, <1>10, <1>11, TypeSplitPrime DEF IInv

\* DelSocket of OnUserQuit: only the socket map changes.
LEMMA QuitSocketStep ==
    ASSUME IInv, NEW t \in Threads, QuitSocket(t)
    PROVE  IInv'
  <1> USE CacheAssumption, SessionAssumption DEF CacheAssumption, SessionAssumption
  <1> DEFINE r == [thread[t] EXCEPT !.pc = "clear_meeting"]
  <1>1. /\ CacheType /\ thread \in [Threads -> ThreadRecord(Len(infos))] /\ Owns(t) /\ Carries(t)
        /\ OwnEntry /\ ExclusiveSession /\ Len(infos) \in Nat
    BY TypeSplit DEF IInv, ThreadType, ThreadOwn, ThreadSession, CacheType
  <1>2. thread' = [thread EXCEPT ![t] = r] /\ UNCHANGED <<infos, pair>>
    BY <1>1 DEF QuitSocket, DelSocket, NoteLate, Goto, cacheVars, clientVars, historyVars
  <1>3. thread[t] \in ThreadRecord(Len(infos)) /\ thread'[t] = r
    BY <1>1, <1>2
  <1>4. r \in ThreadRecord(Len(infos'))
    BY <1>1, <1>2, <1>3 DEF QuitSocket, DelSocket, NoteLate, Goto, CacheType, ThreadRecord, Pcs, Idle, AnySession, Owns
  <1>5. CacheType'
    BY <1>1, <1>2, <1>3 DEF CacheType, ThreadRecord, AnySession, Owns, QuitSocket, DelSocket, NoteLate, Goto, cacheVars, clientVars, historyVars
  <1>6. Owns(t)'
    BY <1>1, <1>2, <1>3, <1>4 DEF Owns, OwnEntry, CacheType, ThreadRecord, Idle, QuitSocket, DelSocket, NoteLate, Goto
  <1>7. Carries(t)'
    BY <1>1, <1>2, <1>3 DEF Carries, Owns, ExclusiveSession, CacheType, ThreadRecord, Idle, AnySession, QuitSocket, DelSocket, NoteLate, Goto
  <1> HIDE DEF r
  <1>8. ThreadType' /\ ThreadOwn' /\ ThreadSession'
    <2>1. /\ thread' = [thread EXCEPT ![t] = thread'[t]]
          /\ thread'[t] \in ThreadRecord(Len(infos'))
          /\ Len(infos') = Len(infos)
          /\ \A i \in 1 .. Len(infos) : infos'[i].user = infos[i].user
          /\ \A x \in Sessions : pair[x] # {} => pair'[x] = pair[x]
      BY <1>2, <1>3, <1>4
    <2>2. Len(infos) <= Len(infos') /\ Len(infos') \in Nat
      BY <1>1, <2>1
    <2>. QED BY <1>1, <1>6, <1>7, <2>1, <2>2, OtherThreads
  <1> USE DEF r
  <1>9. OwnEntry'
    BY <1>1, <1>2, <1>3 DEF OwnEntry, Owns, CacheType, QuitSocket, DelSocket, NoteLate, Goto, cacheVars, clientVars, historyVars
  <1>10. PairOfTwo'
    BY <1>2 DEF IInv, PairOfTwo
  <1>11. ExclusiveSession'
    BY <1>1, <1>2, <1>3 DEF ExclusiveSession, Owns, Carries, CacheType, ThreadRecord, AnySession,
       QuitSocket, DelSocket, NoteLate, Goto, cacheVars, clientVars, historyVars
  <1>. QED BY <1>5, <1>8, <1>9, <1>10, <1>11, TypeSplitPrime DEF IInv

\* DelUserInos begins: the caches stay as they are.
LEMMA ClearUserStep ==
    ASSUME IInv, NEW t \in Threads, ClearUser(t)
    PROVE  IInv'
  <1> USE CacheAssumption, SessionAssumption DEF CacheAssumption, SessionAssumption
  <1> DEFINE r == [thread[t] EXCEPT !.pc = "erase"]
  <1>1. /\ CacheType /\ thread \in [Threads -> ThreadRecord(Len(infos))] /\ Owns(t) /\ Carries(t)
        /\ OwnEntry /\ ExclusiveSession /\ Len(infos) \in Nat
    BY TypeSplit DEF IInv, ThreadType, ThreadOwn, ThreadSession, CacheType
  <1>2. thread' = [thread EXCEPT ![t] = r] /\ UNCHANGED <<infos, pair>>
    BY <1>1 DEF ClearUser, Goto, cacheVars, clientVars, historyVars
  <1>3. thread[t] \in ThreadRecord(Len(infos)) /\ thread'[t] = r
    BY <1>1, <1>2
  <1>4. r \in ThreadRecord(Len(infos'))
    BY <1>1, <1>2, <1>3 DEF ClearUser, Goto, CacheType, ThreadRecord, Pcs, Idle, AnySession, Owns
  <1>5. CacheType'
    BY <1>1, <1>2, <1>3 DEF CacheType, ThreadRecord, AnySession, Owns, ClearUser, Goto, cacheVars, clientVars, historyVars
  <1>6. Owns(t)'
    BY <1>1, <1>2, <1>3, <1>4 DEF Owns, OwnEntry, CacheType, ThreadRecord, Idle, ClearUser, Goto
  <1>7. Carries(t)'
    BY <1>1, <1>2, <1>3 DEF Carries, Owns, ExclusiveSession, CacheType, ThreadRecord, Idle, AnySession, ClearUser, Goto
  <1> HIDE DEF r
  <1>8. ThreadType' /\ ThreadOwn' /\ ThreadSession'
    <2>1. /\ thread' = [thread EXCEPT ![t] = thread'[t]]
          /\ thread'[t] \in ThreadRecord(Len(infos'))
          /\ Len(infos') = Len(infos)
          /\ \A i \in 1 .. Len(infos) : infos'[i].user = infos[i].user
          /\ \A x \in Sessions : pair[x] # {} => pair'[x] = pair[x]
      BY <1>2, <1>3, <1>4
    <2>2. Len(infos) <= Len(infos') /\ Len(infos') \in Nat
      BY <1>1, <2>1
    <2>. QED BY <1>1, <1>6, <1>7, <2>1, <2>2, OtherThreads
  <1> USE DEF r
  <1>9. OwnEntry'
    BY <1>1, <1>2, <1>3 DEF OwnEntry, Owns, CacheType, ClearUser, Goto, cacheVars, clientVars, historyVars
  <1>10. PairOfTwo'
    BY <1>2 DEF IInv, PairOfTwo
  <1>11. ExclusiveSession'
    BY <1>1, <1>2, <1>3 DEF ExclusiveSession, Owns, Carries, CacheType, ThreadRecord, AnySession,
       ClearUser, Goto, cacheVars, clientVars, historyVars
  <1>. QED BY <1>5, <1>8, <1>9, <1>10, <1>11, TypeSplitPrime DEF IInv

\* DelUserInos erases: only user entries are removed.
LEMMA EraseUserStep ==
    ASSUME IInv, NEW t \in Threads, EraseUser(t)
    PROVE  IInv'
  <1> USE CacheAssumption, SessionAssumption DEF CacheAssumption, SessionAssumption
  <1> DEFINE r == Idle
  <1>1. /\ CacheType /\ thread \in [Threads -> ThreadRecord(Len(infos))] /\ Owns(t) /\ Carries(t)
        /\ OwnEntry /\ ExclusiveSession /\ Len(infos) \in Nat
    BY TypeSplit DEF IInv, ThreadType, ThreadOwn, ThreadSession, CacheType
  <1>0. /\ user_infos_map' \in [Users -> 0 .. Len(infos)]
        /\ \A v \in Users : user_infos_map'[v] \in {0, user_infos_map[v]}
    <2>1. /\ DelUserInos(thread[t].uid) /\ user_infos_map \in [Users -> 0 .. Len(infos)]
          /\ thread[t].uid \in Users
      BY <1>1 DEF EraseUser, Owns, CacheType
    <2>. QED BY <1>1, <2>1, Erased
  <1>2. thread' = [thread EXCEPT ![t] = r] /\ UNCHANGED <<infos, pair>>
    BY <1>1 DEF EraseUser, Done, cacheVars, clientVars, historyVars
  <1>3. thread[t] \in ThreadRecord(Len(infos)) /\ thread'[t] = r
    BY <1>1, <1>2
  <1>4. r \in ThreadRecord(Len(infos'))
    BY <1>1, <1>2, <1>3 DEF EraseUser, Done, CacheType, ThreadRecord, Pcs, Idle, AnySession, Owns
  <1>5. CacheType'
    BY <1>0, <1>1, <1>2, <1>3 DEF CacheType, ThreadRecord, AnySession, Owns, EraseUser, Done, cacheVars, clientVars, historyVars
  <1>6. Owns(t)'
    BY <1>1, <1>2, <1>3, <1>4 DEF Owns, OwnEntry, CacheType, ThreadRecord, Idle, EraseUser, Done
  <1>7. Carries(t)'
    BY <1>1, <1>2, <1>3 DEF Carries, Owns, ExclusiveSession, CacheType, ThreadRecord, Idle, AnySession, EraseUser, Done
  <1> HIDE DEF r
  <1>8. ThreadType' /\ ThreadOwn' /\ ThreadSession'
    <2>1. /\ thread' = [thread EXCEPT ![t] = thread'[t]]
          /\ thread'[t] \in ThreadRecord(Len(infos'))
          /\ Len(infos') = Len(infos)
          /\ \A i \in 1 .. Len(infos) : infos'[i].user = infos[i].user
          /\ \A x \in Sessions : pair[x] # {} => pair'[x] = pair[x]
      BY <1>2, <1>3, <1>4
    <2>2. Len(infos) <= Len(infos') /\ Len(infos') \in Nat
      BY <1>1, <2>1
    <2>. QED BY <1>1, <1>6, <1>7, <2>1, <2>2, OtherThreads
  <1> USE DEF r
  <1>9. OwnEntry'
    BY <1>0, <1>1, <1>2, <1>3 DEF OwnEntry, Owns, CacheType, EraseUser, Done, cacheVars, clientVars, historyVars
  <1>10. PairOfTwo'
    BY <1>2 DEF IInv, PairOfTwo
  <1>11. ExclusiveSession'
    BY <1>1, <1>2, <1>3 DEF ExclusiveSession, Owns, Carries, CacheType, ThreadRecord, AnySession,
       EraseUser, Done, cacheVars, clientVars, historyVars
  <1>. QED BY <1>5, <1>8, <1>9, <1>10, <1>11, TypeSplitPrime DEF IInv

\* OnGetUserInfo starts: the thread holds its packet and no session yet.
LEMMA AskStep ==
    ASSUME IInv, NEW t \in Threads, NEW u \in Users, NEW s \in Sockets,
           NEW v \in Users \ {u}, Ask(t, u, s, v)
    PROVE  IInv'
  <1> USE CacheAssumption, SessionAssumption DEF CacheAssumption, SessionAssumption
  <1> DEFINE r == [Idle EXCEPT !.pc = "ask", !.uid = u, !.opp = v, !.info = user_infos_map[u]]
  <1>1. /\ CacheType /\ thread \in [Threads -> ThreadRecord(Len(infos))] /\ Owns(t) /\ Carries(t)
        /\ OwnEntry /\ ExclusiveSession /\ Len(infos) \in Nat
    BY TypeSplit DEF IInv, ThreadType, ThreadOwn, ThreadSession, CacheType
  <1>2. thread' = [thread EXCEPT ![t] = r] /\ UNCHANGED <<infos, pair>>
    BY <1>1 DEF Ask, Take, cacheVars, clientVars, historyVars
  <1>3. thread[t] \in ThreadRecord(Len(infos)) /\ thread'[t] = r
    BY <1>1, <1>2
  <1>4. r \in ThreadRecord(Len(infos'))
    BY <1>1, <1>2, <1>3 DEF Ask, Take, CacheType, ThreadRecord, Pcs, Idle, AnySession, Owns
  <1>5. CacheType'
    BY <1>1, <1>2, <1>3 DEF CacheType, ThreadRecord, AnySession, Owns, Ask, Take, cacheVars, clientVars, historyVars
  <1>6. Owns(t)'
    BY <1>1, <1>2, <1>3, <1>4 DEF Owns, OwnEntry, CacheType, ThreadRecord, Idle, Ask, Take
  <1>7. Carries(t)'
    BY <1>1, <1>2, <1>3 DEF Carries, Owns, ExclusiveSession, CacheType, ThreadRecord, Idle, AnySession, Ask, Take
  <1> HIDE DEF r
  <1>8. ThreadType' /\ ThreadOwn' /\ ThreadSession'
    <2>1. /\ thread' = [thread EXCEPT ![t] = thread'[t]]
          /\ thread'[t] \in ThreadRecord(Len(infos'))
          /\ Len(infos') = Len(infos)
          /\ \A i \in 1 .. Len(infos) : infos'[i].user = infos[i].user
          /\ \A x \in Sessions : pair[x] # {} => pair'[x] = pair[x]
      BY <1>2, <1>3, <1>4
    <2>2. Len(infos) <= Len(infos') /\ Len(infos') \in Nat
      BY <1>1, <2>1
    <2>. QED BY <1>1, <1>6, <1>7, <2>1, <2>2, OtherThreads
  <1> USE DEF r
  <1>9. OwnEntry'
    BY <1>1, <1>2, <1>3 DEF OwnEntry, Owns, CacheType, Ask, Take, cacheVars, clientVars, historyVars
  <1>10. PairOfTwo'
    BY <1>2 DEF IInv, PairOfTwo
  <1>11. ExclusiveSession'
    BY <1>1, <1>2, <1>3 DEF ExclusiveSession, Owns, Carries, CacheType, ThreadRecord, AnySession,
       Ask, Take, cacheVars, clientVars, historyVars
  <1>. QED BY <1>5, <1>8, <1>9, <1>10, <1>11, TypeSplitPrime DEF IInv

\* OnGetGroupInfo starts.
LEMMA AskGroupStep ==
    ASSUME IInv, NEW t \in Threads, NEW u \in Users, NEW s \in Sockets,
           NEW g \in Groups, AskGroup(t, u, s, g)
    PROVE  IInv'
  <1> USE CacheAssumption, SessionAssumption DEF CacheAssumption, SessionAssumption
  <1> DEFINE r == [Idle EXCEPT !.pc = "group", !.uid = u, !.info = user_infos_map[u], !.session = g]
  <1>1. /\ CacheType /\ thread \in [Threads -> ThreadRecord(Len(infos))] /\ Owns(t) /\ Carries(t)
        /\ OwnEntry /\ ExclusiveSession /\ Len(infos) \in Nat
    BY TypeSplit DEF IInv, ThreadType, ThreadOwn, ThreadSession, CacheType
  <1>2. thread' = [thread EXCEPT ![t] = r] /\ UNCHANGED <<infos, pair>>
    BY <1>1 DEF AskGroup, Take, cacheVars, clientVars, historyVars
  <1>3. thread[t] \in ThreadRecord(Len(infos)) /\ thread'[t] = r
    BY <1>1, <1>2
  <1>4. r \in ThreadRecord(Len(infos'))
    BY <1>1, <1>2, <1>3 DEF AskGroup, Take, CacheType, ThreadRecord, Pcs, Idle, AnySession, Owns
  <1>5. CacheType'
    BY <1>1, <1>2, <1>3 DEF CacheType, ThreadRecord, AnySession, Owns, AskGroup, Take, cacheVars, clientVars, historyVars
  <1>6. Owns(t)'
    BY <1>1, <1>2, <1>3, <1>4 DEF Owns, OwnEntry, CacheType, ThreadRecord, Idle, AskGroup, Take
  <1>7. Carries(t)'
    BY <1>1, <1>2, <1>3 DEF Carries, Owns, ExclusiveSession, CacheType, ThreadRecord, Idle, AnySession, AskGroup, Take
  <1> HIDE DEF r
  <1>8. ThreadType' /\ ThreadOwn' /\ ThreadSession'
    <2>1. /\ thread' = [thread EXCEPT ![t] = thread'[t]]
          /\ thread'[t] \in ThreadRecord(Len(infos'))
          /\ Len(infos') = Len(infos)
          /\ \A i \in 1 .. Len(infos) : infos'[i].user = infos[i].user
          /\ \A x \in Sessions : pair[x] # {} => pair'[x] = pair[x]
      BY <1>2, <1>3, <1>4
    <2>2. Len(infos) <= Len(infos') /\ Len(infos') \in Nat
      BY <1>1, <2>1
    <2>. QED BY <1>1, <1>6, <1>7, <2>1, <2>2, OtherThreads
  <1> USE DEF r
  <1>9. OwnEntry'
    BY <1>1, <1>2, <1>3 DEF OwnEntry, Owns, CacheType, AskGroup, Take, cacheVars, clientVars, historyVars
  <1>10. PairOfTwo'
    BY <1>2 DEF IInv, PairOfTwo
  <1>11. ExclusiveSession'
    BY <1>1, <1>2, <1>3 DEF ExclusiveSession, Owns, Carries, CacheType, ThreadRecord, AnySession,
       AskGroup, Take, cacheVars, clientVars, historyVars
  <1>. QED BY <1>5, <1>8, <1>9, <1>10, <1>11, TypeSplitPrime DEF IInv

\* OnUserQuit starts.
LEMMA QuitStep ==
    ASSUME IInv, NEW t \in Threads, NEW u \in Users, NEW s \in Sockets,
           NEW p \in AnySession, Quit(t, u, s, p)
    PROVE  IInv'
  <1> USE CacheAssumption, SessionAssumption DEF CacheAssumption, SessionAssumption
  <1> DEFINE r == [Idle EXCEPT !.pc = "quit", !.uid = u, !.socket = s, !.session = p]
  <1>1. /\ CacheType /\ thread \in [Threads -> ThreadRecord(Len(infos))] /\ Owns(t) /\ Carries(t)
        /\ OwnEntry /\ ExclusiveSession /\ Len(infos) \in Nat
    BY TypeSplit DEF IInv, ThreadType, ThreadOwn, ThreadSession, CacheType
  <1>2. thread' = [thread EXCEPT ![t] = r] /\ UNCHANGED <<infos, pair>>
    BY <1>1 DEF Quit, Take, cacheVars, clientVars, historyVars
  <1>3. thread[t] \in ThreadRecord(Len(infos)) /\ thread'[t] = r
    BY <1>1, <1>2
  <1>4. r \in ThreadRecord(Len(infos'))
    BY <1>1, <1>2, <1>3 DEF Quit, Take, CacheType, ThreadRecord, Pcs, Idle, AnySession, Owns
  <1>5. CacheType'
    BY <1>1, <1>2, <1>3 DEF CacheType, ThreadRecord, AnySession, Owns, Quit, Take, cacheVars, clientVars, historyVars
  <1>6. Owns(t)'
    BY <1>1, <1>2, <1>3, <1>4 DEF Owns, OwnEntry, CacheType, ThreadRecord, Idle, Quit, Take
  <1>7. Carries(t)'
    BY <1>1, <1>2, <1>3 DEF Carries, Owns, ExclusiveSession, CacheType, ThreadRecord, Idle, AnySession, Quit, Take
  <1> HIDE DEF r
  <1>8. ThreadType' /\ ThreadOwn' /\ ThreadSession'
    <2>1. /\ thread' = [thread EXCEPT ![t] = thread'[t]]
          /\ thread'[t] \in ThreadRecord(Len(infos'))
          /\ Len(infos') = Len(infos)
          /\ \A i \in 1 .. Len(infos) : infos'[i].user = infos[i].user
          /\ \A x \in Sessions : pair[x] # {} => pair'[x] = pair[x]
      BY <1>2, <1>3, <1>4
    <2>2. Len(infos) <= Len(infos') /\ Len(infos') \in Nat
      BY <1>1, <2>1
    <2>. QED BY <1>1, <1>6, <1>7, <2>1, <2>2, OtherThreads
  <1> USE DEF r
  <1>9. OwnEntry'
    BY <1>1, <1>2, <1>3 DEF OwnEntry, Owns, CacheType, Quit, Take, cacheVars, clientVars, historyVars
  <1>10. PairOfTwo'
    BY <1>2 DEF IInv, PairOfTwo
  <1>11. ExclusiveSession'
    BY <1>1, <1>2, <1>3 DEF ExclusiveSession, Owns, Carries, CacheType, ThreadRecord, AnySession,
       Quit, Take, cacheVars, clientVars, historyVars
  <1>. QED BY <1>5, <1>8, <1>9, <1>10, <1>11, TypeSplitPrime DEF IInv

\* The session drawn is new: no cache and no thread holds it.
LEMMA AskFirstStep ==
    ASSUME IInv, NEW t \in Threads, AskFirst(t)
    PROVE  IInv'
  <1> USE CacheAssumption, SessionAssumption DEF CacheAssumption, SessionAssumption
  <1>1. /\ CacheType /\ thread \in [Threads -> ThreadRecord(Len(infos))] /\ Owns(t) /\ Carries(t)
        /\ OwnEntry /\ ExclusiveSession /\ Len(infos) \in Nat
    BY TypeSplit DEF IInv, ThreadType, ThreadOwn, ThreadSession, CacheType
  <1>2. PICK p \in Sessions :
          /\ pair[p] = {}
          /\ pair' = [pair EXCEPT ![p] = {thread[t].uid, thread[t].opp}]
          /\ thread' = [thread EXCEPT ![t].pc = "invite", ![t].session = p]
    BY DEF AskFirst
  <1> DEFINE r == [thread[t] EXCEPT !.pc = "invite", !.session = p]
  <1>3. /\ thread' = [thread EXCEPT ![t] = r] /\ thread'[t] = r
        /\ thread[t] \in ThreadRecord(Len(infos))
        /\ UNCHANGED <<cacheVars, conn, packets, handled, told, late, torn>>
    BY <1>1, <1>2 DEF AskFirst, clientVars
  <1>4. thread[t].pc = "ask" /\ thread[t].uid \in Users /\ thread[t].opp \in Users
        /\ thread[t].uid # thread[t].opp /\ t # Network
    BY <1>1 DEF AskFirst, Owns
  <1>5. r \in ThreadRecord(Len(infos'))
    BY <1>3 DEF ThreadRecord, Pcs, AnySession, cacheVars
  <1>6. /\ pair' \in [Sessions -> SUBSET Users]
        /\ pair'[p] = {thread[t].uid, thread[t].opp}
        /\ \A s \in Sessions : s # p => pair'[s] = pair[s]
    BY <1>1, <1>2, <1>4 DEF CacheType
  <1>7. CacheType'
    BY <1>1, <1>3, <1>6 DEF CacheType, cacheVars
  <1>8. Owns(t)'
    BY <1>1, <1>3, <1>4 DEF Owns, cacheVars, ThreadRecord
  <1>9. Carries(t)'
    <2>1. r.uid = thread[t].uid /\ r.opp = thread[t].opp /\ r.session = p
      BY <1>3 DEF ThreadRecord
    <2>. QED BY <1>3, <1>6, <2>1 DEF Carries
  <1> HIDE DEF r
  <1>10. ThreadType' /\ ThreadOwn' /\ ThreadSession'
    <2>1. /\ thread' = [thread EXCEPT ![t] = thread'[t]]
          /\ thread'[t] \in ThreadRecord(Len(infos'))
          /\ Len(infos') = Len(infos)
          /\ \A i \in 1 .. Len(infos) : infos'[i].user = infos[i].user
          /\ \A s \in Sessions : pair[s] # {} => pair'[s] = pair[s]
      BY <1>2, <1>3, <1>5, <1>6 DEF cacheVars
    <2>2. Len(infos) <= Len(infos') /\ Len(infos') \in Nat
      BY <1>1, <2>1
    <2>. QED BY <1>1, <1>8, <1>9, <2>1, <2>2, OtherThreads
  <1>11. OwnEntry'
    BY <1>1, <1>3 DEF OwnEntry, cacheVars
  <1>12. PairOfTwo'
    BY <1>4, <1>6 DEF IInv, PairOfTwo
  <1>13. ExclusiveSession'
    <2>1. \A s \in Sessions \ {p} : pair'[s] = pair[s]
      BY <1>6
    <2>2. pair[p] = {}
      BY <1>2
    <2>3. \A i \in DOMAIN infos : infos[i].session # p
      BY <1>1, <2>2 DEF ExclusiveSession
    <2>4. \A u, v \in Users : leave_infos_map[u][v] # p
      BY <1>1, <2>2 DEF ExclusiveSession
    <2>5. meeting_infos_map[p] = {}
      BY <1>1, <2>2 DEF ExclusiveSession
    <2>6. \A u \in Users : p \notin told[u]
      BY <1>1, <2>2 DEF ExclusiveSession
    <2>. QED BY <1>1, <1>3, <2>1, <2>3, <2>4, <2>5, <2>6 DEF ExclusiveSession, cacheVars
  <1>. QED BY <1>7, <1>10, <1>11, <1>12, <1>13, TypeSplitPrime DEF IInv

\* The user's UserInfo takes the session, which is the thread's own.
LEMMA EnterStep ==
    ASSUME IInv, NEW t \in Threads, Enter(t)
    PROVE  IInv'
  <1> USE CacheAssumption, SessionAssumption DEF CacheAssumption, SessionAssumption
  <1> DEFINE r == Idle
  <1>1. /\ CacheType /\ thread \in [Threads -> ThreadRecord(Len(infos))] /\ Owns(t) /\ Carries(t)
        /\ OwnEntry /\ ExclusiveSession /\ Len(infos) \in Nat
    BY TypeSplit DEF IInv, ThreadType, ThreadOwn, ThreadSession, CacheType
  <1>2. /\ thread' = [thread EXCEPT ![t] = r] /\ thread'[t] = r
        /\ thread[t] \in ThreadRecord(Len(infos)) /\ UNCHANGED pair
    BY <1>1 DEF Enter, Done, historyVars
  <1>3. /\ thread[t].info \in 1 .. Len(infos) /\ thread[t].uid \in Users
        /\ infos[thread[t].info].user = thread[t].uid
        /\ thread[t].session \in Sessions \cup Groups
    BY <1>1, <1>2 DEF Enter, Owns, ThreadRecord, AnySession
  <1>4. /\ infos' \in Seq(Info) /\ Len(infos') = Len(infos)
        /\ \A j \in 1 .. Len(infos) :
             /\ infos'[j].user = infos[j].user
             /\ infos'[j].session = IF j = thread[t].info THEN thread[t].session
                                    ELSE infos[j].session
    <2>1. infos \in Seq(Info) /\ set_session(thread[t].info, thread[t].session)
      BY <1>1 DEF Enter, CacheType
    <2>2. thread[t].session \in AnySession
      BY <1>3 DEF AnySession
    <2> HIDE CacheAssumption, SessionAssumption DEF r
    <2>. QED BY ONLY <1>3, <2>1, <2>2, SetSession
  <1>5. r \in ThreadRecord(Len(infos'))
    BY <1>2, <1>4 DEF ThreadRecord, Pcs, Idle, AnySession
  <1>6. CacheType'
    BY <1>1, <1>3, <1>4 DEF CacheType, Enter, clientVars, historyVars
  <1>7. Owns(t)'
    BY <1>1, <1>2, <1>3, <1>4 DEF Owns, Enter, ThreadRecord, Idle
  <1>8. Carries(t)'
    BY <1>1, <1>2 DEF Carries, Enter, ThreadRecord, Idle
  <1> HIDE DEF r
  <1>9. ThreadType' /\ ThreadOwn' /\ ThreadSession'
    <2>1. /\ thread' = [thread EXCEPT ![t] = thread'[t]]
          /\ thread'[t] \in ThreadRecord(Len(infos'))
          /\ \A i \in 1 .. Len(infos) : infos'[i].user = infos[i].user
          /\ \A s \in Sessions : pair[s] # {} => pair'[s] = pair[s]
      BY <1>2, <1>4, <1>5
    <2>2. Len(infos) <= Len(infos') /\ Len(infos') \in Nat
      BY <1>1, <1>4
    <2>. QED BY <1>1, <1>7, <1>8, <2>1, <2>2, OtherThreads
  <1>10. OwnEntry'
    <2>1. user_infos_map' = user_infos_map /\ user_infos_map \in [Users -> 0 .. Len(infos)]
      BY <1>1 DEF Enter, CacheType
    <2>. QED BY <1>1, <1>4, <2>1 DEF OwnEntry
  <1>11. PairOfTwo'
    BY <1>2 DEF IInv, PairOfTwo
  <1>12. ExclusiveSession'
    <2>1. \A s \in Sessions : thread[t].session = s => thread[t].uid \in pair[s]
      BY <1>1 DEF Carries
    <2>2. ASSUME NEW s \in Sessions, NEW i \in 1 .. Len(infos'), infos'[i].session = s
          PROVE  infos'[i].user \in pair[s]
      <3>1. i \in 1 .. Len(infos) /\ infos'[i].user = infos[i].user
        BY <1>4
      <3>2. CASE i = thread[t].info
        BY <1>3, <1>4, <2>1, <2>2, <3>1, <3>2
      <3>3. CASE i # thread[t].info
        <4>1. i \in DOMAIN infos /\ infos[i].session = s
          BY <1>1, <1>4, <2>2, <3>1, <3>3 DEF CacheType
        <4>. QED BY <1>1, <3>1, <4>1 DEF ExclusiveSession
      <3>. QED BY <3>2, <3>3
    <2>3. \A s \in Sessions : \A u \in Users : s \in told'[u] => u \in pair[s]
      BY <1>1, <1>3, <2>1 DEF ExclusiveSession, CacheType, Enter, clientVars
    <2>4. DOMAIN infos' = 1 .. Len(infos')
      BY <1>4
    <2>. QED BY <1>1, <1>2, <2>2, <2>3, <2>4 DEF ExclusiveSession, Enter
  <1>. QED BY <1>6, <1>9, <1>10, <1>11, <1>12, TypeSplitPrime DEF IInv

\* The same for the one who joins.
LEMMA JoinStep ==
    ASSUME IInv, NEW t \in Threads, Join(t)
    PROVE  IInv'
  <1> USE CacheAssumption, SessionAssumption DEF CacheAssumption, SessionAssumption
  <1> DEFINE r == [thread[t] EXCEPT !.pc = "clear_leave"]
  <1>1. /\ CacheType /\ thread \in [Threads -> ThreadRecord(Len(infos))] /\ Owns(t) /\ Carries(t)
        /\ OwnEntry /\ ExclusiveSession /\ Len(infos) \in Nat
    BY TypeSplit DEF IInv, ThreadType, ThreadOwn, ThreadSession, CacheType
  <1>2. /\ thread' = [thread EXCEPT ![t] = r] /\ thread'[t] = r
        /\ thread[t] \in ThreadRecord(Len(infos)) /\ UNCHANGED pair
    BY <1>1 DEF Join, Goto, historyVars
  <1>3. /\ thread[t].info \in 1 .. Len(infos) /\ thread[t].uid \in Users
        /\ infos[thread[t].info].user = thread[t].uid
        /\ thread[t].session \in Sessions \cup Groups
    BY <1>1, <1>2 DEF Join, Owns, ThreadRecord, AnySession
  <1>4. /\ infos' \in Seq(Info) /\ Len(infos') = Len(infos)
        /\ \A j \in 1 .. Len(infos) :
             /\ infos'[j].user = infos[j].user
             /\ infos'[j].session = IF j = thread[t].info THEN thread[t].session
                                    ELSE infos[j].session
    <2>1. infos \in Seq(Info) /\ set_session(thread[t].info, thread[t].session)
      BY <1>1 DEF Join, CacheType
    <2>2. thread[t].session \in AnySession
      BY <1>3 DEF AnySession
    <2> HIDE CacheAssumption, SessionAssumption DEF r
    <2>. QED BY ONLY <1>3, <2>1, <2>2, SetSession
  <1>5. r \in ThreadRecord(Len(infos'))
    BY <1>2, <1>4 DEF ThreadRecord, Pcs, Idle, AnySession
  <1>6. CacheType'
    BY <1>1, <1>3, <1>4 DEF CacheType, Join, clientVars, historyVars
  <1>7. Owns(t)'
    BY <1>1, <1>2, <1>3, <1>4 DEF Owns, Join, ThreadRecord, Idle
  <1>8. Carries(t)'
    BY <1>1, <1>2 DEF Carries, Join, ThreadRecord, Idle
  <1> HIDE DEF r
  <1>9. ThreadType' /\ ThreadOwn' /\ ThreadSession'
    <2>1. /\ thread' = [thread EXCEPT ![t] = thread'[t]]
          /\ thread'[t] \in ThreadRecord(Len(infos'))
          /\ \A i \in 1 .. Len(infos) : infos'[i].user = infos[i].user
          /\ \A s \in Sessions : pair[s] # {} => pair'[s] = pair[s]
      BY <1>2, <1>4, <1>5
    <2>2. Len(infos) <= Len(infos') /\ Len(infos') \in Nat
      BY <1>1, <1>4
    <2>. QED BY <1>1, <1>7, <1>8, <2>1, <2>2, OtherThreads
  <1>10. OwnEntry'
    <2>1. user_infos_map' = user_infos_map /\ user_infos_map \in [Users -> 0 .. Len(infos)]
      BY <1>1 DEF Join, CacheType
    <2>. QED BY <1>1, <1>4, <2>1 DEF OwnEntry
  <1>11. PairOfTwo'
    BY <1>2 DEF IInv, PairOfTwo
  <1>12. ExclusiveSession'
    <2>1. \A s \in Sessions : thread[t].session = s => thread[t].uid \in pair[s]
      BY <1>1 DEF Carries
    <2>2. ASSUME NEW s \in Sessions, NEW i \in 1 .. Len(infos'), infos'[i].session = s
          PROVE  infos'[i].user \in pair[s]
      <3>1. i \in 1 .. Len(infos) /\ infos'[i].user = infos[i].user
        BY <1>4
      <3>2. CASE i = thread[t].info
        BY <1>3, <1>4, <2>1, <2>2, <3>1, <3>2
      <3>3. CASE i # thread[t].info
        <4>1. i \in DOMAIN infos /\ infos[i].session = s
          BY <1>1, <1>4, <2>2, <3>1, <3>3 DEF CacheType
        <4>. QED BY <1>1, <3>1, <4>1 DEF ExclusiveSession
      <3>. QED BY <3>2, <3>3
    <2>3. \A s \in Sessions : \A u \in Users : s \in told'[u] => u \in pair[s]
      BY <1>1, <1>3, <2>1 DEF ExclusiveSession, CacheType, Join, clientVars
    <2>4. DOMAIN infos' = 1 .. Len(infos')
      BY <1>4
    <2>. QED BY <1>1, <1>2, <2>2, <2>3, <2>4 DEF ExclusiveSession, Join
  <1>. QED BY <1>6, <1>9, <1>10, <1>11, <1>12, TypeSplitPrime DEF IInv

\* OnUserLogin makes a UserInfo with no session.
LEMMA LoginStep ==
    ASSUME IInv, NEW t \in Threads, NEW u \in Users, NEW s \in Sockets, Login(t, u, s)
    PROVE  IInv'
  <1> USE CacheAssumption, SessionAssumption DEF CacheAssumption, SessionAssumption
  <1> DEFINE n == Len(infos) + 1
             r == [Idle EXCEPT !.pc = "login_user", !.uid = u, !.socket = s, !.info = n]
  <1>1. /\ CacheType /\ thread \in [Threads -> ThreadRecord(Len(infos))] /\ Owns(t) /\ Carries(t)
        /\ OwnEntry /\ ExclusiveSession /\ Len(infos) \in Nat
    BY TypeSplit DEF IInv, ThreadType, ThreadOwn, ThreadSession, CacheType
  <1>2. /\ thread' = [thread EXCEPT ![t] = r] /\ thread'[t] = r /\ t # Network
        /\ UNCHANGED <<user_infos_map, socket_infos_map, leave_infos_map, meeting_infos_map,
                       conn, packets, told, pair, late, torn>>
        /\ handled < MaxPackets /\ handled' = handled + 1
    BY <1>1 DEF Login, Take, historyVars
  <1>3. /\ infos' \in Seq(Info) /\ Len(infos') = n
        /\ \A j \in 1 .. Len(infos) : infos'[j] = infos[j]
        /\ infos'[n] = [user |-> u, socket |-> s, session |-> NoSession]
    BY <1>1, AddInfo DEF Login, CacheType
  <1>4. n \in 1 .. n /\ n # 0 /\ infos'[n].user = u /\ infos'[n].session = NoSession
    BY <1>1, <1>3
  <1>5. r \in ThreadRecord(Len(infos'))
    <2>1. n \in 0 .. Len(infos')
      BY <1>1, <1>3
    <2> HIDE DEF n
    <2>. QED BY <2>1 DEF ThreadRecord, Pcs, Idle, AnySession
  <1>6. CacheType'
    BY <1>1, <1>2, <1>3 DEF CacheType
  <1>7. Owns(t)'
    <2>1. /\ r.pc = "login_user" /\ r.uid = u /\ r.socket = s /\ r.info = n
          /\ n # 0 /\ infos'[n].user = u
      BY <1>4 DEF Idle
    <2> HIDE DEF r, n
    <2>2. /\ thread'[t].pc = "login_user" /\ thread'[t].uid \in Users
          /\ thread'[t].info # 0 /\ infos'[thread'[t].info].user = thread'[t].uid
          /\ thread'[t].socket \in Sockets /\ t # Network
      BY <1>2, <2>1
    <2>. QED BY <2>2 DEF Owns
  <1>8. Carries(t)'
    BY <1>2 DEF Carries, Idle
  <1>9. \A i \in 1 .. Len(infos) : infos'[i].user = infos[i].user
    BY <1>3
  <1> HIDE DEF r
  <1>10. ThreadType' /\ ThreadOwn' /\ ThreadSession'
    <2>1. thread' = [thread EXCEPT ![t] = thread'[t]] /\ thread'[t] \in ThreadRecord(Len(infos'))
      BY <1>2, <1>5
    <2>2. Len(infos) <= Len(infos') /\ Len(infos') \in Nat
      BY <1>1, <1>3
    <2>3. \A x \in Sessions : pair[x] # {} => pair'[x] = pair[x]
      BY <1>2
    <2>. QED BY <1>1, <1>7, <1>8, <1>9, <2>1, <2>2, <2>3, OtherThreads
  <1>11. OwnEntry'
    <2>1. user_infos_map \in [Users -> 0 .. Len(infos)]
      BY <1>1 DEF CacheType
    <2>. QED BY <1>1, <1>2, <1>9, <2>1 DEF OwnEntry
  <1>12. PairOfTwo'
    BY <1>2 DEF IInv, PairOfTwo
  <1>13. ExclusiveSession'
    <2>1. ASSUME NEW x \in Sessions, NEW i \in DOMAIN infos', infos'[i].session = x
          PROVE  infos'[i].user \in pair[x]
      <3>1. i \in 1 .. n
        BY <1>3
      <3>2. i # n
        BY <1>4, <2>1
      <3>3. i \in 1 .. Len(infos)
        BY <1>1, <3>1, <3>2
      <3>4. i \in DOMAIN infos /\ infos'[i] = infos[i]
        BY <1>1, <1>3, <3>3 DEF CacheType
      <3>. QED BY <1>1, <1>2, <2>1, <3>4 DEF ExclusiveSession
    <2>. QED BY <1>1, <1>2, <2>1 DEF ExclusiveSession
  <1>. QED BY <1>6, <1>10, <1>11, <1>12, <1>13, TypeSplitPrime DEF IInv

\* The member who stays is the other of the pair: the invitation it becomes is
\* for the pair.
LEMMA ClearMeetingStep ==
    ASSUME IInv, NEW t \in Threads, ClearMeeting(t)
    PROVE  IInv'
  <1> USE CacheAssumption, SessionAssumption DEF CacheAssumption, SessionAssumption
  <1> DEFINE r == [thread[t] EXCEPT !.pc = "clear_user"]
             uid == thread[t].uid
             session == thread[t].session
  <1>1. /\ CacheType /\ thread \in [Threads -> ThreadRecord(Len(infos))] /\ Owns(t) /\ Carries(t)
        /\ OwnEntry /\ ExclusiveSession /\ PairOfTwo /\ Len(infos) \in Nat
    BY TypeSplit DEF IInv, ThreadType, ThreadOwn, ThreadSession, CacheType
  <1>2. /\ thread' = [thread EXCEPT ![t] = r] /\ thread'[t] = r
        /\ thread[t] \in ThreadRecord(Len(infos))
        /\ UNCHANGED <<infos, user_infos_map, socket_infos_map, conn, packets, handled, told,
                       pair, late, torn>>
    BY <1>1 DEF ClearMeeting, Goto, clientVars, historyVars
  <1>3. uid \in Users /\ session \in AnySession
    BY <1>1, <1>2 DEF ClearMeeting, Owns, ThreadRecord
  <1>4. /\ meeting_infos_map \in [Sessions \cup Groups -> SUBSET Users]
        /\ leave_infos_map \in [Users -> [Users -> AnySession]]
    BY <1>1 DEF CacheType
  <1>5. /\ meeting_infos_map' \in [Sessions \cup Groups -> SUBSET Users]
        /\ \A s \in Sessions : meeting_infos_map'[s] \in {{}, meeting_infos_map[s]}
    BY <1>4 DEF ClearMeeting, DelMeetingInfos
  <1>6. \/ leave_infos_map' = leave_infos_map
        \/ leave_infos_map' = [leave_infos_map EXCEPT ![uid] = NoInvitations]
        \/ /\ Cardinality(Members(session)) = 2
           /\ \E tid \in Members(session) \ {uid} :
                leave_infos_map' =
                   [leave_infos_map EXCEPT ![uid] = [NoInvitations EXCEPT ![tid] = session]]
    BY DEF ClearMeeting, DelMeetingInfos
  <1>7. Members(session) \subseteq Users
    BY <1>3, <1>4 DEF Members, AnySession
  <1>8. /\ leave_infos_map' \in [Users -> [Users -> AnySession]]
        /\ \A s \in Sessions, u, v \in Users : leave_infos_map'[u][v] = s =>
             \/ leave_infos_map[u][v] = s
             \/ u = uid /\ s = session /\ v \in Members(session) \ {uid}
    <2>1. NoInvitations \in [Users -> AnySession] /\ \A v \in Users : NoInvitations[v] = NoSession
      BY DEF NoInvitations, AnySession
    <2>2. CASE leave_infos_map' = leave_infos_map
      BY <1>4, <2>2
    <2>3. CASE leave_infos_map' = [leave_infos_map EXCEPT ![uid] = NoInvitations]
      BY <1>3, <1>4, <2>1, <2>3
    <2>4. ASSUME NEW tid \in Members(session) \ {uid},
                 leave_infos_map' =
                   [leave_infos_map EXCEPT ![uid] = [NoInvitations EXCEPT ![tid] = session]]
          PROVE  /\ leave_infos_map' \in [Users -> [Users -> AnySession]]
                 /\ \A s \in Sessions, u, v \in Users : leave_infos_map'[u][v] = s =>
                      \/ leave_infos_map[u][v] = s
                      \/ u = uid /\ s = session /\ v \in Members(session) \ {uid}
      <3>1. tid \in Users
        BY <1>7
      <3> DEFINE row == [NoInvitations EXCEPT ![tid] = session]
      <3>2. /\ row \in [Users -> AnySession]
            /\ \A v \in Users : row[v] = IF v = tid THEN session ELSE NoSession
        BY <1>3, <2>1, <3>1
      <3> HIDE DEF row
      <3>3. leave_infos_map' = [leave_infos_map EXCEPT ![uid] = row]
        BY <2>4 DEF row
      <3>4. leave_infos_map' \in [Users -> [Users -> AnySession]]
        BY <1>3, <1>4, <3>2, <3>3
      <3>5. tid \in Members(session) \ {uid}
        OBVIOUS
      <3> HIDE DEF uid, session
      <3>6. \A u \in Users : leave_infos_map'[u] = IF u = uid THEN row ELSE leave_infos_map[u]
        BY <1>4, <3>3
      <3>7. ASSUME NEW s \in Sessions, NEW u \in Users, NEW v \in Users,
                   leave_infos_map'[u][v] = s
            PROVE  \/ leave_infos_map[u][v] = s
                   \/ u = uid /\ s = session /\ v \in Members(session) \ {uid}
        <4>1. s # NoSession
          OBVIOUS
        <4>. QED BY <3>2, <3>5, <3>6, <3>7, <4>1
      <3>. QED BY <3>4, <3>7
    <2>. QED BY <1>6, <2>2, <2>3, <2>4
  <1>9. ASSUME NEW s \in Sessions, NEW u \in Users, NEW v \in Users, leave_infos_map'[u][v] = s
        PROVE  {u, v} = pair[s]
    <2>1. CASE leave_infos_map[u][v] = s
      BY <1>1, <2>1 DEF ExclusiveSession
    <2>2. CASE u = uid /\ s = session /\ v \in Members(session) \ {uid}
      <3>1. v \in pair[s]
        BY <1>1, <2>2 DEF Members, ExclusiveSession
      <3>2. u \in pair[s] /\ v # u
        BY <1>1, <2>2 DEF Carries
      <3>3. PICK a, b \in Users : pair[s] = {a, b}
        BY <1>1, <3>1 DEF PairOfTwo
      <3>. QED BY <3>1, <3>2, <3>3
    <2>. QED BY <1>8, <1>9, <2>1, <2>2
  <1>10. r \in ThreadRecord(Len(infos'))
    BY <1>2 DEF ThreadRecord, Pcs
  <1>11. CacheType'
    BY <1>1, <1>2, <1>5, <1>8 DEF CacheType
  <1>12. Owns(t)'
    BY <1>1, <1>2 DEF Owns, ThreadRecord, ClearMeeting
  <1>13. Carries(t)'
    <2>1. r.pc = "clear_user" /\ r.uid = uid /\ r.session = session
      BY <1>2 DEF ThreadRecord
    <2>. QED BY <1>1, <1>2, <2>1 DEF Carries
  <1> HIDE DEF r
  <1>14. ThreadType' /\ ThreadOwn' /\ ThreadSession'
    <2>1. thread' = [thread EXCEPT ![t] = thread'[t]] /\ thread'[t] \in ThreadRecord(Len(infos'))
      BY <1>2, <1>10
    <2>2. /\ Len(infos') \in Nat /\ Len(infos) <= Len(infos')
          /\ \A i \in 1 .. Len(infos) : infos'[i].user = infos[i].user
          /\ \A x \in Sessions : pair[x] # {} => pair'[x] = pair[x]
      BY <1>1, <1>2
    <2>. QED BY <1>1, <1>12, <1>13, <2>1, <2>2, OtherThreads
  <1>15. OwnEntry' /\ PairOfTwo'
    BY <1>1, <1>2 DEF OwnEntry, PairOfTwo
  <1>16. ExclusiveSession'
    BY <1>1, <1>2, <1>5, <1>9 DEF ExclusiveSession
  <1>. QED BY <1>11, <1>14, <1>15, <1>16, TypeSplitPrime DEF IInv

\* The user and session of the entry found go together.
LEMMA AberrantSocketStep ==
    ASSUME IInv, AberrantSocket
    PROVE  IInv'
  <1> USE CacheAssumption, SessionAssumption DEF CacheAssumption, SessionAssumption
  <1> DEFINE t == Network
             found == infos[thread[t].info]
             r == [thread[t] EXCEPT !.pc = "clear_meeting", !.uid = found.user,
                                    !.session = found.session]
  <1>1. /\ t \in Threads
        /\ CacheType /\ thread \in [Threads -> ThreadRecord(Len(infos))] /\ Owns(t) /\ Carries(t)
        /\ OwnEntry /\ ExclusiveSession /\ PairOfTwo /\ Len(infos) \in Nat
    BY TypeSplit DEF IInv, ThreadType, ThreadOwn, ThreadSession, CacheType, Threads
  <1>2. /\ thread' = [thread EXCEPT ![t] = r] /\ thread'[t] = r
        /\ thread[t] \in ThreadRecord(Len(infos)) /\ thread[t].pc = "aberrant"
        /\ UNCHANGED <<infos, user_infos_map, leave_infos_map, meeting_infos_map,
                       conn, packets, handled, told, pair, late, torn>>
    BY <1>1 DEF AberrantSocket, clientVars, historyVars
  <1>3. thread[t].info \in 1 .. Len(infos) /\ thread[t].socket \in Sockets
    BY <1>1, <1>2 DEF Owns, ThreadRecord
  <1>4. found \in Info /\ thread[t].info \in DOMAIN infos
    BY <1>1, <1>3 DEF CacheType
  <1>5. r.pc = "clear_meeting" /\ r.uid = found.user /\ r.session = found.session
        /\ r.socket = thread[t].socket
    BY <1>2 DEF ThreadRecord
  <1>6. r \in ThreadRecord(Len(infos'))
    BY <1>2, <1>4 DEF ThreadRecord, Pcs, Info
  <1>7. CacheType'
    BY <1>1, <1>2, <1>3 DEF CacheType, AberrantSocket, DelSocket
  <1>8. Owns(t)'
    BY <1>2, <1>3, <1>4, <1>5 DEF Owns, Info
  <1>9. Carries(t)'
    BY <1>1, <1>2, <1>4, <1>5 DEF Carries, ExclusiveSession
  <1> HIDE DEF r, found
  <1>10. ThreadType' /\ ThreadOwn' /\ ThreadSession'
    <2>1. thread' = [thread EXCEPT ![t] = thread'[t]] /\ thread'[t] \in ThreadRecord(Len(infos'))
      BY <1>2, <1>6
    <2>2. /\ Len(infos') \in Nat /\ Len(infos) <= Len(infos')
          /\ \A i \in 1 .. Len(infos) : infos'[i].user = infos[i].user
          /\ \A x \in Sessions : pair[x] # {} => pair'[x] = pair[x]
      BY <1>1, <1>2
    <2> HIDE DEF t
    <2>. QED BY <1>1, <1>8, <1>9, <2>1, <2>2, OtherThreads
  <1>11. OwnEntry' /\ PairOfTwo' /\ ExclusiveSession'
    BY <1>1, <1>2 DEF OwnEntry, PairOfTwo, ExclusiveSession
  <1>. QED BY <1>7, <1>10, <1>11, TypeSplitPrime DEF IInv

\* A connection is accepted: no cache changes.
LEMMA ConnectStep ==
    ASSUME IInv, NEW u \in Users, NEW s \in Sockets, Connect(u, s)
    PROVE  IInv'
  <1>1. CacheType /\ ThreadType
    BY TypeSplit DEF IInv
  <1>2. /\ conn' = [conn EXCEPT ![s] = u] /\ packets' = packets \cup {<<u, s>>}
        /\ UNCHANGED <<infos, user_infos_map, socket_infos_map, leave_infos_map,
                       meeting_infos_map, handled, told, pair, late, torn, thread>>
    BY DEF Connect, cacheVars, historyVars
  <1>3. CacheType' /\ ThreadType'
    BY <1>1, <1>2 DEF CacheType, ThreadType
  <1>4. (OwnEntry /\ PairOfTwo /\ ThreadOwn /\ ThreadSession /\ ExclusiveSession)'
    BY <1>2 DEF IInv, OwnEntry, PairOfTwo, ThreadOwn, Owns, ThreadSession, Carries,
                ExclusiveSession
  <1>. QED BY <1>3, <1>4, TypeSplitPrime DEF IInv

\* A connection ends: the network thread takes up the UserInfo of its socket.
LEMMA CloseStep ==
    ASSUME IInv, NEW s \in Sockets, Close(s)
    PROVE  IInv'
  <1> USE CacheAssumption, SessionAssumption DEF CacheAssumption, SessionAssumption
  <1> DEFINE t == Network
             r == [Idle EXCEPT !.pc = "aberrant", !.socket = s, !.info = socket_infos_map[s]]
  <1>1. /\ t \in Threads
        /\ CacheType /\ ThreadType /\ thread \in [Threads -> ThreadRecord(Len(infos))]
        /\ OwnEntry /\ ExclusiveSession /\ PairOfTwo /\ Len(infos) \in Nat
    BY TypeSplit DEF IInv, ThreadType, CacheType, Threads
  <1>2. UNCHANGED <<infos, user_infos_map, socket_infos_map, leave_infos_map,
                    meeting_infos_map, packets, handled, told, pair, late, torn>>
    BY DEF Close, cacheVars, historyVars
  <1>3. CASE conn' = [conn EXCEPT ![s] = Nobody] /\ UNCHANGED thread
    <2>1. CacheType' /\ ThreadType'
      BY <1>1, <1>2, <1>3 DEF CacheType, ThreadType
    <2>2. (OwnEntry /\ PairOfTwo /\ ThreadOwn /\ ThreadSession /\ ExclusiveSession)'
      BY <1>2, <1>3 DEF IInv, OwnEntry, PairOfTwo, ThreadOwn, Owns, ThreadSession, Carries,
                        ExclusiveSession
    <2>. QED BY <2>1, <2>2, TypeSplitPrime DEF IInv
  <1>4. CASE /\ socket_infos_map[s] # 0
             /\ thread' = [thread EXCEPT ![t] = r]
             /\ UNCHANGED conn
    <2>1. CacheType'
      BY <1>1, <1>2, <1>4 DEF CacheType
    <2>2. thread'[t] = r /\ socket_infos_map[s] \in 0 .. Len(infos)
      BY <1>1, <1>4 DEF CacheType
    <2>3. r \in ThreadRecord(Len(infos'))
      BY <1>2, <2>2 DEF ThreadRecord, Pcs, Idle, AnySession
    <2>4. Owns(t)'
      <3>1. r.pc = "aberrant" /\ r.socket = s /\ r.info = socket_infos_map[s]
        BY DEF Idle
      <3> HIDE DEF r
      <3>. QED BY <1>4, <2>2, <3>1 DEF Owns
    <2>5. Carries(t)'
      BY <2>2 DEF Carries, Idle
    <2> HIDE DEF r
    <2>6. ThreadType' /\ ThreadOwn' /\ ThreadSession'
      <3>1. thread' = [thread EXCEPT ![t] = thread'[t]] /\ thread'[t] \in ThreadRecord(Len(infos'))
        BY <1>4, <2>2, <2>3
      <3>2. /\ Len(infos') \in Nat /\ Len(infos) <= Len(infos')
            /\ \A i \in 1 .. Len(infos) : infos'[i].user = infos[i].user
            /\ \A x \in Sessions : pair[x] # {} => pair'[x] = pair[x]
        BY <1>1, <1>2
      <3> HIDE DEF t
      <3>. QED BY <1>1, <2>4, <2>5, <3>1, <3>2, OtherThreads
    <2>7. OwnEntry' /\ PairOfTwo' /\ ExclusiveSession'
      BY <1>1, <1>2 DEF OwnEntry, PairOfTwo, ExclusiveSession
    <2>. QED BY <2>1, <2>6, <2>7, TypeSplitPrime DEF IInv
  <1>. QED BY <1>3, <1>4 DEF Close

-----------------------------------------------------------------------------
(* The theorems *)

\* The empty caches satisfy the invariant.
LEMMA InitIInv == Init => IInv
  <1> SUFFICES ASSUME Init PROVE IInv
    OBVIOUS
  <1> USE CacheAssumption, SessionAssumption DEF CacheAssumption, SessionAssumption
  <1>1. /\ infos = <<>> /\ user_infos_map = [u \in Users |-> 0]
        /\ socket_infos_map = [s \in Sockets |-> 0]
        /\ leave_infos_map = [u \in Users |-> NoInvitations]
        /\ meeting_infos_map = [s \in Sessions \cup Groups |-> {}]
        /\ conn = [s \in Sockets |-> Nobody] /\ packets = {} /\ handled = 0
        /\ told = [u \in Users |-> {}] /\ pair = [s \in Sessions |-> {}] /\ late = {}
        /\ torn = FALSE
        /\ thread = [t \in Threads |-> Idle]
    BY DEF Init, CacheInit
  <1>2. infos \in Seq(Info) /\ Len(infos) = 0 /\ DOMAIN infos = {}
    BY <1>1
  <1>3. CacheType
    <2>1. torn \in BOOLEAN
      BY <1>1
    <2>. QED BY <1>1, <1>2, <2>1 DEF CacheType, NoInvitations, AnySession
  <1>4. Idle \in ThreadRecord(0)
    BY DEF Idle, ThreadRecord, Pcs, AnySession
  <1>5. ThreadType
    BY <1>1, <1>2, <1>4 DEF ThreadType
  <1>6. OwnEntry /\ PairOfTwo
    BY <1>1 DEF OwnEntry, PairOfTwo
  <1>7. ThreadOwn /\ ThreadSession
    BY <1>1 DEF ThreadOwn, Owns, ThreadSession, Carries, Idle
  <1>8. ExclusiveSession
    BY <1>1, <1>2 DEF ExclusiveSession, NoInvitations
  <1>. QED BY <1>3, <1>5, <1>6, <1>7, <1>8, TypeSplit DEF IInv

\* Every step preserves the invariant, one lemma per step.
LEMMA NextIInv == IInv /\ [Next]_vars => IInv'
  <1> SUFFICES ASSUME IInv, [Next]_vars PROVE IInv'
    OBVIOUS
  <1>1. CASE UNCHANGED vars
    <2>1. UNCHANGED <<infos, user_infos_map, socket_infos_map, leave_infos_map,
                      meeting_infos_map, conn, packets, handled, told, pair, late, torn, thread>>
      BY <1>1 DEF vars, cacheVars, clientVars, historyVars
    <2>2. TypeOK'
      BY <2>1 DEF IInv, TypeOK
    <2>3. (OwnEntry /\ PairOfTwo /\ ThreadOwn /\ ThreadSession /\ ExclusiveSession)'
      BY <2>1 DEF IInv, OwnEntry, PairOfTwo, ThreadOwn, Owns, ThreadSession, Carries,
                  ExclusiveSession
    <2>. QED BY <2>2, <2>3 DEF IInv
  <1>2. CASE \E u \in Users, s \in Sockets : Connect(u, s)
    BY <1>2, ConnectStep
  <1>3. CASE \E s \in Sockets : Close(s)
    BY <1>3, CloseStep
  <1>4. ASSUME NEW t \in Workers, Begin(t) PROVE IInv'
    <2>1. t \in Threads
      BY DEF Threads
    <2>2. PICK u \in Users, s \in Sockets :
             \/ Login(t, u, s)
             \/ \E v \in Users \ {u} : Ask(t, u, s, v)
             \/ \E g \in Groups : AskGroup(t, u, s, g)
             \/ \E p \in AnySession : Quit(t, u, s, p)
      BY <1>4 DEF Begin
    <2>. QED BY <2>1, <2>2, LoginStep, AskStep, AskGroupStep, QuitStep
  <1>5. ASSUME NEW t \in Threads, Continue(t) PROVE IInv'
    BY <1>5, LoginUserStep, LoginSocketStep, AskFirstStep, InviteStep, EnterStep,
       AskSecondStep, JoinStep, ClearLeaveStep, MeetStep, EnterGroupStep, QuitSocketStep,
       ClearMeetingStep, ClearUserStep, EraseUserStep, AberrantSocketStep DEF Continue
  <1>. QED BY <1>1, <1>2, <1>3, <1>4, <1>5 DEF Next

\* The invariant holds in every state of the chat server's caches.
THEOREM Invariance == Spec => []IInv
  BY InitIInv, NextIInv, PTL DEF Spec

\* Type correctness of the caches and the handlers, for any number of users,
\* workers, sessions and packets.
THEOREM TypeCorrect == Spec => []TypeOK
  <1>1. IInv => TypeOK
    BY DEF IInv
  <1>. QED BY <1>1, Invariance, PTL

\* A private session never leaves the two users it was drawn for, however the
\* handlers of OnGetUserInfo, OnUserQuit, OnAberrant and ClearUserinfo
\* interleave.
THEOREM PrivateSessionsStayPrivate == Spec => []ExclusiveSession
  <1>1. IInv => ExclusiveSession
    BY DEF IInv
  <1>. QED BY <1>1, Invariance, PTL

-----------------------------------------------------------------------------
(* Members have been told their session *)

\* u has been told session s, or is about to be.
WillKnow(u, s) ==
    \/ s \in told[u]
    \/ \E t \in Workers :
         thread[t].pc = "enter" /\ thread[t].uid = u /\ thread[t].session = s

\* Who leaves an invitation knows its session.
InviterKnows == \A u, v \in Users :
    leave_infos_map[u][v] # NoSession => WillKnow(v, leave_infos_map[u][v])

\* So does the one whose invitation a thread has found.
FoundKnows == \A t \in Threads :
    thread[t].pc \in {"join", "clear_leave", "meet"} => WillKnow(thread[t].opp, thread[t].session)

TInv == IInv /\ MembersTold /\ InviterKnows /\ FoundKnows

\* The types, and what the threads hold.
LEMMA Known ==
    ASSUME IInv
    PROVE  CacheType /\ ThreadOwn /\ thread \in [Threads -> ThreadRecord(Len(infos))]
  BY TypeSplit DEF IInv, ThreadType

\* What a client has been told stays told; who is about to be told is told next.
LEMMA WillKnowStays ==
    ASSUME IInv, Next, NEW u \in Users, NEW s, WillKnow(u, s)
    PROVE  WillKnow(u, s)'
  <1> CacheType /\ ThreadOwn /\ thread \in [Threads -> ThreadRecord(Len(infos))]
    BY Known
  <1>1. CASE \E t \in Threads : Enter(t)
    <2>1. PICK t \in Threads : Enter(t)
      BY <1>1
    <2>2. /\ thread[t].pc = "enter" /\ thread[t].uid \in Users
          /\ told' = [told EXCEPT ![thread[t].uid] = @ \cup {thread[t].session}]
          /\ thread' = [thread EXCEPT ![t] = Idle]
      BY <2>1 DEF Enter, Done, ThreadOwn, Owns
    <2>3. CASE thread[t].uid = u /\ thread[t].session = s
      BY <2>2, <2>3 DEF WillKnow, CacheType
    <2>4. CASE ~(thread[t].uid = u /\ thread[t].session = s)
      BY <2>2, <2>4 DEF WillKnow, CacheType, Threads
    <2> QED
      BY <2>3, <2>4
  <1>2. CASE \E t \in Threads : Meet(t)
    <2>1. PICK t \in Threads : Meet(t)
      BY <1>2
    <2>2. /\ thread[t].pc = "meet" /\ thread[t].uid \in Users
          /\ told' = [told EXCEPT ![thread[t].uid] = @ \cup {thread[t].session}]
          /\ thread' = [thread EXCEPT ![t] = Idle]
      BY <2>1 DEF Meet, Done, ThreadOwn, Owns
    <2> QED
      BY <2>2 DEF WillKnow, CacheType, Threads
  <1>3. CASE /\ told' = told
             /\ \E t \in Threads :
                  thread[t].pc # "enter" /\ \A x \in Threads : x # t => thread'[x] = thread[x]
    BY <1>3 DEF WillKnow, Threads
  <1>4. CASE told' = told /\ thread' = thread
    BY <1>4 DEF WillKnow
  <1>5. ASSUME NEW t \in Threads, Continue(t), ~Enter(t), ~Meet(t)
        PROVE  /\ told' = told /\ thread[t].pc # "enter"
               /\ \A x \in Threads : x # t => thread'[x] = thread[x]
    BY <1>5
    DEF Continue, LoginUser, LoginSocket, AskFirst, Invite, AskSecond, Join, ClearLeave,
        EnterGroup, QuitSocket, ClearMeeting, ClearUser, EraseUser, AberrantSocket, Goto, Done,
        clientVars
  <1>6. ASSUME NEW t \in Workers, Begin(t)
        PROVE  /\ told' = told /\ thread[t].pc # "enter" /\ t \in Threads
               /\ \A x \in Threads : x # t => thread'[x] = thread[x]
    <2>1. thread[t] = Idle /\ UNCHANGED told
      BY <1>6 DEF Begin, Login, Ask, AskGroup, Quit, Take
    <2>2. \E r : thread' = [thread EXCEPT ![t] = r]
      BY <1>6 DEF Begin, Login, Ask, AskGroup, Quit
    <2> QED
      BY <2>1, <2>2 DEF Idle, Threads
  <1>7. ASSUME NEW x \in Sockets, Close(x)
        PROVE  /\ told' = told /\ thread[Network].pc # "enter" /\ Network \in Threads
               /\ \A y \in Threads : y # Network => thread'[y] = thread[y]
    BY <1>7 DEF Close, Idle, Threads
  <1>8. ASSUME NEW v \in Users, NEW x \in Sockets, Connect(v, x)
        PROVE  told' = told /\ thread' = thread
    BY <1>8 DEF Connect
  <1> QED
    BY <1>1, <1>2, <1>3, <1>4, <1>5, <1>6, <1>7, <1>8 DEF Next

\* Invitations are left by who knows the session: by AddLeaveInfos, whose caller
\* answers next, and by DelMeetingInfos, for the member who stays.
LEMMA InviterKnowsStep ==
    ASSUME TInv, Next
    PROVE  InviterKnows'
  <1> IInv /\ MembersTold /\ InviterKnows
    BY DEF TInv
  <1> CacheType /\ ThreadOwn /\ thread \in [Threads -> ThreadRecord(Len(infos))]
    BY Known
  <1>1. SUFFICES ASSUME NEW u \in Users, NEW v \in Users, NEW s,
                        s = leave_infos_map'[u][v], s # NoSession
        PROVE  WillKnow(v, s)'
    BY DEF InviterKnows
  <1>2. CASE leave_infos_map'[u][v] = leave_infos_map[u][v]
    <2>1. WillKnow(v, s)
      BY <1>1, <1>2 DEF InviterKnows
    <2> QED
      BY <2>1, WillKnowStays
  <1>3. ASSUME NEW t \in Threads, Invite(t)
        PROVE  WillKnow(v, s)'
    <2>1. /\ thread[t].uid \in Users /\ thread[t].opp \in Users /\ t \in Workers
          /\ leave_infos_map' =
               [leave_infos_map EXCEPT ![thread[t].opp][thread[t].uid] = thread[t].session]
          /\ thread' = [thread EXCEPT ![t].pc = "enter"]
      BY <1>3 DEF Invite, AddLeaveInfos, Goto, ThreadOwn, Owns, Threads
    <2>2. CASE u = thread[t].opp /\ v = thread[t].uid
      <3>1. leave_infos_map'[u][v] = thread[t].session
        BY <2>1, <2>2 DEF CacheType
      <3>2. /\ thread'[t].pc = "enter" /\ thread'[t].uid = v
            /\ thread'[t].session = thread[t].session
        BY <2>1, <2>2 DEF ThreadRecord
      <3> QED
        BY <1>1, <2>1, <3>1, <3>2 DEF WillKnow
    <2>3. CASE ~(u = thread[t].opp /\ v = thread[t].uid)
      <3>1. leave_infos_map'[u][v] = leave_infos_map[u][v]
        BY <2>1, <2>3 DEF CacheType
      <3> QED
        BY <1>2, <3>1
    <2> QED
      BY <2>2, <2>3
  <1>4. ASSUME NEW t \in Threads, ClearLeave(t)
        PROVE  WillKnow(v, s)'
    <2>1. leave_infos_map' = [leave_infos_map EXCEPT ![thread[t].opp] = NoInvitations]
      BY <1>4 DEF ClearLeave, ClearLeaveInfos
    <2>2. leave_infos_map'[u][v] = leave_infos_map[u][v]
      BY <1>1, <2>1 DEF CacheType, NoInvitations
    <2> QED
      BY <1>2, <2>2
  <1>5. ASSUME NEW t \in Threads, ClearMeeting(t)
        PROVE  WillKnow(v, s)'
    <2> DEFINE session == thread[t].session
    <2>1. \/ leave_infos_map' = leave_infos_map
          \/ leave_infos_map' = [leave_infos_map EXCEPT ![thread[t].uid] = NoInvitations]
          \/ \E tid \in Members(session) :
               leave_infos_map' = [leave_infos_map EXCEPT
                  ![thread[t].uid] = [NoInvitations EXCEPT ![tid] = session]]
      BY <1>5 DEF ClearMeeting, DelMeetingInfos
    <2>2. CASE leave_infos_map'[u][v] # leave_infos_map[u][v]
      <3>1. PICK tid \in Members(session) :
               leave_infos_map' = [leave_infos_map EXCEPT
                  ![thread[t].uid] = [NoInvitations EXCEPT ![tid] = session]]
        <4>1. CASE leave_infos_map' = [leave_infos_map EXCEPT ![thread[t].uid] = NoInvitations]
          <5>1. \/ leave_infos_map'[u][v] = leave_infos_map[u][v]
                \/ leave_infos_map'[u][v] = NoInvitations[v]
            BY <4>1 DEF CacheType
          <5> QED
            BY <1>1, <2>2, <5>1 DEF NoInvitations
        <4> QED
          BY <2>1, <2>2, <4>1
      <3>2. leave_infos_map'[u][v] = [NoInvitations EXCEPT ![tid] = session][v]
        BY <2>2, <3>1 DEF CacheType
      <3>3. v = tid /\ leave_infos_map'[u][v] = session
        BY <1>1, <3>2 DEF NoInvitations
      <3>4. v \in meeting_infos_map[session] /\ session \in DOMAIN meeting_infos_map
        BY <3>1, <3>3 DEF Members, CacheType, ThreadRecord, AnySession
      <3>5. WillKnow(v, s)
        BY <1>1, <3>3, <3>4 DEF MembersTold, WillKnow
      <3> QED
        BY <3>5, WillKnowStays
    <2> QED
      BY <1>2, <2>2
  <1>6. \/ leave_infos_map' = leave_infos_map
        \/ \E t \in Threads : Invite(t) \/ ClearLeave(t) \/ ClearMeeting(t)
    BY Writers
  <1> QED
    BY <1>2, <1>3, <1>4, <1>5, <1>6

\* A thread has a session from the invitation it found.
LEMMA FoundKnowsStep ==
    ASSUME TInv, Next
    PROVE  FoundKnows'
  <1> IInv /\ InviterKnows /\ FoundKnows
    BY DEF TInv
  <1> CacheType /\ ThreadOwn /\ thread \in [Threads -> ThreadRecord(Len(infos))]
    BY Known
  <1> DEFINE Going(x) == thread[x].pc \in {"join", "clear_leave", "meet"}
  <1>1. SUFFICES ASSUME NEW x \in Threads, Going(x)', NEW v, NEW s,
                        v = thread'[x].opp, s = thread'[x].session
        PROVE  WillKnow(v, s)'
    BY DEF FoundKnows
  <1>2. CASE /\ Going(x) /\ thread'[x].opp = thread[x].opp
             /\ thread'[x].session = thread[x].session
    <2>1. v \in Users /\ WillKnow(v, s)
      BY <1>1, <1>2 DEF ThreadOwn, Owns, FoundKnows
    <2> QED
      BY <2>1, WillKnowStays
  <1>3. CASE AskSecond(x)
    <2>1. /\ thread[x].uid \in Users /\ thread[x].opp \in Users
          /\ thread[x].opp = thread'[x].opp
          /\ thread'[x].session = leave_infos_map[thread[x].uid][thread[x].opp]
          /\ thread'[x].session # NoSession
      BY <1>3 DEF AskSecond, IsExitsLeaveInfos, ThreadOwn, Owns, ThreadRecord
    <2>2. WillKnow(v, s)
      BY <1>1, <2>1 DEF InviterKnows
    <2> QED
      BY <1>1, <2>1, <2>2, WillKnowStays
  <1>4. CASE thread'[x] = thread[x]
    BY <1>1, <1>2, <1>4
  <1>5. ASSUME Continue(x), ~AskSecond(x)
        PROVE  /\ Going(x) /\ thread'[x].opp = thread[x].opp
               /\ thread'[x].session = thread[x].session
    BY <1>1, <1>5
    DEF Continue, LoginUser, LoginSocket, AskFirst, Invite, Enter, Join, ClearLeave, Meet,
        EnterGroup, QuitSocket, ClearMeeting, ClearUser, EraseUser, AberrantSocket, Goto, Done, Idle,
        ThreadRecord
  <1>6. ~(x \in Workers /\ Begin(x))
    <2>1. SUFFICES ASSUME x \in Workers, Begin(x)
          PROVE  FALSE
      OBVIOUS
    <2> PICK u \in Users, p \in Sockets :
           \/ Login(x, u, p)
           \/ \E w \in Users \ {u} : Ask(x, u, p, w)
           \/ \E g \in Groups : AskGroup(x, u, p, g)
           \/ \E q \in AnySession : Quit(x, u, p, q)
      BY <2>1 DEF Begin
    <2>2. thread'[x].pc \in {"login_user", "ask", "group", "quit"}
      <3>1. ASSUME Login(x, u, p)
            PROVE  thread'[x].pc = "login_user"
        BY <3>1 DEF Login, Idle
      <3>2. ASSUME NEW w \in Users, Ask(x, u, p, w)
            PROVE  thread'[x].pc = "ask"
        BY <3>2 DEF Ask, Idle
      <3>3. ASSUME NEW g \in Groups, AskGroup(x, u, p, g)
            PROVE  thread'[x].pc = "group"
        BY <3>3 DEF AskGroup, Idle
      <3>4. ASSUME NEW q \in AnySession, Quit(x, u, p, q)
            PROVE  thread'[x].pc = "quit"
        BY <3>4 DEF Quit, Idle
      <3> QED
        BY <3>1, <3>2, <3>3, <3>4
    <2> QED
      BY <1>1, <2>2
  <1>7. ASSUME NEW t \in Threads, t # x, Continue(t) \/ (t \in Workers /\ Begin(t))
        PROVE  thread'[x] = thread[x]
    BY <1>7
    DEF Begin, Login, Ask, AskGroup, Quit, Continue, LoginUser, LoginSocket, AskFirst,
        Invite, Enter, AskSecond, Join, ClearLeave, Meet, EnterGroup, QuitSocket,
        ClearMeeting, ClearUser, EraseUser, AberrantSocket, Goto, Done
  <1>8. ASSUME NEW y \in Sockets, Close(y)
        PROVE  thread'[x] = thread[x]
    BY <1>1, <1>8 DEF Close, Idle, Threads
  <1>9. ASSUME NEW u \in Users, NEW y \in Sockets, Connect(u, y)
        PROVE  thread'[x] = thread[x]
    BY <1>9 DEF Connect
  <1> QED
    BY <1>2, <1>3, <1>4, <1>5, <1>6, <1>7, <1>8, <1>9 DEF Next, Threads

\* Members are added by AddMeetingPair, of two who know the session, and by
\* AddMeetingMember, whose caller answers next.
LEMMA MembersToldStep ==
    ASSUME TInv, Next
    PROVE  MembersTold'
  <1> IInv /\ MembersTold /\ FoundKnows
    BY DEF TInv
  <1> CacheType /\ ThreadOwn /\ thread \in [Threads -> ThreadRecord(Len(infos))]
    BY Known
  <1>1. DOMAIN meeting_infos_map' = DOMAIN meeting_infos_map
    <2>1. IInv'
      BY NextIInv
    <2> QED
      BY <2>1 DEF IInv, TypeOK, CacheType
  <1>2. SUFFICES ASSUME NEW s \in DOMAIN meeting_infos_map, NEW u \in Users,
                        u \in meeting_infos_map'[s]
        PROVE  WillKnow(u, s)'
    <2>1. IInv'
      BY NextIInv
    <2> QED
      BY <1>1, <2>1 DEF IInv, TypeOK, MembersTold, WillKnow
  <1>3. CASE u \in meeting_infos_map[s]
    <2>1. WillKnow(u, s)
      BY <1>3 DEF MembersTold, WillKnow
    <2> QED
      BY <2>1, WillKnowStays
  <1>4. ASSUME NEW t \in Threads, Meet(t)
        PROVE  WillKnow(u, s)'
    <2>1. /\ thread[t].uid \in Users /\ thread[t].opp \in Users /\ thread[t].pc = "meet"
          /\ meeting_infos_map' = [meeting_infos_map EXCEPT
               ![thread[t].session] = {thread[t].opp, thread[t].uid}]
          /\ thread[t].session \in told'[thread[t].uid]
      BY <1>4 DEF Meet, AddMeetingPair, ThreadOwn, Owns, CacheType
    <2>2. CASE s = thread[t].session /\ u = thread[t].uid
      BY <2>1, <2>2 DEF WillKnow
    <2>3. CASE s = thread[t].session /\ u = thread[t].opp
      <3>1. WillKnow(u, s)
        BY <2>1, <2>3 DEF FoundKnows
      <3> QED
        BY <3>1, WillKnowStays
    <2>4. CASE s = thread[t].session
      BY <1>2, <2>1, <2>2, <2>3, <2>4 DEF CacheType
    <2>5. CASE s # thread[t].session
      BY <1>2, <1>3, <2>1, <2>5
    <2> QED
      BY <2>4, <2>5
  <1>5. ASSUME NEW t \in Threads, EnterGroup(t)
        PROVE  WillKnow(u, s)'
    <2>1. /\ t \in Workers
          /\ meeting_infos_map' = [meeting_infos_map EXCEPT
               ![thread[t].session] = @ \cup {thread[t].uid}]
          /\ thread' = [thread EXCEPT ![t].pc = "enter"]
      BY <1>5 DEF EnterGroup, AddMeetingMember, Goto, ThreadOwn, Owns, Threads
    <2>2. CASE s = thread[t].session /\ u = thread[t].uid
      <3>1. thread'[t].pc = "enter" /\ thread'[t].uid = u /\ thread'[t].session = s
        BY <2>1, <2>2 DEF ThreadRecord
      <3> QED
        BY <2>1, <3>1 DEF WillKnow
    <2>3. CASE ~(s = thread[t].session /\ u = thread[t].uid)
      BY <1>2, <1>3, <2>1, <2>3
    <2> QED
      BY <2>2, <2>3
  <1>6. ASSUME NEW t \in Threads, ClearMeeting(t)
        PROVE  WillKnow(u, s)'
    <2>1. \/ meeting_infos_map' = meeting_infos_map
          \/ meeting_infos_map' = [meeting_infos_map EXCEPT ![thread[t].session] = {}]
      BY <1>6 DEF ClearMeeting, DelMeetingInfos
    <2> QED
      BY <1>2, <1>3, <2>1
  <1>7. \/ meeting_infos_map' = meeting_infos_map
        \/ \E t \in Threads : Meet(t) \/ EnterGroup(t) \/ ClearMeeting(t)
    BY Writers
  <1> QED
    BY <1>2, <1>3, <1>4, <1>5, <1>6, <1>7

\* Nobody has left an invitation or entered a conversation at the start.
LEMMA InitTInv == Init => TInv
  <1> SUFFICES ASSUME Init PROVE TInv
    OBVIOUS
  <1>1. IInv
    BY InitIInv
  <1>2. MembersTold
    BY DEF Init, CacheInit, MembersTold
  <1>3. InviterKnows
    BY DEF Init, CacheInit, InviterKnows, NoInvitations
  <1>4. FoundKnows
    BY DEF Init, FoundKnows, Idle
  <1> QED
    BY <1>1, <1>2, <1>3, <1>4 DEF TInv

\* Every step preserves the invariant.
LEMMA NextTInv == TInv /\ [Next]_vars => TInv'
  <1> SUFFICES ASSUME TInv, [Next]_vars PROVE TInv'
    OBVIOUS
  <1>1. IInv'
    BY NextIInv DEF TInv
  <1>2. CASE UNCHANGED vars
    <2>1. UNCHANGED <<leave_infos_map, meeting_infos_map, told, thread>>
      BY <1>2 DEF vars, cacheVars, clientVars
    <2>2. (MembersTold /\ InviterKnows /\ FoundKnows)'
      BY <2>1 DEF TInv, MembersTold, InviterKnows, FoundKnows, WillKnow
    <2> QED
      BY <1>1, <2>2 DEF TInv
  <1>3. CASE Next
    BY <1>1, <1>3, MembersToldStep, InviterKnowsStep, FoundKnowsStep DEF TInv
  <1> QED
    BY <1>2, <1>3

\* Whoever is entered in a conversation by OnGetUserInfo or OnGetGroupInfo has
\* been told its session, or is told next, though the invitation it was found by
\* was left by another thread: the answer of the one that left it is its next step.
THEOREM MembersAreTold == Spec => []MembersTold
  <1>1. TInv => MembersTold
    BY DEF TInv
  <1>. QED BY <1>1, InitTInv, NextTInv, PTL DEF Spec

-----------------------------------------------------------------------------
(* A user without a connection *)

\* A sign-in enters its UserInfo for the socket the UserInfo has.
SignInSocket == \A t \in Workers :
    thread[t].pc \in {"login_user", "login_socket"} =>
        infos[thread[t].info].socket = thread[t].socket

\* The end of a connection works on the entry the socket has, but for late packets.
EndFinds ==
    thread[Network].pc = "aberrant" =>
        \/ thread[Network].socket \in late
        \/ thread[Network].info = socket_infos_map[thread[Network].socket]

\* The end of a connection on s has taken the entry of s away.
Clearing(s) ==
    thread[Network].pc \in {"clear_meeting", "clear_user", "erase"} /\ thread[Network].socket = s

\* The end of the connection of u on s will find u, or has found it.
WillEnd(u, s) ==
    /\ conn[s] = u
    /\ IF Clearing(s) THEN thread[Network].uid = u
       ELSE socket_infos_map[s] # 0 /\ infos[socket_infos_map[s]].user = u

\* A packet of u is being handled that changes what is known of u.
InHand(u) == \E t \in Workers :
    \/ thread[t].pc \in {"clear_meeting", "clear_user", "erase"} /\ thread[t].uid = u
    \/ thread[t].pc = "login_socket" /\ thread[t].info = user_infos_map[u]

\* As long as no two deletions met, a user who is online was found by no end of
\* a connection yet.
Present == ~torn => \A u \in Users : user_infos_map[u] # 0 =>
    LET s == infos[user_infos_map[u]].socket
    IN  s \in late \/ InHand(u) \/ WillEnd(u, s)

GInv == IInv /\ SignInSocket /\ EndFinds /\ Present

\* A thread changes only by its own step.
LEMMA OwnStep ==
    ASSUME IInv, Next, NEW x \in Threads, thread'[x] # thread[x]
    PROVE  \/ Continue(x)
           \/ x \in Workers /\ Begin(x)
           \/ x = Network /\ \E s \in Sockets : Close(s)
  <1> thread \in [Threads -> ThreadRecord(Len(infos))]
    BY Known
  <1>1. ASSUME NEW t \in Threads, t # x, Continue(t) \/ (t \in Workers /\ Begin(t))
        PROVE  FALSE
    BY <1>1
    DEF Begin, Login, Ask, AskGroup, Quit, Continue, LoginUser, LoginSocket, AskFirst,
        Invite, Enter, AskSecond, Join, ClearLeave, Meet, EnterGroup, QuitSocket,
        ClearMeeting, ClearUser, EraseUser, AberrantSocket, Goto, Done
  <1>2. ASSUME NEW s \in Sockets, Close(s), x # Network
        PROVE  FALSE
    BY <1>2 DEF Close
  <1>3. ASSUME NEW u \in Users, NEW s \in Sockets, Connect(u, s)
        PROVE  FALSE
    BY <1>3 DEF Connect
  <1> QED
    BY <1>1, <1>2, <1>3 DEF Next, Threads

\* A UserInfo keeps its user and its socket.
LEMMA InfoKept ==
    ASSUME IInv, Next
    PROVE  \A i \in 1 .. Len(infos) :
              infos'[i].user = infos[i].user /\ infos'[i].socket = infos[i].socket
  <1> CacheType /\ ThreadOwn /\ thread \in [Threads -> ThreadRecord(Len(infos))]
    BY Known
  <1>1. CASE infos' = infos
    BY <1>1
  <1>2. ASSUME NEW u \in Users, NEW s \in Sockets, NewInfo(u, s)
        PROVE  \A i \in 1 .. Len(infos) : infos'[i] = infos[i]
    BY <1>2, AddInfo DEF CacheType
  <1>3. ASSUME NEW t \in Threads, Enter(t) \/ Join(t)
        PROVE  \A i \in 1 .. Len(infos) :
                  infos'[i].user = infos[i].user /\ infos'[i].socket = infos[i].socket
    <2>1. set_session(thread[t].info, thread[t].session)
      BY <1>3 DEF Enter, Join
    <2>2. thread[t].info \in 0 .. Len(infos) /\ thread[t].session \in AnySession
      BY DEF ThreadRecord
    <2>3. thread[t].info # 0
      BY <1>3 DEF ThreadOwn, Owns, Enter, Join
    <2>4. thread[t].info \in 1 .. Len(infos)
      BY <2>2, <2>3 DEF CacheType
    <2> QED
      BY <2>1, <2>2, <2>4, SetSession DEF CacheType
  <1>4. \/ infos' = infos
        \/ \E u \in Users, s \in Sockets : NewInfo(u, s)
        \/ \E t \in Threads : Enter(t) \/ Join(t)
    BY Writers
  <1> QED
    BY <1>1, <1>2, <1>3, <1>4

\* OnUserLogin carries its socket from the UserInfo to AddSocket.
LEMMA SignInSocketStep ==
    ASSUME IInv, SignInSocket, Next
    PROVE  SignInSocket'
  <1> CacheType /\ ThreadOwn /\ thread \in [Threads -> ThreadRecord(Len(infos))]
    BY Known
  <1>1. SUFFICES ASSUME NEW t \in Workers, thread'[t].pc \in {"login_user", "login_socket"}
        PROVE  infos'[thread'[t].info].socket = thread'[t].socket
    BY DEF SignInSocket
  <1>2. CASE /\ thread[t].pc \in {"login_user", "login_socket"}
             /\ thread'[t].info = thread[t].info /\ thread'[t].socket = thread[t].socket
    <2>1. thread[t].info \in 1 .. Len(infos)
      BY <1>2 DEF ThreadOwn, Owns, Threads, ThreadRecord, CacheType
    <2> QED
      BY <1>2, <2>1, InfoKept DEF SignInSocket
  <1>3. CASE thread'[t] = thread[t]
    BY <1>1, <1>2, <1>3
  <1>4. ASSUME Continue(t)
        PROVE  /\ thread[t].pc \in {"login_user", "login_socket"}
               /\ thread'[t].info = thread[t].info /\ thread'[t].socket = thread[t].socket
    BY <1>1, <1>4
    DEF Continue, LoginUser, LoginSocket, AskFirst, Invite, Enter, AskSecond, Join,
        ClearLeave, Meet, EnterGroup, QuitSocket, ClearMeeting, ClearUser, EraseUser, AberrantSocket,
        Goto, Done, Idle, Threads, ThreadRecord
  <1>5. ASSUME NEW u \in Users, NEW s \in Sockets, Login(t, u, s)
        PROVE  infos'[thread'[t].info].socket = thread'[t].socket
    <2>1. infos'[Len(infos) + 1] = [user |-> u, socket |-> s, session |-> NoSession]
      BY <1>5, AddInfo DEF Login, CacheType
    <2>2. thread'[t].info = Len(infos) + 1 /\ thread'[t].socket = s
      BY <1>5 DEF Login, Idle, Threads
    <2> QED
      BY <2>1, <2>2
  <1>6. ASSUME NEW u \in Users, NEW s \in Sockets, NEW v \in Users, Ask(t, u, s, v)
        PROVE  FALSE
    BY <1>1, <1>6 DEF Ask, Idle, Threads
  <1>7. ASSUME NEW u \in Users, NEW s \in Sockets, NEW g \in Groups, AskGroup(t, u, s, g)
        PROVE  FALSE
    BY <1>1, <1>7 DEF AskGroup, Idle, Threads
  <1>8. ASSUME NEW u \in Users, NEW s \in Sockets, NEW p \in AnySession, Quit(t, u, s, p)
        PROVE  FALSE
    BY <1>1, <1>8 DEF Quit, Idle, Threads
  <1>9. t # Network /\ t \in Threads
    BY SessionAssumption DEF Threads
  <1>10. Begin(t) => infos'[thread'[t].info].socket = thread'[t].socket
    BY <1>5, <1>6, <1>7, <1>8 DEF Begin
  <1> QED
    BY <1>2, <1>3, <1>4, <1>9, <1>10, OwnStep

\* An entry of a socket changes under the end of its connection only by the
\* packets that NoteLate notes, or by that end.
LEMMA SocketStep ==
    ASSUME IInv, Next, NEW s \in Sockets, socket_infos_map'[s] # socket_infos_map[s],
           s \notin late'
    PROVE  \/ /\ AberrantSocket /\ thread[Network].socket = s
              /\ socket_infos_map'[s] = 0
           \/ \E t \in Workers :
                /\ LoginSocket(t) \/ QuitSocket(t)
                /\ thread[t].socket = s /\ conn[s] = thread[t].uid
                /\ thread[Network].socket # s
  <1> CacheType /\ ThreadOwn /\ thread \in [Threads -> ThreadRecord(Len(infos))]
    BY Known
  <1>1. PICK t \in Threads : LoginSocket(t) \/ QuitSocket(t) \/ (t = Network /\ AberrantSocket)
    BY Writers
  <1>2. CASE LoginSocket(t) \/ QuitSocket(t)
    <2>1. t \in Workers /\ NoteLate(t)
      BY <1>2 DEF LoginSocket, QuitSocket, ThreadOwn, Owns, Threads
    <2>2. thread[t].socket = s
      BY <1>2 DEF LoginSocket, QuitSocket, AddSocket, DelSocket, CacheType
    <2> QED
      BY <1>2, <2>1, <2>2 DEF NoteLate
  <1>3. CASE t = Network /\ AberrantSocket
    BY <1>3 DEF AberrantSocket, DelSocket, CacheType
  <1> QED
    BY <1>1, <1>2, <1>3

\* What a late packet did stays noted.
LEMMA LateStays ==
    ASSUME Next
    PROVE  late \subseteq late'
  <1>1. ASSUME NEW t \in Threads,
               LoginSocket(t) \/ QuitSocket(t) \/ (t = Network /\ AberrantSocket)
        PROVE  late \subseteq late'
    BY <1>1 DEF LoginSocket, QuitSocket, AberrantSocket, NoteLate, historyVars
  <1> QED
    BY <1>1, Writers

\* OnAberrant holds the UserInfo it found for the socket.
LEMMA EndFindsStep ==
    ASSUME IInv, EndFinds, Next
    PROVE  EndFinds'
  <1> CacheType /\ ThreadOwn /\ thread \in [Threads -> ThreadRecord(Len(infos))]
    BY Known
  <1> Network \in Threads
    BY DEF Threads
  <1>1. SUFFICES ASSUME thread'[Network].pc = "aberrant",
                        thread'[Network].socket \notin late'
        PROVE  thread'[Network].info = socket_infos_map'[thread'[Network].socket]
    BY DEF EndFinds
  <1>2. CASE thread'[Network] = thread[Network]
    <2> DEFINE s == thread[Network].socket
    <2>1. s \in Sockets /\ s \notin late' /\ s \notin late
      BY <1>1, <1>2, LateStays DEF ThreadOwn, Owns
    <2>2. thread[Network].info = socket_infos_map[s]
      BY <1>1, <1>2, <2>1 DEF EndFinds
    <2>3. ~AberrantSocket
      <3>1. AberrantSocket => thread'[Network].pc = "clear_meeting"
        BY DEF AberrantSocket, ThreadRecord
      <3> QED
        BY <1>1, <3>1
    <2>4. socket_infos_map'[s] = socket_infos_map[s]
      BY <2>1, <2>3, SocketStep
    <2> QED
      BY <1>2, <2>2, <2>4
  <1>3. ASSUME NEW s \in Sockets, Close(s)
        PROVE  thread'[Network].info = socket_infos_map'[thread'[Network].socket]
    <2>1. UNCHANGED socket_infos_map /\ thread[Network].pc = "idle"
      BY <1>3 DEF Close, cacheVars, Idle
    <2>2. thread' = [thread EXCEPT ![Network] =
             [Idle EXCEPT !.pc = "aberrant", !.socket = s, !.info = socket_infos_map[s]]]
      BY <1>1, <1>3, <2>1 DEF Close
    <2> QED
      BY <2>1, <2>2 DEF Idle
  <1>4. ~Continue(Network)
    BY <1>1, SessionAssumption
    DEF Continue, LoginUser, LoginSocket, AskFirst, Invite, Enter, AskSecond, Join,
        ClearLeave, Meet, EnterGroup, QuitSocket, ClearMeeting, ClearUser, EraseUser, AberrantSocket,
        Goto, Done, Idle, ThreadRecord
  <1> QED
    BY <1>2, <1>3, <1>4, OwnStep, SessionAssumption

\* A user whose deletion ends, alone in the map, is not found.
LEMMA EraseOne ==
    ASSUME IInv, NEW t \in Threads, EraseUser(t), ~torn
    PROVE  /\ user_infos_map'[thread[t].uid] = 0
           /\ \A v \in Users : user_infos_map'[v] \in {0, user_infos_map[v]}
  <1>1. CacheType /\ ThreadOwn
    BY Known
  <1>2. /\ thread[t].uid \in Users /\ DelUserInos(thread[t].uid)
        /\ user_infos_map \in [Users -> 0 .. Len(infos)] /\ Len(infos) \in Nat
    BY <1>1 DEF EraseUser, ThreadOwn, Owns, CacheType
  <1>. QED BY <1>2, Erased

\* A packet in hand is dealt with by EraseUser, which takes the user out, or by
\* LoginSocket, after which the end of the connection will find the user.
LEMMA InHandStep ==
    ASSUME GInv, Next, NEW u \in Users, NEW s \in Sockets,
           user_infos_map[u] # 0, user_infos_map'[u] = user_infos_map[u],
           infos[user_infos_map[u]].socket = s, s \notin late', InHand(u), ~torn
    PROVE  InHand(u)' \/ WillEnd(u, s)'
  <1> IInv /\ SignInSocket /\ OwnEntry
    BY DEF GInv, IInv
  <1> CacheType /\ ThreadOwn /\ thread \in [Threads -> ThreadRecord(Len(infos))]
    BY Known
  <1>1. PICK t \in Workers :
          \/ thread[t].pc \in {"clear_meeting", "clear_user", "erase"} /\ thread[t].uid = u
          \/ thread[t].pc = "login_socket" /\ thread[t].info = user_infos_map[u]
    BY DEF InHand
  <1>2. t \in Threads /\ t # Network
    BY SessionAssumption DEF Threads
  <1>3. CASE thread'[t] = thread[t]
    BY <1>1, <1>3 DEF InHand
  <1>4. CASE ClearMeeting(t)
    <2>1. thread'[t].pc = "clear_user" /\ thread'[t].uid = u
      BY <1>1, <1>2, <1>4 DEF ClearMeeting, Goto, ThreadRecord
    <2> QED
      BY <2>1 DEF InHand
  <1>5. CASE ClearUser(t)
    <2>1. thread'[t].pc = "erase" /\ thread'[t].uid = u
      BY <1>1, <1>2, <1>5 DEF ClearUser, Goto, ThreadRecord
    <2> QED
      BY <2>1 DEF InHand
  <1>9. CASE EraseUser(t)
    <2>1. thread[t].uid = u
      BY <1>1, <1>9 DEF EraseUser
    <2>2. user_infos_map'[u] = 0
      BY <1>2, <1>9, <2>1, EraseOne
    <2> QED
      BY <2>2
  <1>6. CASE LoginSocket(t)
    <2>1. thread[t].info = user_infos_map[u] /\ thread[t].socket = s /\ thread[t].uid = u
      BY <1>1, <1>2, <1>6 DEF LoginSocket, SignInSocket, ThreadOwn, Owns, OwnEntry
    <2>2. conn[s] = u /\ thread[Network].socket # s
      BY <1>6, <2>1 DEF LoginSocket, NoteLate
    <2>3. socket_infos_map'[s] = user_infos_map[u]
      BY <1>6, <2>1 DEF LoginSocket, AddSocket, CacheType
    <2>4. infos' = infos /\ conn' = conn /\ thread'[Network] = thread[Network]
      BY <1>2, <1>6 DEF LoginSocket, Done, clientVars, Threads
    <2> QED
      BY <2>1, <2>2, <2>3, <2>4 DEF WillEnd, Clearing, OwnEntry
  <1>7. ASSUME Continue(t)
        PROVE  ClearMeeting(t) \/ ClearUser(t) \/ EraseUser(t) \/ LoginSocket(t)
    BY <1>1, <1>2, <1>7
    DEF Continue, LoginUser, AskFirst, Invite, Enter, AskSecond, Join, ClearLeave, Meet,
        EnterGroup, QuitSocket
  <1>8. ~Begin(t)
    <2>1. Begin(t) => thread[t] = Idle
      BY DEF Begin, Login, Ask, AskGroup, Quit, Take
    <2> QED
      BY <1>1, <2>1 DEF Idle
  <1> QED
    BY <1>2, <1>3, <1>4, <1>5, <1>6, <1>7, <1>8, <1>9, OwnStep

\* Until its end has taken its user out, a connection has the entry that its end
\* will find; a quit takes the entry away and is then in hand.
LEMMA WillEndStep ==
    ASSUME GInv, Next, NEW u \in Users, NEW s \in Sockets,
           user_infos_map'[u] # 0, s \notin late', WillEnd(u, s), ~torn
    PROVE  InHand(u)' \/ WillEnd(u, s)'
  <1> IInv /\ EndFinds
    BY DEF GInv
  <1> CacheType /\ ThreadOwn /\ thread \in [Threads -> ThreadRecord(Len(infos))]
    BY Known
  <1> Network \in Threads /\ Network \notin Workers /\ s \notin late
    BY LateStays, SessionAssumption DEF Threads
  <1> conn[s] = u
    BY DEF WillEnd
  <1>1. CASE EraseUser(Network) /\ thread[Network].socket = s
    <2>1. thread[Network].uid = u
      BY <1>1 DEF EraseUser, WillEnd, Clearing
    <2>2. user_infos_map'[u] = 0
      BY <1>1, <2>1, EraseOne
    <2> QED
      BY <2>2
  <1>2. conn'[s] = u \/ (EraseUser(Network) /\ thread[Network].socket = s)
    <2>1. CASE UNCHANGED conn
      BY <2>1
    <2>2. ASSUME NEW v \in Users, NEW x \in Sockets, Connect(v, x)
          PROVE  conn'[s] = u
      <3>1. x # s
        BY <2>2, SessionAssumption DEF Connect
      <3> QED
        BY <2>2, <3>1 DEF Connect, CacheType
    <2>3. ASSUME NEW x \in Sockets, Close(x)
          PROVE  conn'[s] = u
      <3>1. CASE x = s
        <4>1. socket_infos_map[s] # 0
          BY <2>3, <3>1 DEF Close, WillEnd, Clearing, Idle
        <4> QED
          BY <2>3, <3>1, <4>1 DEF Close
      <3>2. CASE x # s
        BY <2>3, <3>2 DEF Close, CacheType
      <3> QED
        BY <3>1, <3>2
    <2>4. ASSUME NEW t \in Threads, EraseUser(t)
          PROVE  conn'[s] = u \/ (EraseUser(Network) /\ thread[Network].socket = s)
      BY <2>4 DEF EraseUser, CacheType
    <2>5. \/ UNCHANGED conn
          \/ \E v \in Users, x \in Sockets : Connect(v, x)
          \/ \E x \in Sockets : Close(x)
          \/ \E t \in Threads : EraseUser(t)
      <3>1. ASSUME NEW t \in Workers, Begin(t)
            PROVE  UNCHANGED conn
        BY <3>1 DEF Begin, Login, Ask, AskGroup, Quit, Take
      <3>2. ASSUME NEW t \in Threads, Continue(t), ~EraseUser(t)
            PROVE  UNCHANGED conn
        BY <3>2 DEF Continue, LoginUser, LoginSocket, AskFirst, Invite, Enter, AskSecond,
           Join, ClearLeave, Meet, EnterGroup, QuitSocket, ClearMeeting, ClearUser,
           AberrantSocket, clientVars
      <3> QED
        BY <3>1, <3>2 DEF Next
    <2> QED
      BY <2>1, <2>2, <2>3, <2>4, <2>5
  <1>3. CASE AberrantSocket /\ thread[Network].socket = s
    <2>1. thread[Network].info = socket_infos_map[s] /\ ~Clearing(s)
      BY <1>3 DEF AberrantSocket, EndFinds, Clearing
    <2>2. infos[thread[Network].info].user = u
      BY <2>1 DEF WillEnd
    <2>3. /\ thread'[Network].pc = "clear_meeting" /\ thread'[Network].socket = s
          /\ thread'[Network].uid = u
      BY <1>3, <2>2 DEF AberrantSocket, ThreadRecord
    <2> QED
      BY <1>2, <1>3, <2>3 DEF WillEnd, Clearing, AberrantSocket, clientVars
  <1>4. ASSUME NEW t \in Workers, QuitSocket(t), thread[t].uid = u
        PROVE  InHand(u)'
    <2>1. thread'[t].pc = "clear_meeting" /\ thread'[t].uid = u
      BY <1>4 DEF QuitSocket, Goto, Threads, ThreadRecord
    <2> QED
      BY <2>1 DEF InHand
  <1>5. ASSUME NEW t \in Workers, LoginSocket(t), thread[t].socket = s, thread[t].uid = u,
               thread[Network].socket # s
        PROVE  WillEnd(u, s)'
    <2>1. thread[t].info # 0 /\ infos[thread[t].info].user = u
      BY <1>5 DEF LoginSocket, ThreadOwn, Owns, Threads
    <2>2. socket_infos_map'[s] = thread[t].info
      BY <1>5 DEF LoginSocket, AddSocket, CacheType
    <2>3. infos' = infos /\ conn' = conn /\ thread'[Network] = thread[Network]
      BY <1>5 DEF LoginSocket, Done, clientVars, Threads
    <2> QED
      BY <1>5, <2>1, <2>2, <2>3 DEF WillEnd, Clearing
  <1>6. CASE /\ conn'[s] = u /\ socket_infos_map'[s] = socket_infos_map[s]
             /\ ~(EraseUser(Network) /\ thread[Network].socket = s)
             /\ ~(AberrantSocket /\ thread[Network].socket = s)
    <2>1. Clearing(s)' <=> Clearing(s)
      <3>1. CASE thread'[Network] = thread[Network]
        BY <3>1 DEF Clearing
      <3>2. ASSUME NEW x \in Sockets, Close(x)
            PROVE  ~Clearing(s) /\ ~Clearing(s)'
        <4>1. thread[Network] = Idle
          BY <3>2 DEF Close
        <4>2. thread'[Network].pc \in {"idle", "aberrant"}
          <5>1. CASE UNCHANGED thread
            BY <4>1, <5>1 DEF Idle
          <5>2. CASE thread' = [thread EXCEPT ![Network] =
                                  [Idle EXCEPT !.pc = "aberrant", !.socket = x,
                                               !.info = socket_infos_map[x]]]
            <6>1. thread'[Network] = [Idle EXCEPT !.pc = "aberrant", !.socket = x,
                                                  !.info = socket_infos_map[x]]
              BY <5>2
            <6> QED
              BY <6>1 DEF Idle
          <5> QED
            BY <3>2, <5>1, <5>2 DEF Close
        <4> QED
          BY <4>1, <4>2 DEF Clearing, Idle
      <3>3. ASSUME Continue(Network)
            PROVE  \/ ClearMeeting(Network) \/ ClearUser(Network) \/ EraseUser(Network)
                   \/ AberrantSocket
        BY <3>3 DEF Continue, ThreadOwn, Owns, LoginUser, LoginSocket, AskFirst, Invite,
           Enter, AskSecond, Join, ClearLeave, Meet, EnterGroup, QuitSocket
      <3>4. CASE ClearMeeting(Network)
        BY <3>4 DEF ClearMeeting, Goto, Clearing, ThreadRecord
      <3>5. CASE ClearUser(Network)
        BY <3>5 DEF ClearUser, Goto, Clearing, ThreadRecord
      <3>7. CASE EraseUser(Network)
        BY <1>6, <3>7 DEF EraseUser, Done, Idle, Clearing
      <3>6. CASE AberrantSocket
        BY <1>6, <3>6 DEF AberrantSocket, Clearing, ThreadRecord
      <3> QED
        BY <3>1, <3>2, <3>3, <3>4, <3>5, <3>6, <3>7, OwnStep
    <2>2. CASE Clearing(s)
      <3>1. thread'[Network].uid = thread[Network].uid
        <4>1. CASE thread'[Network] = thread[Network]
          BY <4>1
        <4>2. CASE Continue(Network)
          <5>1. ClearMeeting(Network) \/ ClearUser(Network)
            BY <1>6, <2>2, <4>2 DEF Clearing, Continue, LoginUser, LoginSocket, AskFirst,
               Invite, Enter, AskSecond, Join, ClearLeave, Meet, EnterGroup, QuitSocket,
               AberrantSocket, EraseUser
          <5> QED
            BY <5>1 DEF ClearMeeting, ClearUser, Goto, ThreadRecord
        <4>3. ASSUME NEW x \in Sockets, Close(x)
              PROVE  FALSE
          BY <2>2, <4>3 DEF Close, Clearing, Idle
        <4> QED
          BY <4>1, <4>2, <4>3, OwnStep
      <3> QED
        BY <1>6, <2>1, <2>2, <3>1 DEF WillEnd
    <2>3. CASE ~Clearing(s)
      <3>1. socket_infos_map[s] \in 1 .. Len(infos) /\ infos[socket_infos_map[s]].user = u
        BY <2>3 DEF WillEnd, CacheType
      <3>2. infos'[socket_infos_map[s]].user = u
        BY <3>1, InfoKept
      <3> QED
        BY <1>6, <2>1, <2>3, <3>1, <3>2 DEF WillEnd
    <2> QED
      BY <2>2, <2>3
  <1> QED
    BY <1>1, <1>2, <1>3, <1>4, <1>5, <1>6, SocketStep

\* A user comes online by LoginUser, whose sign-in is then in hand.
LEMMA PresentStep ==
    ASSUME GInv, Next
    PROVE  Present'
  <1> IInv /\ Present /\ SignInSocket
    BY DEF GInv
  <1>0. torn => torn'
    BY Writers DEF ClearUser
  <1> CacheType /\ ThreadOwn /\ thread \in [Threads -> ThreadRecord(Len(infos))]
    BY Known
  <1>1. SUFFICES ASSUME ~torn', NEW u \in Users, user_infos_map'[u] # 0,
                        infos'[user_infos_map'[u]].socket \notin late'
        PROVE  InHand(u)' \/ WillEnd(u, infos[user_infos_map[u]].socket)'
    BY DEF Present
  <1> ~torn
    BY <1>0, <1>1
  <1>2. CASE user_infos_map'[u] = user_infos_map[u]
    <2> DEFINE i == user_infos_map[u]
               s == infos[i].socket
    <2>1. i \in 1 .. Len(infos)
      BY <1>1, <1>2 DEF CacheType
    <2>2. s \in Sockets /\ infos'[i].socket = s
      <3>1. infos[i] \in Info
        BY <2>1 DEF CacheType
      <3> QED
        BY <2>1, <3>1, InfoKept DEF Info
    <2>3. s \notin late' /\ s \notin late
      BY <1>1, <1>2, <2>2, LateStays
    <2>4. InHand(u) \/ WillEnd(u, s)
      BY <1>1, <1>2, <2>3 DEF Present
    <2>5. PICK x \in Sockets : x = s
      BY <2>2
    <2>6. InHand(u)' \/ WillEnd(u, x)'
      BY <1>1, <1>2, <2>3, <2>4, <2>5, InHandStep, WillEndStep
    <2> QED
      BY <1>2, <2>2, <2>5, <2>6
  <1>3. CASE user_infos_map'[u] # user_infos_map[u]
    <2>1. PICK t \in Threads : LoginUser(t) \/ EraseUser(t)
      BY <1>3, Writers
    <2>2. ~EraseUser(t)
      BY <1>1, <1>3, EraseOne
    <2>7. /\ AddUserInfos(thread[t].uid, thread[t].info) /\ thread[t].pc = "login_user"
          /\ thread[t] \in ThreadRecord(Len(infos))
      BY <2>1, <2>2 DEF LoginUser
    <2>8. thread[t].uid \in Users /\ t \in Workers
      BY <2>7 DEF ThreadOwn, Owns, Threads
    <2>9. thread[t].info \in 0 .. Len(infos)
      BY <2>7 DEF ThreadRecord
    <2>10. user_infos_map \in [Users -> 0 .. Len(infos)] /\ Len(infos) \in Nat
      BY DEF CacheType
    <2>6. /\ user_infos_map'[thread[t].uid] = thread[t].info
          /\ \A v \in Users \ {thread[t].uid} : user_infos_map'[v] = user_infos_map[v]
      BY <2>7, <2>8, <2>9, <2>10, Added
    <2>3. t \in Workers /\ thread[t].uid = u /\ user_infos_map'[u] = thread[t].info
      BY <1>3, <2>8, <2>6
    <2>4. thread'[t].pc = "login_socket" /\ thread'[t].info = thread[t].info
      BY <2>1, <2>2 DEF LoginUser, Goto, ThreadRecord
    <2> QED
      BY <2>3, <2>4 DEF InHand
  <1> QED
    BY <1>2, <1>3

\* Nobody is online at the start.
LEMMA InitGInv == Init => GInv
  <1> SUFFICES ASSUME Init PROVE GInv
    OBVIOUS
  <1>1. IInv
    BY InitIInv
  <1>2. SignInSocket /\ EndFinds
    BY SessionAssumption DEF Init, SignInSocket, EndFinds, Idle, Threads
  <1>3. Present
    BY DEF Init, CacheInit, Present
  <1> QED
    BY <1>1, <1>2, <1>3 DEF GInv

\* Every step preserves the invariant.
LEMMA NextGInv == GInv /\ [Next]_vars => GInv'
  <1> SUFFICES ASSUME GInv, [Next]_vars PROVE GInv'
    OBVIOUS
  <1>1. IInv'
    BY NextIInv DEF GInv
  <1>2. CASE UNCHANGED vars
    <2>1. UNCHANGED <<infos, user_infos_map, socket_infos_map, conn, late, torn, thread>>
      BY <1>2 DEF vars, cacheVars, clientVars, historyVars
    <2>2. SignInSocket' /\ EndFinds'
      BY <2>1 DEF GInv, SignInSocket, EndFinds
    <2>3. Present'
      BY <2>1 DEF GInv, Present, InHand, WillEnd, Clearing
    <2> QED
      BY <1>1, <2>2, <2>3 DEF GInv
  <1>3. CASE Next
    BY <1>1, <1>3, SignInSocketStep, EndFindsStep, PresentStep DEF GInv
  <1> QED
    BY <1>2, <1>3

\* A user stays in user_infos_map without a connection only through a sign-in or a
\* quit that was handled after the end of its connection, or once two threads
\* were in DelUserInos at once: OnAberrant finds the user of every other
\* connection, and ClearUserinfo takes it out.
THEOREM GhostsAreLate == Spec => []GhostOnlyAfterLatePacket
  <1>1. GInv => GhostOnlyAfterLatePacket
    BY DEF GInv, Present, InHand, WillEnd, GhostOnlyAfterLatePacket
  <1>. QED BY <1>1, InitGInv, NextGInv, PTL DEF Spec

-----------------------------------------------------------------------------
(* Messages: the invariants *)

\* Types of what ChatMessage adds.
Mail(n, m) ==
    [pc : {"idle", "lookup", "compare", "send", "expect", "not_self", "sound"},
     from : Users \cup {Nobody}, to : Users \cup {Nobody}, session : AnySession,
     id : 0 .. n, info : 0 .. m]

Received(n) ==
    [id : 0 .. n, from : Users, session : Sessions \cup Groups, socket : Sockets,
     client : Users]

MailType ==
    /\ sending \in [Workers -> Mail(handled, Len(infos))]
    /\ received \subseteq Received(handled)
    /\ confirmed \subseteq 0 .. handled

FollowType ==
    /\ partner \in [Users -> [Sessions -> Users \cup {Nobody}]]
    /\ current \in [Users -> AnySession]
    /\ overlapped \subseteq Users

\* Whom a user's client is told a private session for is the other of its pair.
PairIs(s, u, v) == u # v /\ pair[s] = {u, v}

PartnerRight ==
    \A u \in Users, s \in Sessions :
        partner[u][s] # Nobody => PairIs(s, u, partner[u][s])

AskRight ==
    \A t \in Workers :
        (thread[t].pc \in {"enter", "clear_leave", "meet"} /\ thread[t].session \in Sessions)
          => thread[t].opp \in Users /\ PairIs(thread[t].session, thread[t].uid, thread[t].opp)

\* Whom u's client was told session s for, or is being told.
Pals(u, s) == {partner[u][s]} \cup BeingTold(u, s)

\* A private session is set for a user whose client is told it.
SessionKnown ==
    \A i \in DOMAIN infos :
        infos[i].session \in Sessions =>
            \E v \in Users : v \in Pals(infos[i].user, infos[i].session)

\* A message under way is between the pair of its session, and is sent to a
\* client that is told it.
RightMail(t) ==
    LET m == sending[t] IN
    /\ m.pc # "idle" => m.from \in Users
    /\ m.pc \in {"lookup", "compare", "send"} =>
         m.session \in Sessions /\ m.to \in Users /\ partner[m.from][m.session] = m.to
    /\ m.pc \in {"compare", "send"} => m.info # 0 /\ infos[m.info].user = m.to
    /\ m.pc = "send" => m.from \in Pals(m.to, m.session)
    /\ m.pc \in {"not_self", "sound"} => m.session \in Groups

MailRight == \A t \in Workers : RightMail(t)

\* Connections, and the sign-ins of connections, are those of known pairs.
OnPackets ==
    /\ \A s \in Sockets : conn[s] # Nobody => <<conn[s], s>> \in packets
    /\ \A i \in DOMAIN infos : <<infos[i].user, infos[i].socket>> \in packets

FInv == TInv /\ FollowType /\ PartnerRight /\ AskRight /\ SessionKnown /\ OnPackets

MInv == FInv /\ MailType /\ MailRight /\ PrivateMail /\ ToldBeforeMail

\* Ids of the messages under way.
UnderWay(t) == sending[t].pc # "idle"

\* Each message is a packet of its own, whose confirmation is expected at its
\* end, once.
CInv ==
    /\ \A t, u \in Workers :
         UnderWay(t) /\ UnderWay(u) /\ sending[t].id = sending[u].id => t = u
    /\ \A t \in Workers : UnderWay(t) => sending[t].id \notin confirm_message_map
    /\ \A t \in Workers : UnderWay(t) /\ sending[t].id \in confirmed => sending[t].id \in early
    /\ confirm_message_map \subseteq 0 .. handled
    /\ ConfirmedIsForgotten

Asking == {"ask", "invite", "enter", "join", "clear_leave", "meet", "group"}

\* A user whose packets were handled one at a time: while one is, the client is
\* not told a session, the handler's UserInfo is the one others find, and it has
\* the session the handler set.
OneAtATime(u) ==
    /\ \A t1, t2 \in Workers : thread[t1].uid = u /\ thread[t2].uid = u => t1 = t2
    /\ \A t \in Workers : thread[t].uid = u =>
         /\ current[u] = NoSession
         /\ thread[t].pc \in Asking => user_infos_map[u] \in {0, thread[t].info}
         /\ thread[t].pc \in {"clear_leave", "meet"} =>
              infos[thread[t].info].session = thread[t].session

\* The session a client was last told is the one others find.
CurrentIsSet(u) ==
    (current[u] # NoSession /\ user_infos_map[u] # 0)
      => infos[user_infos_map[u]].session = current[u]

AInv == \A u \in Users \ overlapped : OneAtATime(u) /\ CurrentIsSet(u)

-----------------------------------------------------------------------------
(* A step is one of ChatSession, or takes a message, or goes on with one *)

\* A message taken counts as a packet, and changes nothing else of ChatSession.
TakesMail ==
    /\ UNCHANGED <<cacheVars, conn, packets, told, historyVars, thread>>
    /\ handled < MaxPackets /\ handled' = handled + 1

\* A message that is taken is the worker's; only a confirmation changes more.
LEMMA BeginMailWrites ==
    ASSUME NEW t \in Workers, BeginMail(t)
    PROVE  /\ TakesMail /\ UNCHANGED <<followVars, received, offline>>
           /\ \/ UNCHANGED <<confirm_message_map, confirmed, early>>
              \/ \E u \in Users, x \in Sockets : Confirm(t, u, x)
           /\ sending' = sending \/ \E mail : sending' = [sending EXCEPT ![t] = mail]
  <1>1. ASSUME NEW u \in Users, NEW x \in Sockets, TakeMail(t, u, x)
        PROVE  TakesMail /\ UNCHANGED followVars
    BY <1>1 DEF TakeMail, Take, TakesMail
  <1>2. ASSUME NEW u \in Users, NEW x \in Sockets, NEW v, NEW s, Message(t, u, x, v, s)
        PROVE  /\ TakeMail(t, u, x) /\ \E mail : sending' = [sending EXCEPT ![t] = mail]
               /\ UNCHANGED <<received, offline, confirm_message_map, confirmed, early>>
    BY <1>2 DEF Message
  <1>3. ASSUME NEW u \in Users, NEW x \in Sockets, Confirm(t, u, x)
        PROVE  TakeMail(t, u, x) /\ UNCHANGED <<sending, received, offline>>
    BY <1>3 DEF Confirm
  <1>4. ASSUME NEW u \in Users, NEW x \in Sockets, NEW g, NEW pc, GroupMessage(t, u, x, g, pc)
        PROVE  /\ TakeMail(t, u, x) /\ \E mail : sending' = [sending EXCEPT ![t] = mail]
               /\ UNCHANGED <<received, offline, confirm_message_map, confirmed, early>>
    BY <1>4 DEF GroupMessage
  <1> QED
    BY <1>1, <1>2, <1>3, <1>4 DEF BeginMail

\* The steps of a message change no session; who writes what besides.
LEMMA ContinueMailWrites ==
    ASSUME NEW t \in Workers, ContinueMail(t)
    PROVE  /\ UNCHANGED vars /\ UNCHANGED followVars /\ UNCHANGED <<confirmed, early>>
           /\ \E mail : sending' = [sending EXCEPT ![t] = mail]
           /\ \/ received' = received
              \/ SendPrivate(t) \/ SendMeetingNotSelf(t) \/ SendMeetingMessage(t)
           /\ \/ offline' = offline
              \/ LookupAway(t) \/ Compare(t)
           /\ confirm_message_map' = confirm_message_map \/ AddConfirmMessage(t)
  <1> USE DEF GotoMail, DoneMail
  <1>1. CASE LookupAway(t)
    BY <1>1 DEF LookupAway
  <1>2. CASE Lookup(t)
    BY <1>2 DEF Lookup
  <1>3. CASE Compare(t)
    BY <1>3 DEF Compare
  <1>4. CASE SendPrivate(t)
    BY <1>4 DEF SendPrivate
  <1>5. CASE AddConfirmMessage(t)
    BY <1>5 DEF AddConfirmMessage
  <1>6. CASE SendMeetingNotSelf(t)
    BY <1>6 DEF SendMeetingNotSelf
  <1>7. CASE SendMeetingMessage(t)
    BY <1>7 DEF SendMeetingMessage
  <1> QED
    BY <1>1, <1>2, <1>3, <1>4, <1>5, <1>6, <1>7 DEF ContinueMail

\* A message's steps leave the sessions alone.
LEMMA MailSteps ==
    ASSUME NEW t \in Workers
    PROVE  /\ BeginMail(t) => TakesMail
           /\ ContinueMail(t) => UNCHANGED vars
           /\ BeginMail(t) \/ ContinueMail(t) => UNCHANGED followVars
  BY BeginMailWrites, ContinueMailWrites

\* Which steps change what a message is about.
LEMMA MailWriters ==
    ASSUME MessageNext
    PROVE  /\ \/ received' = received
              \/ \E t \in Workers :
                   SendPrivate(t) \/ SendMeetingNotSelf(t) \/ SendMeetingMessage(t)
           /\ offline' = offline \/ \E t \in Workers : LookupAway(t) \/ Compare(t)
           /\ \/ UNCHANGED <<confirmed, early>>
              \/ \E t \in Workers, u \in Users, x \in Sockets : Confirm(t, u, x)
           /\ sending' = sending \/ \E t \in Workers : BeginMail(t) \/ ContinueMail(t)
  <1>1. ASSUME UNCHANGED mailVars
        PROVE  UNCHANGED <<sending, received, offline, confirm_message_map, confirmed, early>>
    BY <1>1 DEF mailVars
  <1>2. ASSUME NEW t, BeginSession(t) \/ ContinueSession(t)
        PROVE  UNCHANGED mailVars
    BY <1>2 DEF BeginSession, ContinueSession
  <1> QED
    BY <1>1, <1>2, BeginMailWrites, ContinueMailWrites DEF MessageNext

\* A step is one of ChatSession, or leaves it but for the packets counted.
LEMMA SessionSteps ==
    ASSUME MessageNext
    PROVE  \/ Next /\ UNCHANGED mailVars
           \/ (TakesMail \/ UNCHANGED vars) /\ UNCHANGED followVars
  BY MailSteps DEF MessageNext, Next, BeginSession, ContinueSession

\* What holds of the conversations with every step of ChatSession holds with
\* messages beside them.
LEMMA MessageTInv == TInv /\ [MessageNext]_messageVars => TInv'
  <1> SUFFICES ASSUME TInv, [MessageNext]_messageVars PROVE TInv'
    OBVIOUS
  <1>1. CASE [Next]_vars
    BY <1>1, NextTInv
  <1>2. CASE TakesMail
    <2>1. UNCHANGED <<infos, user_infos_map, socket_infos_map, leave_infos_map,
                      meeting_infos_map, conn, packets, told, pair, late, torn, thread>>
      BY <1>2 DEF TakesMail, cacheVars, historyVars
    <2>2. handled \in 0 .. MaxPackets => handled' \in 0 .. MaxPackets
      BY <1>2, SessionAssumption DEF TakesMail, SessionAssumption
    <2>3. TypeOK'
      BY <2>1, <2>2 DEF TInv, IInv, TypeOK
    <2>4. (OwnEntry /\ PairOfTwo /\ ThreadOwn /\ ThreadSession /\ ExclusiveSession)'
      BY <2>1 DEF TInv, IInv, OwnEntry, PairOfTwo, ThreadOwn, Owns, ThreadSession, Carries,
                  ExclusiveSession
    <2>5. (MembersTold /\ InviterKnows /\ FoundKnows)'
      BY <2>1 DEF TInv, MembersTold, InviterKnows, FoundKnows, WillKnow
    <2> QED
      BY <2>3, <2>4, <2>5 DEF TInv, IInv
  <1>3. CASE UNCHANGED messageVars
    <2>1. UNCHANGED vars
      BY <1>3 DEF messageVars
    <2> QED
      BY <2>1, NextTInv
  <1> QED
    BY <1>1, <1>2, <1>3, SessionSteps

-----------------------------------------------------------------------------
(* What the clients have been told *)

\* An answer: the asker's client knows the session, and whom it is for.
Told(t) ==
    /\ partner' = [u \in Users |-> [s \in Sessions |->
          IF u = thread[t].uid /\ s = thread[t].session THEN thread[t].opp
          ELSE partner[u][s]]]
    /\ current' = [u \in Users |->
          IF u = thread[t].uid THEN thread[t].session ELSE current[u]]
    /\ overlapped' = overlapped

\* A packet begun: its user may be away from the session it was told.
Away(t) ==
    /\ partner' = partner
    /\ current' = [u \in Users |-> IF u = thread'[t].uid THEN NoSession ELSE current[u]]
    /\ overlapped' = overlapped \cup
         {u \in Users : u = thread'[t].uid /\
                        \E x \in Workers : x # t /\ thread[x].uid = u}

\* An answer is told to one client: whom it asked for, and the session.
LEMMA AnswerFollow ==
    ASSUME IInv, FollowType, NEW t \in Threads, ContinueSession(t), Enter(t) \/ Meet(t)
    PROVE  t \in Workers /\ Told(t)
  <1> CacheType /\ ThreadOwn /\ thread \in [Threads -> ThreadRecord(Len(infos))]
    BY Known
  <1>1. thread[t].pc \in {"enter", "meet"} /\ thread' = [thread EXCEPT ![t] = Idle]
    BY DEF Enter, Meet, Done
  <1>2. t \in Workers
    BY <1>1 DEF ThreadOwn, Owns, Threads
  <1>3. Answered = {t} /\ Began = {}
    BY <1>1, <1>2 DEF Answered, Began, Idle, Threads
  <1>4. \A u \in Users : Asks(u) = IF u = thread[t].uid THEN {thread[t]} ELSE {}
    BY <1>3 DEF Asks
  <1>5. partner' = [u \in Users |-> [s \in Sessions |->
            IF \E ask \in Asks(u) : ask.session = s
            THEN (CHOOSE ask \in Asks(u) : TRUE).opp ELSE partner[u][s]]]
    BY DEF ContinueSession, Follow
  <1>6. current' = [u \in Users |->
            IF Asks(u) # {} THEN (CHOOSE ask \in Asks(u) : TRUE).session
            ELSE IF \E x \in Began : thread'[x].uid = u THEN NoSession ELSE current[u]]
    BY DEF ContinueSession, Follow
  <1>7. ASSUME NEW u \in Users
        PROVE  /\ u = thread[t].uid => (CHOOSE ask \in Asks(u) : TRUE) = thread[t]
               /\ Asks(u) # {} <=> u = thread[t].uid
    BY <1>4
  <1>8. \A u \in Users : \A s \in Sessions :
            (\E ask \in Asks(u) : ask.session = s) <=> u = thread[t].uid /\ thread[t].session = s
    BY <1>4
  <1>9. overlapped' = overlapped
    BY <1>3 DEF ContinueSession, Follow
  <1> QED
    BY <1>2, <1>3, <1>5, <1>6, <1>7, <1>8, <1>9 DEF Told

\* The other steps of a handler tell no client anything.
LEMMA OtherFollow ==
    ASSUME IInv, FollowType, NEW t \in Threads, ContinueSession(t), ~Enter(t), ~Meet(t)
    PROVE  UNCHANGED followVars
  <1> CacheType /\ ThreadOwn /\ thread \in [Threads -> ThreadRecord(Len(infos))]
    BY Known
  <1>1. thread[t].pc \notin {"enter", "meet", "idle"} /\ \A x \in Threads : x # t => thread'[x] = thread[x]
    BY DEF ContinueSession, Continue, LoginUser, LoginSocket, AskFirst, Invite, AskSecond,
           Join, ClearLeave, EnterGroup, QuitSocket, ClearMeeting, ClearUser, EraseUser,
           AberrantSocket, Goto, Done
  <1>2. Answered = {} /\ Began = {}
    BY <1>1 DEF Answered, Began, Idle, Threads
  <1>3. \A u \in Users : Asks(u) = {}
    BY <1>2 DEF Asks
  <1>4. partner' = [u \in Users |-> [s \in Sessions |-> partner[u][s]]]
    BY <1>3 DEF ContinueSession, Follow
  <1>5. current' = [u \in Users |-> current[u]]
    BY <1>2, <1>3 DEF ContinueSession, Follow
  <1>6. overlapped' = overlapped
    BY <1>2 DEF ContinueSession, Follow
  <1> QED
    BY <1>4, <1>5, <1>6 DEF FollowType, followVars

\* A packet begun is one worker's, and takes its user away from the session.
LEMMA BeginFollow ==
    ASSUME IInv, FollowType, NEW t \in Workers, BeginSession(t)
    PROVE  Away(t) /\ thread[t] = Idle /\ thread'[t].uid \in Users
             /\ \A x \in Threads : x # t => thread'[x] = thread[x]
  <1> CacheType /\ ThreadOwn /\ thread \in [Threads -> ThreadRecord(Len(infos))]
    BY Known
  <1> t \in Threads
    BY DEF Threads
  <1>1. thread[t] = Idle
    BY DEF BeginSession, Begin, Login, Ask, AskGroup, Quit, Take
  <1>2. PICK uid \in Users, socket \in Sockets :
            \/ Login(t, uid, socket)
            \/ \E opp \in Users \ {uid} : Ask(t, uid, socket, opp)
            \/ \E group \in Groups : AskGroup(t, uid, socket, group)
            \/ \E session \in AnySession : Quit(t, uid, socket, session)
    BY DEF BeginSession, Begin
  <1>3. thread'[t].uid = uid /\ \A x \in Threads : x # t => thread'[x] = thread[x]
    <2>1. CASE Login(t, uid, socket)
      BY <2>1 DEF Login, Idle
    <2>2. ASSUME NEW opp, Ask(t, uid, socket, opp)
          PROVE  thread'[t].uid = uid /\ \A x \in Threads : x # t => thread'[x] = thread[x]
      BY <2>2 DEF Ask, Idle
    <2>3. ASSUME NEW group, AskGroup(t, uid, socket, group)
          PROVE  thread'[t].uid = uid /\ \A x \in Threads : x # t => thread'[x] = thread[x]
      BY <2>3 DEF AskGroup, Idle
    <2>4. ASSUME NEW session, Quit(t, uid, socket, session)
          PROVE  thread'[t].uid = uid /\ \A x \in Threads : x # t => thread'[x] = thread[x]
      BY <2>4 DEF Quit, Idle
    <2> QED
      BY <1>2, <2>1, <2>2, <2>3, <2>4
  <1>4. thread'[t] # Idle
    BY <1>3, SessionAssumption DEF Idle, SessionAssumption
  <1>5. Began = {t} /\ Answered = {}
    BY <1>1, <1>3, <1>4 DEF Began, Answered, Idle, Threads
  <1>6. \A u \in Users : Asks(u) = {}
    BY <1>5 DEF Asks
  <1>7. partner' = [u \in Users |-> [s \in Sessions |-> partner[u][s]]]
    BY <1>6 DEF BeginSession, Follow
  <1>8. current' = [u \in Users |-> IF u = thread'[t].uid THEN NoSession ELSE current[u]]
    BY <1>5, <1>6 DEF BeginSession, Follow
  <1>9. overlapped' = overlapped \cup
         {u \in Users : u = thread'[t].uid /\
                        \E x \in Workers : x # t /\ thread[x].uid = u}
    BY <1>5 DEF BeginSession, Follow
  <1> QED
    BY <1>1, <1>2, <1>3, <1>7, <1>8, <1>9 DEF FollowType, Away

-----------------------------------------------------------------------------
(* Private sessions, and whom they are told for *)

\* A session drawn stays with its pair: AskFirst draws one that has none.
LEMMA PairStays ==
    ASSUME IInv, [Next]_vars, NEW s \in Sessions, pair[s] # {}
    PROVE  pair'[s] = pair[s]
  <1> CacheType
    BY Known
  <1>1. ASSUME NEW t \in Threads, AskFirst(t) PROVE pair'[s] = pair[s]
    BY <1>1 DEF AskFirst, CacheType
  <1>2. \/ UNCHANGED pair
        \/ \E t \in Threads : AskFirst(t)
    BY Writers DEF vars, historyVars
  <1> QED
    BY <1>1, <1>2

\* What goes on from one position of a handler to the next.
LEMMA TellingStep ==
    ASSUME IInv, MessageNext, NEW t \in Workers, thread'[t] # thread[t],
           thread'[t].pc \in {"enter", "clear_leave", "meet"}
    PROVE  /\ Invite(t) \/ EnterGroup(t) \/ Join(t) \/ ClearLeave(t)
           /\ thread'[t].uid = thread[t].uid /\ thread'[t].opp = thread[t].opp
           /\ thread'[t].session = thread[t].session /\ thread'[t].info = thread[t].info
  <1> CacheType /\ ThreadOwn /\ thread \in [Threads -> ThreadRecord(Len(infos))]
    BY Known
  <1> t \in Threads /\ t # Network
    BY SessionAssumption DEF Threads, SessionAssumption
  <1>1. Next
    BY SessionSteps DEF TakesMail, vars
  <1>2. Continue(t) \/ Begin(t)
    BY <1>1, OwnStep
  <1>3. ~Begin(t)
    <2>1. SUFFICES ASSUME Begin(t) PROVE FALSE
      OBVIOUS
    <2>2. PICK uid \in Users, socket \in Sockets :
              \/ Login(t, uid, socket)
              \/ \E opp \in Users \ {uid} : Ask(t, uid, socket, opp)
              \/ \E group \in Groups : AskGroup(t, uid, socket, group)
              \/ \E session \in AnySession : Quit(t, uid, socket, session)
      BY <2>1 DEF Begin
    <2>3. thread'[t].pc \in {"login_user", "ask", "group", "quit"}
      BY <2>2 DEF Login, Ask, AskGroup, Quit, Idle
    <2> QED
      BY <2>3
  <1>4. Continue(t)
    BY <1>2, <1>3
  <1>5. Invite(t) \/ EnterGroup(t) \/ Join(t) \/ ClearLeave(t)
    BY <1>4 DEF Continue, LoginUser, LoginSocket, AskFirst, Enter, AskSecond, Meet,
       QuitSocket, ClearMeeting, ClearUser, EraseUser, Goto, Done, Idle, ThreadRecord
  <1> QED
    BY <1>5 DEF Invite, EnterGroup, Join, ClearLeave, Goto, ThreadRecord

\* A handler that will answer keeps the pair of its session.
LEMMA AskRightStep ==
    ASSUME FInv, MessageNext
    PROVE  AskRight'
  <1> IInv /\ AskRight
    BY DEF FInv, TInv
  <1> CacheType /\ ThreadOwn /\ ThreadSession
    BY Known DEF IInv
  <1> [Next]_vars \/ TakesMail
    BY SessionSteps
  <1>1. SUFFICES ASSUME NEW t \in Workers, thread'[t].pc \in {"enter", "clear_leave", "meet"},
                        thread'[t].session \in Sessions
                 PROVE  /\ thread'[t].opp \in Users
                        /\ thread'[t].uid # thread'[t].opp
                        /\ pair'[thread'[t].session] = {thread'[t].uid, thread'[t].opp}
    BY DEF AskRight, PairIs
  <1> t \in Threads
    BY DEF Threads
  <1>2. \A s \in Sessions : pair[s] # {} => pair'[s] = pair[s]
    BY PairStays DEF TakesMail, historyVars
  <1>3. CASE thread'[t] = thread[t]
    BY <1>1, <1>2, <1>3 DEF AskRight, PairIs
  <1>4. CASE thread'[t] # thread[t]
    <2> DEFINE x == thread[t]
    <2>1. /\ Invite(t) \/ EnterGroup(t) \/ Join(t) \/ ClearLeave(t)
          /\ thread'[t].uid = x.uid /\ thread'[t].opp = x.opp
          /\ thread'[t].session = x.session
      BY <1>1, <1>4, TellingStep
    <2>2. ~EnterGroup(t)
      BY <1>1, <2>1, CacheAssumption
      DEF EnterGroup, ThreadOwn, Owns, CacheAssumption
    <2>3. x.pc \in {"invite", "join", "clear_leave"} /\ x.session \in Sessions
      BY <1>1, <2>1, <2>2 DEF Invite, Join, ClearLeave
    <2>4. x.opp \in Users /\ x.opp # x.uid /\ pair[x.session] = {x.uid, x.opp}
      BY <2>3 DEF ThreadOwn, Owns, ThreadSession, Carries
    <2> QED
      BY <1>2, <2>1, <2>3, <2>4 DEF PairIs
  <1> QED
    BY <1>3, <1>4

\* What a client is told is of the pair of the session.
LEMMA PartnerRightStep ==
    ASSUME FInv, MessageNext
    PROVE  PartnerRight'
  <1> IInv /\ FollowType /\ PartnerRight /\ AskRight
    BY DEF FInv, TInv
  <1> [Next]_vars \/ TakesMail
    BY SessionSteps
  <1>1. \A s \in Sessions : pair[s] # {} => pair'[s] = pair[s]
    BY PairStays DEF TakesMail, historyVars
  <1>2. CASE partner' = partner
    BY <1>1, <1>2 DEF PartnerRight, PairIs
  <1>3. ASSUME NEW t \in Threads, ContinueSession(t), Enter(t) \/ Meet(t)
        PROVE  PartnerRight'
    <2>1. t \in Workers /\ Told(t)
      BY <1>3, AnswerFollow
    <2>2. thread[t].pc \in {"enter", "meet"}
      BY <1>3 DEF Enter, Meet
    <2>3. SUFFICES ASSUME NEW u \in Users, NEW s \in Sessions, partner'[u][s] # Nobody
                   PROVE  u # partner'[u][s] /\ pair'[s] = {u, partner'[u][s]}
      BY DEF PartnerRight, PairIs
    <2>4. CASE u = thread[t].uid /\ s = thread[t].session
      <3>1. partner'[u][s] = thread[t].opp
        BY <2>1, <2>4 DEF Told
      <3>2. u # thread[t].opp /\ pair[s] = {u, thread[t].opp}
        BY <2>1, <2>2, <2>4 DEF AskRight, PairIs
      <3> QED
        BY <1>1, <3>1, <3>2 DEF PairIs
    <2>5. CASE ~(u = thread[t].uid /\ s = thread[t].session)
      <3>1. partner'[u][s] = partner[u][s]
        BY <2>1, <2>5 DEF Told
      <3> QED
        BY <1>1, <2>3, <3>1 DEF PartnerRight, PairIs
    <2> QED
      BY <2>4, <2>5
  <1>4. ASSUME NEW t \in Threads, ContinueSession(t), ~Enter(t), ~Meet(t)
        PROVE  partner' = partner
    BY <1>4, OtherFollow DEF followVars
  <1>5. ASSUME NEW t \in Workers, BeginSession(t)
        PROVE  partner' = partner
    BY <1>5, BeginFollow DEF Away
  <1> QED
    BY <1>2, <1>3, <1>4, <1>5, MailSteps DEF MessageNext, followVars

\* Whom a client was told a session for stays, and whom it is being told it for
\* is then told.
LEMMA PalsStay ==
    ASSUME FInv, MessageNext, NEW u \in Users, NEW s \in Sessions, NEW v \in Users,
           v \in Pals(u, s)
    PROVE  v \in Pals(u, s)'
  <1> IInv /\ FollowType /\ PartnerRight /\ AskRight
    BY DEF FInv, TInv
  <1> ThreadOwn /\ thread \in [Threads -> ThreadRecord(Len(infos))]
    BY Known
  <1> DEFINE Tells(t) == /\ thread[t].pc \in {"enter", "clear_leave", "meet"}
                         /\ thread[t].uid = u /\ thread[t].session = s /\ thread[t].opp = v
  <1>1. partner[u][s] = v \/ \E t \in Workers : Tells(t)
    BY DEF Pals, BeingTold
  <1>2. SUFFICES partner'[u][s] = v \/ \E t \in Workers : Tells(t)'
    BY DEF Pals, BeingTold
  <1>3. partner[u][s] = v => PairIs(s, u, v)
    BY SessionAssumption DEF PartnerRight, SessionAssumption
  <1>4. ASSUME NEW t \in Workers, Tells(t) PROVE PairIs(s, u, v)
    BY <1>4 DEF AskRight
  <1>5. PairIs(s, u, v)
    BY <1>1, <1>3, <1>4
  <1>6. CASE partner' = partner /\ thread' = thread
    BY <1>1, <1>6
  <1>7. ASSUME NEW x \in Sockets, Close(x), UNCHANGED followVars
        PROVE  partner' = partner /\ \A t \in Workers : thread'[t] = thread[t]
    BY <1>7, SessionAssumption DEF Close, Threads, SessionAssumption, followVars
  <1>8. ASSUME NEW t \in Workers, BeginSession(t)
        PROVE  /\ partner' = partner
               /\ \A x \in Workers : Tells(x) => thread'[x] = thread[x]
    <2>1. partner' = partner /\ thread[t] = Idle
          /\ \A x \in Workers : x # t => thread'[x] = thread[x]
      BY <1>8, BeginFollow DEF Away, Threads
    <2> QED
      BY <2>1 DEF Idle
  <1>9. ASSUME NEW t \in Threads, ContinueSession(t), Enter(t) \/ Meet(t)
        PROVE  partner'[u][s] = v \/ \E x \in Workers : Tells(x)'
    <2>1. t \in Workers /\ Told(t)
      BY <1>9, AnswerFollow
    <2>2. thread[t].pc \in {"enter", "meet"} /\ thread' = [thread EXCEPT ![t] = Idle]
      BY <1>9 DEF Enter, Meet, Done
    <2>3. CASE u = thread[t].uid /\ s = thread[t].session
      <3>1. partner'[u][s] = thread[t].opp
        BY <2>1, <2>3 DEF Told
      <3>2. PairIs(s, u, thread[t].opp)
        BY <2>1, <2>2, <2>3 DEF AskRight
      <3> QED
        BY <1>5, <3>1, <3>2 DEF PairIs
    <2>4. CASE ~(u = thread[t].uid /\ s = thread[t].session)
      <3>1. partner'[u][s] = partner[u][s]
        BY <2>1, <2>4 DEF Told
      <3>2. \A x \in Workers : Tells(x) => thread'[x] = thread[x]
        BY <2>2, <2>4 DEF Threads
      <3> QED
        BY <1>1, <3>1, <3>2
    <2> QED
      BY <2>3, <2>4
  <1>10. ASSUME NEW t \in Threads, ContinueSession(t), ~Enter(t), ~Meet(t)
         PROVE  partner'[u][s] = v \/ \E x \in Workers : Tells(x)'
    <2>1. partner' = partner
      BY <1>10, OtherFollow DEF followVars
    <2>2. \A x \in Threads : x # t => thread'[x] = thread[x]
      BY <1>10 DEF ContinueSession, Continue, LoginUser, LoginSocket, AskFirst, Invite,
         AskSecond, Join, ClearLeave, EnterGroup, QuitSocket, ClearMeeting, ClearUser, EraseUser,
         AberrantSocket, Goto, Done
    <2>3. thread[t].pc \in {"enter", "clear_leave", "meet"} => ClearLeave(t)
      BY <1>10 DEF ContinueSession, Continue, LoginUser, LoginSocket, AskFirst, Invite,
         AskSecond, Join, EnterGroup, QuitSocket, ClearMeeting, ClearUser, EraseUser, AberrantSocket
    <2>4. ASSUME t \in Workers, Tells(t) PROVE Tells(t)'
      BY <2>3, <2>4 DEF ClearLeave, Goto, ThreadRecord
    <2>5. \A x \in Workers : Tells(x) => Tells(x)'
      BY <2>2, <2>4 DEF Threads
    <2> QED
      BY <1>1, <2>1, <2>5
  <1>11. ASSUME \A x \in Workers : Tells(x) => thread'[x] = thread[x], partner' = partner
         PROVE  partner'[u][s] = v \/ \E x \in Workers : Tells(x)'
    BY <1>1, <1>11
  <1>12. ASSUME NEW a \in Users, NEW x \in Sockets, Connect(a, x), UNCHANGED followVars
         PROVE  partner' = partner /\ thread' = thread
    BY <1>12 DEF Connect, followVars
  <1>13. ASSUME NEW t \in Workers, BeginMail(t) \/ ContinueMail(t)
         PROVE  partner' = partner /\ thread' = thread
    BY <1>13, MailSteps DEF TakesMail, vars, followVars
  <1> QED
    BY <1>6, <1>7, <1>8, <1>9, <1>10, <1>11, <1>12, <1>13 DEF MessageNext

\* The UserInfos there are keep their user and socket.
LEMMA InfosKept ==
    ASSUME IInv, MessageNext
    PROVE  /\ Len(infos) \in Nat /\ Len(infos') \in Nat /\ Len(infos) <= Len(infos')
           /\ \A i \in 1 .. Len(infos) :
                infos'[i].user = infos[i].user /\ infos'[i].socket = infos[i].socket
  <1> CacheType /\ ThreadOwn /\ thread \in [Threads -> ThreadRecord(Len(infos))]
    BY Known
  <1>1. Len(infos) \in Nat /\ DOMAIN infos = 1 .. Len(infos)
    BY DEF CacheType
  <1>2. CASE UNCHANGED infos
    BY <1>1, <1>2
  <1>3. ASSUME NEW u \in Users, NEW s \in Sockets, NewInfo(u, s)
        PROVE  Len(infos') = Len(infos) + 1
    BY <1>3, AddInfo DEF CacheType
  <1>4. ASSUME NEW t \in Threads, Enter(t) \/ Join(t)
        PROVE  Len(infos') = Len(infos)
    <2>1. thread[t].info \in 1 .. Len(infos) /\ thread[t].session \in AnySession
      BY <1>4 DEF Enter, Join, ThreadOwn, Owns, ThreadRecord
    <2>2. set_session(thread[t].info, thread[t].session)
      BY <1>4 DEF Enter, Join
    <2> QED
      BY <2>1, <2>2, SetSession DEF CacheType
  <1>5. \/ UNCHANGED infos
        \/ \E u \in Users, s \in Sockets : NewInfo(u, s)
        \/ \E t \in Threads : Enter(t) \/ Join(t)
    <2>1. CASE TakesMail \/ UNCHANGED vars
      BY <2>1 DEF TakesMail, vars, cacheVars
    <2>2. CASE Next
      BY <2>2, Writers
    <2> QED
      BY <2>1, <2>2, SessionSteps
  <1>6. Len(infos') \in Nat /\ Len(infos) <= Len(infos')
    BY <1>1, <1>2, <1>3, <1>4, <1>5
  <1>7. CASE Next
    BY <1>1, <1>6, <1>7, InfoKept
  <1>8. CASE TakesMail \/ UNCHANGED vars
    BY <1>1, <1>8 DEF TakesMail, vars, cacheVars
  <1> QED
    BY <1>6, <1>7, <1>8, SessionSteps

\* A private session is set by Enter, which tells the client, and by Join, whose
\* thread is about to.
LEMMA SessionKnownStep ==
    ASSUME FInv, MessageNext
    PROVE  SessionKnown'
  <1> IInv /\ FollowType /\ SessionKnown /\ AskRight
    BY DEF FInv, TInv
  <1> CacheType /\ ThreadOwn /\ ThreadSession /\ thread \in [Threads -> ThreadRecord(Len(infos))]
    BY Known DEF IInv
  <1>1. SUFFICES ASSUME NEW i \in DOMAIN infos', infos'[i].session \in Sessions
                 PROVE  \E v \in Users :
                            \/ v = partner'[infos'[i].user][infos'[i].session]
                            \/ \E t \in Workers :
                                 /\ thread'[t].pc \in {"enter", "clear_leave", "meet"}
                                 /\ thread'[t].uid = infos'[i].user /\ thread'[t].opp = v
                                 /\ thread'[t].session = infos'[i].session
    BY DEF SessionKnown, Pals, BeingTold
  <1> DEFINE u == infos'[i].user
             s == infos'[i].session
             IsTold(v) == \/ v = partner'[u][s]
                          \/ \E t \in Workers :
                               /\ thread'[t].pc \in {"enter", "clear_leave", "meet"}
                               /\ thread'[t].uid = u /\ thread'[t].opp = v
                               /\ thread'[t].session = s
  <1>2. CASE i \in 1 .. Len(infos) /\ infos'[i].session = infos[i].session
    <2>1. infos[i] \in Info /\ i \in DOMAIN infos
      BY <1>2 DEF CacheType
    <2>2. infos'[i].user = infos[i].user /\ infos[i].user \in Users
      BY <1>2, <2>1, InfosKept DEF Info
    <2>3. PICK v \in Users : v \in Pals(infos[i].user, infos[i].session)
      BY <1>1, <1>2, <2>1 DEF SessionKnown
    <2>4. PICK a \in Users, b \in Sessions : a = infos[i].user /\ b = infos[i].session
      BY <1>1, <1>2, <2>2
    <2>5. v \in Pals(a, b)'
      BY <2>3, <2>4, PalsStay
    <2> QED
      BY <1>2, <2>2, <2>4, <2>5 DEF Pals, BeingTold
  <1>3. ASSUME NEW t \in Threads, Enter(t) \/ Join(t), ContinueSession(t),
               ~(i \in 1 .. Len(infos) /\ infos'[i].session = infos[i].session)
        PROVE  \E v \in Users : IsTold(v)
    <2> DEFINE x == thread[t]
    <2>1. x.info \in 1 .. Len(infos) /\ x.session \in AnySession /\ x.uid \in Users
          /\ infos[x.info].user = x.uid /\ t \in Workers
      BY <1>3 DEF Enter, Join, ThreadOwn, Owns, ThreadRecord, Threads
    <2>2. set_session(x.info, x.session)
      BY <1>3 DEF Enter, Join
    <2>3. /\ infos' \in Seq(Info) /\ Len(infos') = Len(infos)
          /\ \A j \in 1 .. Len(infos) :
               /\ infos'[j].user = infos[j].user /\ infos'[j].socket = infos[j].socket
               /\ infos'[j].session = IF j = x.info THEN x.session ELSE infos[j].session
      BY <2>1, <2>2, SetSession DEF CacheType
    <2>4. i \in 1 .. Len(infos)
      BY <2>3
    <2>5. i = x.info /\ u = x.uid /\ s = x.session /\ s \in Sessions
      BY <1>1, <1>3, <2>1, <2>3, <2>4
    <2>6. CASE Enter(t)
      <3>1. Told(t) /\ x.pc = "enter"
        BY <1>3, <2>6, AnswerFollow DEF Enter
      <3>2. x.opp \in Users
        BY <2>1, <2>5, <3>1 DEF AskRight
      <3>3. partner'[x.uid][x.session] = x.opp
        BY <2>1, <2>5, <3>1 DEF Told
      <3> QED
        BY <2>5, <3>2, <3>3
    <2>7. CASE Join(t)
      <3>1. x.pc = "join" /\ x.opp \in Users
        BY <2>7 DEF Join, ThreadOwn, Owns
      <3>2. /\ thread'[t].pc = "clear_leave" /\ thread'[t].uid = x.uid
            /\ thread'[t].opp = x.opp /\ thread'[t].session = x.session
        BY <2>7 DEF Join, Goto, ThreadRecord
      <3> QED
        BY <2>1, <2>5, <3>1, <3>2
    <2> QED
      BY <1>3, <2>6, <2>7
  <1>4. CASE UNCHANGED infos
    BY <1>2, <1>4 DEF CacheType
  <1>5. ASSUME NEW uid \in Users, NEW x \in Sockets, NewInfo(uid, x)
        PROVE  i \in 1 .. Len(infos) /\ infos'[i].session = infos[i].session
    <2>1. /\ infos' \in Seq(Info) /\ Len(infos') = Len(infos) + 1
          /\ \A j \in 1 .. Len(infos) : infos'[j] = infos[j]
          /\ infos'[Len(infos) + 1] = [user |-> uid, socket |-> x, session |-> NoSession]
      BY <1>5, AddInfo DEF CacheType
    <2>2. i \in 1 .. Len(infos) + 1 /\ Len(infos) \in Nat
      BY <2>1 DEF CacheType
    <2>3. i # Len(infos) + 1
      BY <1>1, <2>1, CacheAssumption DEF CacheAssumption
    <2> QED
      BY <2>1, <2>2, <2>3
  <1>6. \/ UNCHANGED infos
        \/ \E uid \in Users, x \in Sockets : NewInfo(uid, x)
        \/ \E t \in Threads : (Enter(t) \/ Join(t)) /\ ContinueSession(t)
    <2>1. ASSUME NEW t \in Workers, BeginMail(t) \/ ContinueMail(t) PROVE UNCHANGED infos
      BY <2>1, MailSteps DEF TakesMail, vars, cacheVars
    <2>2. ASSUME NEW uid \in Users, NEW x \in Sockets, Connect(uid, x) \/ Close(x)
          PROVE  UNCHANGED infos
      BY <2>2 DEF Connect, Close, cacheVars
    <2>3. ASSUME NEW t \in Workers, BeginSession(t)
          PROVE  UNCHANGED infos \/ \E uid \in Users, x \in Sockets : NewInfo(uid, x)
      BY <2>3 DEF BeginSession, Begin, Login, Ask, AskGroup, Quit, cacheVars
    <2>4. ASSUME NEW t \in Threads, ContinueSession(t), ~Enter(t), ~Join(t)
          PROVE  UNCHANGED infos
      BY <2>4
      DEF ContinueSession, Continue, LoginUser, LoginSocket, AskFirst, Invite, AskSecond,
          ClearLeave, Meet, EnterGroup, QuitSocket, ClearMeeting, ClearUser, EraseUser, AberrantSocket,
          cacheVars
    <2>5. ASSUME NEW x \in Sockets, Close(x) PROVE UNCHANGED infos
      BY <2>5 DEF Close, cacheVars
    <2> QED
      BY <2>1, <2>2, <2>3, <2>4, <2>5 DEF MessageNext
  <1> QED
    BY <1>2, <1>3, <1>4, <1>5, <1>6

\* Connect notes the pair of user and descriptor, and only a packet of a noted
\* pair is a sign-in.
LEMMA OnPacketsStep ==
    ASSUME FInv, MessageNext
    PROVE  OnPackets'
  <1> IInv /\ OnPackets
    BY DEF FInv, TInv
  <1> CacheType /\ ThreadOwn /\ thread \in [Threads -> ThreadRecord(Len(infos))]
    BY Known
  <1>1. packets \subseteq packets' /\ \A s \in Sockets :
            conn'[s] # Nobody => conn'[s] = conn[s] \/ <<conn'[s], s>> \in packets'
    <2>1. ASSUME NEW u \in Users, NEW x \in Sockets, Connect(u, x)
          PROVE  packets \subseteq packets' /\ \A s \in Sockets :
                    conn'[s] = conn[s] \/ <<conn'[s], s>> \in packets'
      BY <2>1 DEF Connect, CacheType
    <2>2. ASSUME NEW x \in Sockets, Close(x)
          PROVE  packets = packets' /\ \A s \in Sockets :
                    conn'[s] # Nobody => conn'[s] = conn[s]
      BY <2>2 DEF Close, CacheType
    <2>3. ASSUME NEW t \in Threads, EraseUser(t)
          PROVE  packets = packets' /\ \A s \in Sockets :
                    conn'[s] # Nobody => conn'[s] = conn[s]
      BY <2>3 DEF EraseUser, CacheType
    <2>4. ASSUME NEW t \in Threads, Continue(t), ~EraseUser(t)
          PROVE  UNCHANGED <<packets, conn>>
      BY <2>4
      DEF Continue, LoginUser, LoginSocket, AskFirst, Invite, Enter, AskSecond, Join,
          ClearLeave, Meet, EnterGroup, QuitSocket, ClearMeeting, ClearUser, AberrantSocket,
          clientVars
    <2>5. ASSUME NEW t \in Workers, Begin(t)
          PROVE  UNCHANGED <<packets, conn>>
      BY <2>5 DEF Begin, Login, Ask, AskGroup, Quit, Take
    <2>6. ASSUME TakesMail \/ UNCHANGED vars
          PROVE  UNCHANGED <<packets, conn>>
      BY <2>6 DEF TakesMail, vars, clientVars
    <2>7. CASE Next
      BY <2>1, <2>2, <2>3, <2>4, <2>5, <2>7 DEF Next
    <2> QED
      BY <2>6, <2>7, SessionSteps
  <1>2. \A s \in Sockets : conn'[s] # Nobody => <<conn'[s], s>> \in packets'
    BY <1>1 DEF OnPackets
  <1>3. ASSUME NEW i \in DOMAIN infos' PROVE <<infos'[i].user, infos'[i].socket>> \in packets'
    <2>1. CASE i \in 1 .. Len(infos)
      <3>1. i \in DOMAIN infos
        BY <2>1 DEF CacheType
      <3>2. <<infos[i].user, infos[i].socket>> \in packets
        BY <3>1 DEF OnPackets
      <3>3. infos'[i].user = infos[i].user /\ infos'[i].socket = infos[i].socket
        BY <2>1, InfosKept
      <3> QED
        BY <1>1, <3>2, <3>3
    <2>2. ASSUME NEW t \in Workers, NEW u \in Users, NEW x \in Sockets, Login(t, u, x)
          PROVE  i \in 1 .. Len(infos) \/ <<infos'[i].user, infos'[i].socket>> \in packets'
      <3>1. NewInfo(u, x) /\ <<u, x>> \in packets
        BY <2>2 DEF Login, Take
      <3>2. /\ infos' \in Seq(Info) /\ Len(infos') = Len(infos) + 1
            /\ infos'[Len(infos) + 1] = [user |-> u, socket |-> x, session |-> NoSession]
        BY <3>1, AddInfo DEF CacheType
      <3>3. i \in 1 .. Len(infos) + 1 /\ Len(infos) \in Nat
        BY <3>2 DEF CacheType
      <3> QED
        BY <1>1, <3>1, <3>2, <3>3
    <2>3. ASSUME NEW t \in Threads, Enter(t) \/ Join(t) PROVE i \in 1 .. Len(infos)
      <3>1. thread[t].info \in 1 .. Len(infos) /\ thread[t].session \in AnySession
        BY <2>3 DEF Enter, Join, ThreadOwn, Owns, ThreadRecord
      <3>2. set_session(thread[t].info, thread[t].session)
        BY <2>3 DEF Enter, Join
      <3>3. infos' \in Seq(Info) /\ Len(infos') = Len(infos)
        BY <3>1, <3>2, SetSession DEF CacheType
      <3> QED
        BY <3>3
    <2>4. CASE UNCHANGED infos
      BY <2>1, <2>4 DEF CacheType
    <2>5. \/ UNCHANGED infos
          \/ \E t \in Workers, u \in Users, x \in Sockets : Login(t, u, x)
          \/ \E t \in Threads : Enter(t) \/ Join(t)
      <3>1. CASE TakesMail \/ UNCHANGED vars
        BY <3>1 DEF TakesMail, vars, cacheVars
      <3>2. CASE Next
        <4>1. CASE \E u \in Users, x \in Sockets : Connect(u, x)
          BY <4>1 DEF Connect, cacheVars
        <4>2. CASE \E x \in Sockets : Close(x)
          BY <4>2 DEF Close, cacheVars
        <4>3. ASSUME NEW t \in Workers, Begin(t)
              PROVE  \/ UNCHANGED infos
                     \/ \E u \in Users, x \in Sockets : Login(t, u, x)
          BY <4>3 DEF Begin, Ask, AskGroup, Quit, cacheVars
        <4>4. ASSUME NEW t \in Threads, Continue(t)
              PROVE  UNCHANGED infos \/ Enter(t) \/ Join(t)
          BY <4>4, ContinueWrites
        <4> QED
          BY <3>2, <4>1, <4>2, <4>3, <4>4 DEF Next
      <3> QED
        BY <3>1, <3>2, SessionSteps
    <2> QED
      BY <2>1, <2>2, <2>3, <2>4, <2>5
  <1> QED
    BY <1>2, <1>3 DEF OnPackets

\* The types of what the clients were told.
LEMMA FollowTypeStep ==
    ASSUME IInv, FollowType, MessageNext
    PROVE  FollowType'
  <1> CacheType /\ ThreadOwn /\ thread \in [Threads -> ThreadRecord(Len(infos))]
    BY Known
  <1>1. CASE UNCHANGED followVars
    BY <1>1 DEF followVars, FollowType
  <1>2. ASSUME NEW t \in Threads, ContinueSession(t), Enter(t) \/ Meet(t)
        PROVE  FollowType'
    <2>1. Told(t)
      BY <1>2, AnswerFollow
    <2>2. thread[t].opp \in Users \cup {Nobody} /\ thread[t].session \in AnySession
      BY DEF ThreadRecord
    <2>3. partner' \in [Users -> [Sessions -> Users \cup {Nobody}]]
      BY <2>1, <2>2 DEF Told, FollowType
    <2>4. current' \in [Users -> AnySession] /\ overlapped' \subseteq Users
      BY <2>1, <2>2 DEF Told, FollowType
    <2> QED
      BY <2>3, <2>4 DEF FollowType
  <1>3. ASSUME NEW t \in Threads, ContinueSession(t), ~Enter(t), ~Meet(t)
        PROVE  FollowType'
    BY <1>1, <1>3, OtherFollow
  <1>4. ASSUME NEW t \in Workers, BeginSession(t)
        PROVE  FollowType'
    BY <1>4, BeginFollow DEF Away, FollowType, AnySession
  <1> QED
    BY <1>1, <1>2, <1>3, <1>4, MailSteps DEF MessageNext

\* Every step preserves what is known of the clients.
LEMMA NextFInv == FInv /\ [MessageNext]_messageVars => FInv'
  <1> SUFFICES ASSUME FInv, [MessageNext]_messageVars PROVE FInv'
    OBVIOUS
  <1>1. TInv'
    BY MessageTInv DEF FInv
  <1>2. CASE UNCHANGED messageVars
    <2>1. UNCHANGED <<infos, thread, pair, conn, packets, partner, current, overlapped>>
      BY <1>2 DEF messageVars, vars, cacheVars, clientVars, historyVars, followVars
    <2>2. FollowType' /\ PartnerRight' /\ AskRight'
      BY <2>1 DEF FInv, FollowType, PartnerRight, AskRight, PairIs
    <2>3. SessionKnown' /\ OnPackets'
      BY <2>1 DEF FInv, SessionKnown, Pals, BeingTold, OnPackets
    <2> QED
      BY <1>1, <2>2, <2>3 DEF FInv
  <1>3. CASE MessageNext
    BY <1>1, <1>3, FollowTypeStep, PartnerRightStep, AskRightStep, SessionKnownStep,
       OnPacketsStep DEF FInv, TInv
  <1> QED
    BY <1>2, <1>3

-----------------------------------------------------------------------------
(* Messages *)

\* Whom a client is told a private session for is the other of its pair.
LEMMA PalsPair ==
    ASSUME FInv, NEW u \in Users, NEW s \in Sessions, NEW v \in Users, v \in Pals(u, s)
    PROVE  PairIs(s, u, v)
  <1>1. v = partner[u][s] => PairIs(s, u, v)
    BY SessionAssumption DEF FInv, PartnerRight, SessionAssumption
  <1>2. v \in BeingTold(u, s) => PairIs(s, u, v)
    BY DEF BeingTold, FInv, AskRight
  <1> QED
    BY <1>1, <1>2 DEF Pals

\* An answer names the same user again.
LEMMA PartnerStays ==
    ASSUME FInv, MessageNext, NEW u \in Users, NEW s \in Sessions, partner[u][s] \in Users
    PROVE  partner'[u][s] = partner[u][s]
  <1> DEFINE v == partner[u][s]
  <1>1. PairIs(s, u, v)
    BY PalsPair DEF Pals
  <1>2. ASSUME NEW t \in Threads, ContinueSession(t), Enter(t) \/ Meet(t)
        PROVE  partner'[u][s] = v
    <2>1. t \in Workers /\ Told(t) /\ thread[t].pc \in {"enter", "meet"}
      BY <1>2, AnswerFollow DEF FInv, TInv, Enter, Meet
    <2>2. CASE u = thread[t].uid /\ s = thread[t].session
      <3>1. partner'[u][s] = thread[t].opp
        BY <2>1, <2>2 DEF Told
      <3>2. PairIs(s, u, thread[t].opp)
        BY <2>1, <2>2 DEF FInv, AskRight
      <3> QED
        BY <1>1, <3>1, <3>2 DEF PairIs
    <2>3. CASE ~(u = thread[t].uid /\ s = thread[t].session)
      BY <2>1, <2>3 DEF Told
    <2> QED
      BY <2>2, <2>3
  <1>3. ASSUME NEW t \in Threads, ContinueSession(t), ~Enter(t), ~Meet(t)
        PROVE  partner'[u][s] = v
    BY <1>3, OtherFollow DEF followVars, FInv, TInv
  <1>4. ASSUME NEW t \in Workers, BeginSession(t)
        PROVE  partner'[u][s] = v
    BY <1>4, BeginFollow DEF Away, FInv, TInv
  <1> QED
    BY <1>2, <1>3, <1>4, MailSteps DEF MessageNext, followVars

\* A session told is told for good, one being told is told next.
LEMMA ToldStays ==
    ASSUME FInv, MessageNext, NEW u \in Users, NEW s,
           s \in told[u] \/ BeingTold(u, s) # {}
    PROVE  (s \in told[u] \/ BeingTold(u, s) # {})'
  <1> IInv
    BY DEF FInv, TInv
  <1> CacheType /\ ThreadOwn /\ thread \in [Threads -> ThreadRecord(Len(infos))]
    BY Known
  <1> DEFINE Tells(t) == /\ thread[t].pc \in {"enter", "clear_leave", "meet"}
                         /\ thread[t].uid = u /\ thread[t].session = s
  <1>1. s \in told[u] \/ \E t \in Workers : Tells(t)
    BY DEF BeingTold
  <1>2. SUFFICES s \in told'[u] \/ \E t \in Workers : Tells(t)'
    <2>1. ASSUME NEW t \in Workers, Tells(t)'
          PROVE  thread'[t].opp \in BeingTold(u, s)'
      BY <2>1 DEF BeingTold
    <2> QED
      BY <2>1
  <1>3. CASE told' = told /\ thread' = thread
    BY <1>1, <1>3
  <1>4. ASSUME NEW x \in Sockets, Close(x)
        PROVE  told' = told /\ \A t \in Workers : thread'[t] = thread[t]
    BY <1>4, SessionAssumption DEF Close, Threads, SessionAssumption
  <1>5. ASSUME NEW t \in Workers, BeginSession(t)
        PROVE  told' = told /\ \A x \in Workers : Tells(x) => Tells(x)'
    <2>1. thread[t] = Idle /\ \A x \in Workers : x # t => thread'[x] = thread[x]
      BY <1>5, BeginFollow DEF FInv, Threads
    <2>2. told' = told
      BY <1>5 DEF BeginSession, Begin, Login, Ask, AskGroup, Quit, Take
    <2> QED
      BY <2>1, <2>2 DEF Idle
  <1>6. ASSUME NEW t \in Threads, Enter(t) \/ Meet(t)
        PROVE  s \in told'[u] \/ \E x \in Workers : Tells(x)'
    <2>1. /\ thread[t].uid \in Users /\ thread' = [thread EXCEPT ![t] = Idle]
          /\ told' = [told EXCEPT ![thread[t].uid] = @ \cup {thread[t].session}]
      BY <1>6 DEF Enter, Meet, Done, ThreadOwn, Owns
    <2>2. CASE thread[t].uid = u /\ thread[t].session = s
      BY <2>1, <2>2 DEF CacheType
    <2>3. CASE ~(thread[t].uid = u /\ thread[t].session = s)
      <3>1. \A x \in Workers : Tells(x) => thread'[x] = thread[x]
        BY <2>1, <2>3 DEF Threads
      <3>2. told[u] \subseteq told'[u]
        BY <2>1 DEF CacheType
      <3> QED
        BY <1>1, <3>1, <3>2
    <2> QED
      BY <2>2, <2>3
  <1>7. ASSUME NEW t \in Threads, ContinueSession(t), ~Enter(t), ~Meet(t)
        PROVE  told' = told /\ \A x \in Workers : Tells(x) => Tells(x)'
    <2>1. told' = told /\ \A x \in Threads : x # t => thread'[x] = thread[x]
      BY <1>7 DEF ContinueSession, Continue, LoginUser, LoginSocket, AskFirst, Invite,
         AskSecond, Join, ClearLeave, EnterGroup, QuitSocket, ClearMeeting, ClearUser, EraseUser,
         AberrantSocket, Goto, Done, clientVars
    <2>2. thread[t].pc \in {"enter", "clear_leave", "meet"} => ClearLeave(t)
      BY <1>7 DEF ContinueSession, Continue, LoginUser, LoginSocket, AskFirst, Invite,
         AskSecond, Join, EnterGroup, QuitSocket, ClearMeeting, ClearUser, EraseUser, AberrantSocket
    <2>3. Tells(t) => Tells(t)'
      BY <2>2 DEF ClearLeave, Goto, ThreadRecord
    <2> QED
      BY <2>1, <2>3 DEF Threads
  <1>8. ASSUME NEW a \in Users, NEW x \in Sockets, Connect(a, x)
        PROVE  told' = told /\ thread' = thread
    BY <1>8 DEF Connect
  <1>9. ASSUME NEW t \in Workers, BeginMail(t) \/ ContinueMail(t)
        PROVE  told' = told /\ thread' = thread
    BY <1>9, MailSteps DEF TakesMail, vars, clientVars
  <1>10. CASE told' = told /\ \A x \in Workers : Tells(x) => Tells(x)'
    BY <1>1, <1>10
  <1> QED
    BY <1>3, <1>4, <1>5, <1>6, <1>7, <1>8, <1>9, <1>10 DEF MessageNext

\* Connections noted stay noted.
LEMMA ReusedStays ==
    ASSUME IInv, MessageNext, NEW x, Reused(x)
    PROVE  Reused(x)'
  <1>1. packets \subseteq packets'
    <2>1. CASE TakesMail \/ UNCHANGED vars
      BY <2>1 DEF TakesMail, vars, clientVars
    <2>2. ASSUME NEW u \in Users, NEW s \in Sockets, Connect(u, s) \/ Close(s)
          PROVE  packets \subseteq packets'
      BY <2>2 DEF Connect, Close
    <2>3. ASSUME NEW t \in Threads, Continue(t)
          PROVE  packets' = packets
      BY <2>3
      DEF Continue, LoginUser, LoginSocket, AskFirst, Invite, Enter, AskSecond, Join,
          ClearLeave, Meet, EnterGroup, QuitSocket, ClearMeeting, ClearUser, EraseUser, AberrantSocket,
          clientVars
    <2>4. ASSUME NEW t \in Workers, Begin(t)
          PROVE  packets' = packets
      BY <2>4 DEF Begin, Login, Ask, AskGroup, Quit, Take
    <2>5. ASSUME NEW s \in Sockets, Close(s)
          PROVE  packets' = packets
      BY <2>5 DEF Close
    <2> QED
      BY <2>1, <2>2, <2>3, <2>4, <2>5, SessionSteps DEF Next
  <1> QED
    BY <1>1 DEF Reused

\* What is sent on a descriptor reaches its user, unless the descriptor is that
\* of another user by now.
LEMMA Arrivals ==
    ASSUME FInv, MailType, NEW t \in Workers, NEW T \in SUBSET (1 .. Len(infos)),
           Arrive(t, T), sending[t].from \in Users,
           sending[t].session \in Sessions \cup Groups, NEW m \in received'
    PROVE  \/ m \in received
           \/ /\ m \in Received(handled)
              /\ m.id = sending[t].id /\ m.from = sending[t].from
              /\ m.session = sending[t].session
              /\ \E i \in T : m.client = infos[i].user \/ Reused(m.socket)
  <1> CacheType /\ OnPackets
    BY Known DEF FInv, TInv
  <1>1. SUFFICES ASSUME m \notin received
                 PROVE  /\ m \in Received(handled)
                        /\ m.id = sending[t].id /\ m.from = sending[t].from
                        /\ m.session = sending[t].session
                        /\ \E i \in T : m.client = infos[i].user \/ Reused(m.socket)
    OBVIOUS
  <1>2. PICK i \in T : /\ conn[infos[i].socket] # Nobody
                       /\ m = [id |-> sending[t].id, from |-> sending[t].from,
                               session |-> sending[t].session, socket |-> infos[i].socket,
                               client |-> conn[infos[i].socket]]
    BY <1>1 DEF Arrive
  <1>3. i \in DOMAIN infos /\ infos[i] \in Info
    BY DEF CacheType
  <1>4. infos[i].socket \in Sockets /\ infos[i].user \in Users
    BY <1>3 DEF Info
  <1>5. conn[infos[i].socket] \in Users
    BY <1>2, <1>4 DEF CacheType
  <1>6. sending[t].id \in 0 .. handled
    BY DEF MailType, Mail
  <1>7. m \in Received(handled)
    BY <1>2, <1>4, <1>5, <1>6 DEF Received
  <1>8. {<<conn[infos[i].socket], infos[i].socket>>, <<infos[i].user, infos[i].socket>>}
            \subseteq packets
    BY <1>2, <1>3, <1>4 DEF OnPackets
  <1>9. m.client = infos[i].user \/ Reused(m.socket)
    BY <1>2, <1>4, <1>5, <1>8 DEF Reused
  <1> QED
    BY <1>2, <1>7, <1>9

\* The steps that send are given UserInfos there are, in a session of their kind.
LEMMA Targets ==
    ASSUME FInv, MailType, MailRight, NEW t \in Workers
    PROVE  /\ SendPrivate(t) =>
                /\ {sending[t].info} \in SUBSET (1 .. Len(infos))
                /\ sending[t].from \in Users /\ sending[t].session \in Sessions
           /\ SendMeetingNotSelf(t) \/ SendMeetingMessage(t) =>
                /\ sending[t].from \in Users /\ sending[t].session \in Groups
                /\ \A S \in SUBSET Members(sending[t].session) :
                     /\ Online(S) \in SUBSET (1 .. Len(infos))
                     /\ \A i \in Online(S) : infos[i].user \in S
  <1> CacheType /\ OwnEntry /\ sending[t] \in Mail(handled, Len(infos))
    BY Known DEF FInv, TInv, IInv, MailType
  <1> Len(infos) \in Nat
    BY DEF CacheType
  <1>1. ASSUME SendPrivate(t)
        PROVE  /\ {sending[t].info} \in SUBSET (1 .. Len(infos))
               /\ sending[t].from \in Users /\ sending[t].session \in Sessions
    <2>1. sending[t].pc = "send"
      BY <1>1 DEF SendPrivate
    <2>2. sending[t].info \in 0 .. Len(infos) /\ sending[t].info # 0
      BY <2>1 DEF MailRight, RightMail, Mail
    <2> QED
      BY <2>1, <2>2 DEF MailRight, RightMail
  <1>2. ASSUME SendMeetingNotSelf(t) \/ SendMeetingMessage(t)
        PROVE  /\ sending[t].from \in Users /\ sending[t].session \in Groups
               /\ \A S \in SUBSET Members(sending[t].session) :
                    /\ Online(S) \in SUBSET (1 .. Len(infos))
                    /\ \A i \in Online(S) : infos[i].user \in S
    <2>1. sending[t].pc \in {"not_self", "sound"}
      BY <1>2 DEF SendMeetingNotSelf, SendMeetingMessage
    <2>2. sending[t].from \in Users /\ sending[t].session \in Groups
      BY <2>1 DEF MailRight, RightMail
    <2>3. Members(sending[t].session) \subseteq Users
      BY <2>2, CacheAssumption DEF Members, CacheType, CacheAssumption
    <2>4. ASSUME NEW S \in SUBSET Members(sending[t].session)
          PROVE  /\ Online(S) \in SUBSET (1 .. Len(infos))
                 /\ \A i \in Online(S) : infos[i].user \in S
      <3>1. SUFFICES ASSUME NEW i \in Online(S)
                     PROVE  i \in 1 .. Len(infos) /\ infos[i].user \in S
        OBVIOUS
      <3>2. PICK u \in S : i = user_infos_map[u] /\ i # 0
        BY <3>1 DEF Online
      <3>3. u \in Users /\ user_infos_map[u] \in 0 .. Len(infos)
        BY <2>3, <3>2 DEF CacheType
      <3>4. infos[i].user = u
        BY <3>2, <3>3 DEF OwnEntry
      <3> QED
        BY <3>2, <3>3, <3>4
    <2> QED
      BY <2>2, <2>4
  <1> QED
    BY <1>1, <1>2

\* A message that arrives is one just sent: to the receiver looked up, or to a
\* member of the group, unless the descriptor is that of another user by now.
LEMMA NewMail ==
    ASSUME FInv, MailType, MailRight, MessageNext, NEW m \in received', m \notin received
    PROVE  \E t \in Workers :
             /\ m \in Received(handled)
             /\ m.id = sending[t].id /\ m.from = sending[t].from
             /\ m.session = sending[t].session
             /\ \/ /\ SendPrivate(t) /\ m.session \in Sessions
                   /\ m.client = infos[sending[t].info].user \/ Reused(m.socket)
                \/ /\ SendMeetingNotSelf(t) \/ SendMeetingMessage(t)
                   /\ m.session \in Groups
                   /\ m.client \in Members(m.session) \/ Reused(m.socket)
  <1>1. PICK t \in Workers : SendPrivate(t) \/ SendMeetingNotSelf(t) \/ SendMeetingMessage(t)
    BY MailWriters
  <1>2. CASE SendPrivate(t)
    <2>1. Arrive(t, {sending[t].info})
      BY <1>2 DEF SendPrivate
    <2> QED
      BY <1>2, <2>1, Targets, Arrivals
  <1>3. ASSUME NEW S \in SUBSET Members(sending[t].session),
               NEW found \in SUBSET Online(S), Arrive(t, found),
               SendMeetingNotSelf(t) \/ SendMeetingMessage(t)
        PROVE  /\ m \in Received(handled)
               /\ m.id = sending[t].id /\ m.from = sending[t].from
               /\ m.session = sending[t].session /\ m.session \in Groups
               /\ m.client \in Members(m.session) \/ Reused(m.socket)
    <2>1. /\ sending[t].from \in Users /\ sending[t].session \in Groups
          /\ Online(S) \in SUBSET (1 .. Len(infos))
          /\ \A i \in Online(S) : infos[i].user \in S
      BY <1>3, Targets
    <2>2. /\ m \in Received(handled)
          /\ m.id = sending[t].id /\ m.from = sending[t].from
          /\ m.session = sending[t].session
          /\ \E i \in found : m.client = infos[i].user \/ Reused(m.socket)
      BY <1>3, <2>1, Arrivals
    <2> QED
      BY <2>1, <2>2
  <1>4. CASE SendMeetingNotSelf(t)
    <2>1. PICK found \in SUBSET Online(Members(sending[t].session) \ {sending[t].from}) :
            Arrive(t, found)
      BY <1>4 DEF SendMeetingNotSelf, ArriveOnline
    <2> QED
      BY <1>3, <1>4, <2>1
  <1>5. CASE SendMeetingMessage(t)
    <2>1. PICK found \in SUBSET Online(Members(sending[t].session)) : Arrive(t, found)
      BY <1>5 DEF SendMeetingMessage, ArriveOnline
    <2> QED
      BY <1>3, <1>5, <2>1
  <1> QED
    BY <1>1, <1>2, <1>4, <1>5

\* Packets are counted up.
LEMMA HandledGrows ==
    ASSUME IInv, MessageNext
    PROVE  handled \in Nat /\ handled' \in Nat /\ handled <= handled'
  <1>1. handled \in Nat
    BY Known, SessionAssumption DEF CacheType, SessionAssumption
  <1>2. handled' = handled \/ handled' = handled + 1
    <2>1. ASSUME NEW t \in Workers, Begin(t) PROVE handled' = handled + 1
      BY <2>1 DEF Begin, Login, Ask, AskGroup, Quit, Take
    <2>2. ASSUME NEW t \in Threads, Continue(t) PROVE handled' = handled
      BY <2>2
      DEF Continue, LoginUser, LoginSocket, AskFirst, Invite, Enter, AskSecond, Join,
          ClearLeave, Meet, EnterGroup, QuitSocket, ClearMeeting, ClearUser, EraseUser, AberrantSocket,
          clientVars
    <2>3. ASSUME NEW u \in Users, NEW s \in Sockets, Connect(u, s) \/ Close(s)
          PROVE  handled' = handled
      BY <2>3 DEF Connect, Close
    <2>4. ASSUME NEW s \in Sockets, Close(s) PROVE handled' = handled
      BY <2>4 DEF Close
    <2>5. ASSUME Next PROVE handled' = handled \/ handled' = handled + 1
      BY <2>1, <2>2, <2>3, <2>4, <2>5 DEF Next
    <2> QED
      BY <2>5, SessionSteps DEF TakesMail, vars, clientVars
  <1> QED
    BY <1>1, <1>2

\* The types of the messages.
LEMMA MailTypeStep ==
    ASSUME FInv, MailType, MailRight, MessageNext
    PROVE  MailType'
  <1> IInv
    BY DEF FInv, TInv
  <1> CacheType
    BY Known
  <1> /\ handled \in Nat /\ handled' \in Nat /\ handled <= handled'
      /\ Len(infos) \in Nat /\ Len(infos') \in Nat /\ Len(infos) <= Len(infos')
    BY HandledGrows, InfosKept
  <1>1. /\ Mail(handled, Len(infos)) \subseteq Mail(handled', Len(infos'))
        /\ 0 .. handled \subseteq 0 .. handled'
        /\ Received(handled) \subseteq Received(handled')
    BY DEF Mail, Received
  <1>2. received' \subseteq Received(handled')
    BY <1>1, NewMail DEF MailType
  <1>3. confirmed' \subseteq 0 .. handled'
    <2>1. UNCHANGED confirmed \/ \E m \in received : confirmed' = confirmed \cup {m.id}
      BY MailWriters DEF Confirm
    <2>2. ASSUME NEW m \in received PROVE m.id \in 0 .. handled'
      <3>1. m.id \in 0 .. handled
        BY DEF MailType, Received
      <3> QED
        BY <1>1, <3>1
    <2>3. confirmed \subseteq 0 .. handled'
      BY <1>1 DEF MailType
    <2>4. CASE confirmed' = confirmed
      BY <2>3, <2>4
    <2>5. ASSUME NEW m \in received, confirmed' = confirmed \cup {m.id}
          PROVE  confirmed' \subseteq 0 .. handled'
      BY <2>2, <2>3, <2>5
    <2> QED
      BY <2>1, <2>4, <2>5
  <1>4. sending' \in [Workers -> Mail(handled', Len(infos'))]
    <2>1. CASE UNCHANGED sending
      BY <1>1, <2>1 DEF MailType
    <2>2. ASSUME NEW t \in Workers, sending' = [sending EXCEPT ![t] = sending'[t]],
                 sending'[t] \in Mail(handled', Len(infos'))
          PROVE  sending' \in [Workers -> Mail(handled', Len(infos'))]
      BY <1>1, <2>2 DEF MailType
    <2>3. NoMail \in Mail(handled', Len(infos'))
      BY DEF NoMail, Mail, AnySession
    <2>4. ASSUME NEW t \in Workers, NEW u \in Users, NEW x \in Sockets, NEW to \in Users,
                 NEW s \in Sessions, Message(t, u, x, to, s)
          PROVE  sending' = [sending EXCEPT ![t] = sending'[t]]
                 /\ sending'[t] \in Mail(handled', Len(infos'))
      <3> DEFINE r == [NoMail EXCEPT !.pc = "lookup", !.from = u, !.to = to, !.session = s,
                                     !.id = handled + 1]
      <3>1. handled' = handled + 1 /\ sending' = [sending EXCEPT ![t] = r]
        BY <2>4 DEF Message, TakeMail, Take
      <3>2. sending'[t] = [pc |-> "lookup", from |-> u, to |-> to, session |-> s,
                           id |-> handled + 1, info |-> 0]
        BY <3>1 DEF MailType, NoMail
      <3>3. handled + 1 \in 0 .. handled' /\ 0 \in 0 .. Len(infos') /\ s \in AnySession
        BY <3>1 DEF AnySession
      <3>4. sending'[t] \in Mail(handled', Len(infos'))
        BY <3>2, <3>3 DEF Mail
      <3> QED
        BY <3>1, <3>2, <3>4
    <2>5. ASSUME NEW t \in Workers, NEW u \in Users, NEW x \in Sockets, NEW g \in Groups,
                 NEW pc \in {"not_self", "sound"}, GroupMessage(t, u, x, g, pc)
          PROVE  sending' = [sending EXCEPT ![t] = sending'[t]]
                 /\ sending'[t] \in Mail(handled', Len(infos'))
      <3> DEFINE r == [NoMail EXCEPT !.pc = pc, !.from = u, !.session = g,
                                     !.id = handled + 1]
      <3>1. handled' = handled + 1 /\ sending' = [sending EXCEPT ![t] = r]
        BY <2>5 DEF GroupMessage, TakeMail, Take
      <3>2. sending'[t] = [pc |-> pc, from |-> u, to |-> Nobody, session |-> g,
                           id |-> handled + 1, info |-> 0]
        BY <3>1 DEF MailType, NoMail
      <3>3. handled + 1 \in 0 .. handled' /\ 0 \in 0 .. Len(infos') /\ g \in AnySession
        BY <3>1 DEF AnySession
      <3>4. sending'[t] \in Mail(handled', Len(infos'))
        BY <3>2, <3>3 DEF Mail
      <3> QED
        BY <3>1, <3>2, <3>4
    <2>6. ASSUME NEW t \in Workers, ContinueMail(t)
          PROVE  sending' = [sending EXCEPT ![t] = sending'[t]]
                 /\ sending'[t] \in Mail(handled', Len(infos'))
      <3>1. sending[t] \in Mail(handled', Len(infos'))
        BY <1>1 DEF MailType
      <3>2. CASE Lookup(t)
        <4>1. user_infos_map[sending[t].to] \in 0 .. Len(infos')
          <5>1. sending[t].to \in Users
            BY <3>2 DEF Lookup, MailRight, RightMail
          <5> QED
            BY <5>1 DEF CacheType
        <4> QED
          BY <3>1, <3>2, <4>1 DEF Lookup, Mail, MailType
      <3>3. CASE GotoMail(t, "send") \/ GotoMail(t, "expect")
        <4>1. PICK pc \in {"send", "expect"} : sending' = [sending EXCEPT ![t].pc = pc]
          BY <3>3 DEF GotoMail
        <4>2. sending'[t] = [sending[t] EXCEPT !.pc = pc]
          BY <4>1 DEF MailType
        <4>3. sending' = [sending EXCEPT ![t] = sending'[t]]
          BY <4>1, <4>2
        <4> QED
          BY <3>1, <4>2, <4>3 DEF Mail
      <3>4. CASE DoneMail(t)
        BY <2>3, <3>4 DEF DoneMail, MailType
      <3> QED
        BY <2>6, <3>2, <3>3, <3>4
        DEF ContinueMail, LookupAway, Compare, SendPrivate, AddConfirmMessage,
            SendMeetingNotSelf, SendMeetingMessage
    <2>7. ASSUME NEW t \in Workers, BeginMail(t)
          PROVE  UNCHANGED sending \/ (sending' = [sending EXCEPT ![t] = sending'[t]]
                                        /\ sending'[t] \in Mail(handled', Len(infos')))
      BY <2>4, <2>5, <2>7 DEF BeginMail, Confirm
    <2> QED
      BY <2>1, <2>2, <2>6, <2>7 DEF MessageNext, BeginSession, ContinueSession, mailVars
  <1> QED
    BY <1>2, <1>3, <1>4 DEF MailType

\* What is known of a message stays known while its handler waits.
LEMMA KeepsRight ==
    ASSUME FInv, MailType, MessageNext, NEW t \in Workers, RightMail(t),
           sending'[t] = sending[t]
    PROVE  RightMail(t)'
  <1> IInv
    BY DEF FInv, TInv
  <1> DEFINE m == sending[t]
  <1>1. m \in Mail(handled, Len(infos))
    BY DEF MailType
  <1>2. m.pc \in {"lookup", "compare", "send"} => partner'[m.from][m.session] = m.to
    <2>1. SUFFICES ASSUME m.pc \in {"lookup", "compare", "send"}
                   PROVE  partner'[m.from][m.session] = m.to
      OBVIOUS
    <2>2. m.from \in Users /\ m.session \in Sessions /\ m.to \in Users
          /\ partner[m.from][m.session] = m.to
      BY <2>1 DEF RightMail
    <2> QED
      BY <2>2, PartnerStays
  <1>3. m.pc \in {"compare", "send"} => infos'[m.info].user = infos[m.info].user
    <2>1. m.pc \in {"compare", "send"} => m.info \in 1 .. Len(infos)
      BY <1>1, InfosKept DEF RightMail, Mail
    <2> QED
      BY <2>1, InfosKept
  <1>4. ASSUME m.pc = "send"
        PROVE  \/ m.from = partner'[m.to][m.session]
               \/ \E x \in Workers :
                    /\ thread'[x].pc \in {"enter", "clear_leave", "meet"}
                    /\ thread'[x].uid = m.to /\ thread'[x].session = m.session
                    /\ thread'[x].opp = m.from
    <2>1. PICK a \in Users, b \in Users, s \in Sessions :
              a = m.from /\ b = m.to /\ s = m.session /\ a \in Pals(b, s)
      BY <1>4 DEF RightMail
    <2>2. a \in Pals(b, s)'
      BY <2>1, PalsStay
    <2> QED
      BY <2>1, <2>2 DEF Pals, BeingTold
  <1> QED
    BY <1>2, <1>3, <1>4 DEF RightMail, Pals, BeingTold

\* A message goes out when the receiver's session is that of the message; then
\* the receiver's client is told the session, for the sender.
LEMMA ComparedRight ==
    ASSUME FInv, MailType, NEW t \in Workers, RightMail(t), sending[t].pc = "compare",
           infos[sending[t].info].session = sending[t].session
    PROVE  sending[t].from \in Pals(sending[t].to, sending[t].session)
  <1> CacheType /\ SessionKnown /\ PartnerRight
    BY Known DEF FInv, TInv
  <1> sending[t] \in Mail(handled, Len(infos))
    BY DEF MailType
  <1>1. PICK a \in Users, b \in Users, s \in Sessions :
            /\ a = sending[t].from /\ b = sending[t].to /\ s = sending[t].session
            /\ partner[a][s] = b
    BY DEF RightMail
  <1>2. sending[t].info \in DOMAIN infos /\ infos[sending[t].info].user = b
    BY <1>1 DEF RightMail, Mail, CacheType
  <1>3. PICK v \in Users : v \in Pals(b, s)
    BY <1>1, <1>2 DEF SessionKnown
  <1>4. PairIs(s, b, v)
    BY <1>3, PalsPair
  <1>5. PairIs(s, a, b)
    BY <1>1, PalsPair DEF Pals
  <1>6. v = a
    BY <1>4, <1>5 DEF PairIs
  <1> QED
    BY <1>1, <1>3, <1>6

\* What a message was checked for holds until it is sent.
LEMMA MailRightStep ==
    ASSUME FInv, MailType, MailRight, MessageNext
    PROVE  MailRight'
  <1> IInv
    BY DEF FInv, TInv
  <1> CacheType /\ OwnEntry
    BY Known DEF IInv
  <1>1. SUFFICES ASSUME NEW t \in Workers PROVE RightMail(t)'
    BY DEF MailRight
  <1> RightMail(t) /\ sending[t] \in Mail(handled, Len(infos))
    BY DEF MailRight, MailType
  <1>2. CASE sending'[t] = sending[t]
    BY <1>2, KeepsRight
  <1>3. sending'[t] = sending[t] \/ BeginMail(t) \/ ContinueMail(t)
    <2>1. UNCHANGED sending \/ \E x \in Workers : BeginMail(x) \/ ContinueMail(x)
      BY MailWriters
    <2>2. ASSUME NEW x \in Workers, x # t, BeginMail(x) \/ ContinueMail(x)
          PROVE  sending'[t] = sending[t]
      BY <2>2, BeginMailWrites, ContinueMailWrites DEF MailType
    <2> QED
      BY <2>1, <2>2
  <1>4. CASE BeginMail(t)
    <2>1. UNCHANGED <<partner, infos, thread>>
      BY <1>4, MailSteps DEF TakesMail, cacheVars, followVars
    <2>2. ASSUME NEW u \in Users, NEW x \in Sockets, NEW to \in Users, NEW s \in Sessions,
                 Message(t, u, x, to, s)
          PROVE  RightMail(t)'
      <3>1. /\ partner[u][s] = to
            /\ sending'[t] = [NoMail EXCEPT !.pc = "lookup", !.from = u, !.to = to,
                                            !.session = s, !.id = handled + 1]
        BY <2>2 DEF Message, MailType
      <3> QED
        BY <2>1, <3>1 DEF RightMail, NoMail
    <2>3. ASSUME NEW u \in Users, NEW x \in Sockets, NEW g \in Groups,
                 NEW pc \in {"not_self", "sound"}, GroupMessage(t, u, x, g, pc)
          PROVE  RightMail(t)'
      <3>1. sending'[t] = [NoMail EXCEPT !.pc = pc, !.from = u, !.session = g,
                                         !.id = handled + 1]
        BY <2>3 DEF GroupMessage, MailType
      <3> QED
        BY <3>1 DEF RightMail, NoMail
    <2>4. ASSUME NEW u \in Users, NEW x \in Sockets, Confirm(t, u, x)
          PROVE  RightMail(t)'
      BY <1>2, <2>4 DEF Confirm
    <2> QED
      BY <1>4, <2>2, <2>3, <2>4 DEF BeginMail
  <1>5. CASE ContinueMail(t)
    <2>1. UNCHANGED <<partner, infos, thread>>
      BY <1>5, MailSteps DEF vars, cacheVars, followVars
    <2>2. CASE Lookup(t)
      <3>1. /\ sending[t].pc = "lookup" /\ user_infos_map[sending[t].to] # 0
            /\ sending'[t] = [sending[t] EXCEPT !.pc = "compare",
                                                !.info = user_infos_map[sending[t].to]]
        BY <2>2 DEF Lookup, MailType
      <3>2. sending[t].to \in Users
        BY <3>1 DEF RightMail
      <3>3. infos[user_infos_map[sending[t].to]].user = sending[t].to
        BY <3>1, <3>2 DEF OwnEntry
      <3> QED
        BY <2>1, <3>1, <3>3 DEF RightMail, Mail
    <2>3. CASE DoneMail(t)
      <3>1. sending'[t] = NoMail
        BY <2>3 DEF DoneMail, MailType
      <3> QED
        BY <3>1 DEF RightMail, NoMail
    <2>4. CASE Compare(t) /\ ~DoneMail(t)
      <3>1. /\ sending[t].pc = "compare"
            /\ infos[sending[t].info].session = sending[t].session
            /\ sending'[t] = [sending[t] EXCEPT !.pc = "send"]
        BY <2>4 DEF Compare, GotoMail, MailType
      <3>2. sending[t].from \in Pals(sending[t].to, sending[t].session)
        BY <3>1, ComparedRight
      <3> QED
        BY <2>1, <3>1, <3>2 DEF RightMail, Mail, Pals, BeingTold
    <2>5. CASE SendPrivate(t)
      <3>1. sending[t].pc = "send" /\ sending'[t] = [sending[t] EXCEPT !.pc = "expect"]
        BY <2>5 DEF SendPrivate, GotoMail, MailType
      <3> QED
        BY <3>1 DEF RightMail, Mail
    <2> QED
      BY <1>5, <2>2, <2>3, <2>4, <2>5
      DEF ContinueMail, LookupAway, AddConfirmMessage, SendMeetingNotSelf, SendMeetingMessage
  <1> QED
    BY <1>2, <1>3, <1>4, <1>5

\* A private message reached who was told its session for the sender.
LEMMA PrivateMailStep ==
    ASSUME MInv, MessageNext
    PROVE  PrivateMail'
  <1> FInv /\ MailType /\ MailRight /\ PrivateMail
    BY DEF MInv
  <1> IInv
    BY DEF FInv, TInv
  <1>1. SUFFICES ASSUME NEW m \in received', m.session \in Sessions
                 PROVE  \/ m.from = partner'[m.client][m.session]
                        \/ \E x \in Workers :
                             /\ thread'[x].pc \in {"enter", "clear_leave", "meet"}
                             /\ thread'[x].uid = m.client /\ thread'[x].session = m.session
                             /\ thread'[x].opp = m.from
                        \/ Reused(m.socket)'
    BY DEF PrivateMail, BeingTold
  <1>2. m \in Received(handled)
    BY NewMail DEF MailType
  <1>3. PICK a \in Users, b \in Users, s \in Sessions :
            a = m.from /\ b = m.client /\ s = m.session
    BY <1>1, <1>2 DEF Received
  <1>4. ASSUME m \in received \/ m \notin received
        PROVE  a \in Pals(b, s) \/ Reused(m.socket)
    <2>1. CASE m \in received
      BY <1>3, <2>1 DEF PrivateMail, Pals
    <2>2. CASE m \notin received
      <3>1. PICK t \in Workers :
                /\ m.from = sending[t].from /\ m.session = sending[t].session
                /\ \/ /\ SendPrivate(t)
                      /\ m.client = infos[sending[t].info].user \/ Reused(m.socket)
                   \/ m.session \in Groups
        BY <2>2, NewMail
      <3>2. /\ SendPrivate(t)
            /\ m.client = infos[sending[t].info].user \/ Reused(m.socket)
        BY <1>1, <3>1, CacheAssumption DEF CacheAssumption
      <3>3. /\ sending[t].from \in Pals(sending[t].to, sending[t].session)
            /\ infos[sending[t].info].user = sending[t].to
        BY <3>2 DEF MailRight, RightMail, SendPrivate
      <3> QED
        BY <1>3, <3>1, <3>2, <3>3
    <2> QED
      BY <2>1, <2>2
  <1>5. a \in Pals(b, s) => a \in Pals(b, s)'
    BY PalsStay
  <1>6. Reused(m.socket) => Reused(m.socket)'
    BY ReusedStays
  <1> QED
    BY <1>3, <1>4, <1>5, <1>6 DEF Pals, BeingTold

\* A group's message reached who was told the group, or was being told it.
LEMMA ToldBeforeMailStep ==
    ASSUME MInv, MessageNext
    PROVE  ToldBeforeMail'
  <1> FInv /\ MailType /\ MailRight /\ ToldBeforeMail
    BY DEF MInv
  <1> IInv /\ MembersTold
    BY DEF FInv, TInv
  <1> CacheType
    BY Known
  <1>1. SUFFICES ASSUME NEW m \in received', m.session \in Groups
                 PROVE  \/ m.session \in told'[m.client]
                        \/ \E x \in Workers :
                             /\ thread'[x].pc \in {"enter", "clear_leave", "meet"}
                             /\ thread'[x].uid = m.client /\ thread'[x].session = m.session
                        \/ Reused(m.socket)'
    BY DEF ToldBeforeMail, BeingTold
  <1>2. m \in Received(handled)
    BY NewMail DEF MailType
  <1>3. PICK u \in Users, g \in Groups : u = m.client /\ g = m.session
    BY <1>1, <1>2 DEF Received
  <1>4. g \in told[u] \/ BeingTold(u, g) # {} \/ Reused(m.socket)
    <2>1. CASE m \in received
      BY <1>3, <2>1 DEF ToldBeforeMail
    <2>2. CASE m \notin received
      <3>1. m.client \in Members(m.session) \/ Reused(m.socket)
        BY <1>1, <2>2, NewMail, CacheAssumption DEF CacheAssumption
      <3>2. u \in meeting_infos_map[g] \/ Reused(m.socket)
        BY <1>3, <3>1, CacheAssumption DEF Members, CacheAssumption
      <3>3. ASSUME u \in meeting_infos_map[g]
            PROVE  g \in told[u] \/ \E t \in Workers :
                      thread[t].pc = "enter" /\ thread[t].uid = u /\ thread[t].session = g
        BY <3>3 DEF MembersTold, CacheType
      <3>4. ASSUME NEW t \in Workers, thread[t].pc = "enter", thread[t].uid = u,
                   thread[t].session = g
            PROVE  thread[t].opp \in BeingTold(u, g)
        BY <3>4 DEF BeingTold
      <3> QED
        BY <3>2, <3>3, <3>4
    <2> QED
      BY <2>1, <2>2
  <1>5. g \in told[u] \/ BeingTold(u, g) # {} => (g \in told[u] \/ BeingTold(u, g) # {})'
    BY ToldStays
  <1>6. Reused(m.socket) => Reused(m.socket)'
    BY ReusedStays
  <1>7. (g \in told[u] \/ BeingTold(u, g) # {})' =>
            \/ g \in told'[u]
            \/ \E x \in Workers :
                 /\ thread'[x].pc \in {"enter", "clear_leave", "meet"}
                 /\ thread'[x].uid = u /\ thread'[x].session = g
    BY DEF BeingTold
  <1> QED
    BY <1>3, <1>4, <1>5, <1>6, <1>7

\* The invariant holds before the first packet.
LEMMA InitMInv == Init /\ MailInit => MInv
  <1> SUFFICES ASSUME Init, MailInit PROVE MInv
    OBVIOUS
  <1>1. TInv
    BY InitTInv
  <1>2. infos = <<>> /\ packets = {} /\ conn = [s \in Sockets |-> Nobody] /\ handled = 0
        /\ thread = [t \in Threads |-> Idle]
    BY DEF Init, CacheInit
  <1>3. FollowType /\ PartnerRight
    BY SessionAssumption DEF MailInit, FollowType, PartnerRight, AnySession, SessionAssumption
  <1>4. AskRight /\ SessionKnown /\ OnPackets
    BY <1>2 DEF AskRight, SessionKnown, OnPackets, Idle, Threads
  <1>5. NoMail \in Mail(handled, Len(infos))
    BY <1>2 DEF NoMail, Mail, AnySession
  <1>6. MailType
    BY <1>5 DEF MailInit, MailType
  <1>7. MailRight /\ PrivateMail /\ ToldBeforeMail
    BY DEF MailInit, NoMail, MailRight, RightMail, PrivateMail, ToldBeforeMail
  <1> QED
    BY <1>1, <1>3, <1>4, <1>6, <1>7 DEF MInv, FInv

\* Every step preserves the invariant.
LEMMA NextMInv == MInv /\ [MessageNext]_messageVars => MInv'
  <1> SUFFICES ASSUME MInv, [MessageNext]_messageVars PROVE MInv'
    OBVIOUS
  <1>1. FInv'
    BY NextFInv DEF MInv
  <1>2. CASE MessageNext
    BY <1>1, <1>2, MailTypeStep, MailRightStep, PrivateMailStep, ToldBeforeMailStep DEF MInv
  <1>3. CASE UNCHANGED messageVars
    <2>1. UNCHANGED <<infos, thread, packets, told, partner, sending, received, handled,
                      confirmed>>
      BY <1>3
      DEF messageVars, vars, cacheVars, clientVars, mailVars, followVars
    <2>2. MailType' /\ MailRight'
      BY <2>1 DEF MInv, MailType, MailRight, RightMail, Pals, BeingTold
    <2>3. /\ \A u \in Users, s \in Sessions \cup Groups : BeingTold(u, s)' = BeingTold(u, s)
          /\ \A x \in Sockets : Reused(x)' = Reused(x)
      BY <2>1 DEF BeingTold, Reused
    <2>4. \A m \in received : m.client \in Users /\ m.socket \in Sockets
                                /\ m.session \in Sessions \cup Groups
      BY DEF MInv, MailType, Received
    <2>5. PrivateMail'
      BY <2>1 DEF MInv, PrivateMail, BeingTold, Reused
    <2>6. ToldBeforeMail'
      BY <2>1, <2>3, <2>4 DEF MInv, ToldBeforeMail
    <2> QED
      BY <1>1, <2>2, <2>5, <2>6 DEF MInv
  <1> QED
    BY <1>2, <1>3

\* OnMessage, OnGroupMessage and OnGroupSound keep what is known of a
\* message under way, with the handlers of ChatSession beside them.
THEOREM MessageInvariance == MessageSpec => []MInv
  <1>1. MInv /\ [MessageNext]_messageVars => MInv'
    BY NextMInv
  <1> QED
    BY InitMInv, <1>1, PTL DEF MessageSpec

-----------------------------------------------------------------------------
(* Confirmations *)

\* What the handler of a message does to the messages under way.
LEMMA MailIds ==
    ASSUME MailType, MessageNext, NEW t \in Workers, BeginMail(t) \/ ContinueMail(t)
    PROVE  /\ \A x \in Workers : x # t => sending'[x] = sending[x]
           /\ \/ sending'[t] = NoMail
              \/ UnderWay(t) /\ UnderWay(t)' /\ sending'[t].id = sending[t].id
              \/ sending' = sending
              \/ /\ sending'[t].id = handled + 1 /\ handled' = handled + 1
                 /\ UNCHANGED <<confirm_message_map, confirmed, early>>
  <1> sending[t] \in Mail(handled, Len(infos))
    BY DEF MailType
  <1>1. ASSUME NEW u \in Users, NEW x \in Sockets, NEW to \in Users, NEW s \in Sessions,
               Message(t, u, x, to, s)
        PROVE  /\ \A y \in Workers : y # t => sending'[y] = sending[y]
               /\ sending'[t].id = handled + 1 /\ handled' = handled + 1
               /\ UNCHANGED <<confirm_message_map, confirmed, early>>
    BY <1>1 DEF Message, TakeMail, Take, MailType, NoMail
  <1>2. ASSUME NEW u \in Users, NEW x \in Sockets, NEW g \in Groups,
               NEW pc \in {"not_self", "sound"}, GroupMessage(t, u, x, g, pc)
        PROVE  /\ \A y \in Workers : y # t => sending'[y] = sending[y]
               /\ sending'[t].id = handled + 1 /\ handled' = handled + 1
               /\ UNCHANGED <<confirm_message_map, confirmed, early>>
    BY <1>2 DEF GroupMessage, TakeMail, Take, MailType, NoMail
  <1>3. ASSUME NEW u \in Users, NEW x \in Sockets, Confirm(t, u, x)
        PROVE  sending' = sending
    BY <1>3 DEF Confirm
  <1>4. CASE BeginMail(t)
    BY <1>1, <1>2, <1>3, <1>4 DEF BeginMail
  <1>5. CASE DoneMail(t)
    BY <1>5 DEF DoneMail, MailType
  <1>6. ASSUME NEW r \in {"compare", "send", "expect"}, sending[t].pc # "idle",
               sending'[t].pc = r, sending'[t].id = sending[t].id
        PROVE  UnderWay(t) /\ UnderWay(t)'
    BY <1>6 DEF UnderWay
  <1>7. CASE Lookup(t)
    <2>1. /\ \A y \in Workers : y # t => sending'[y] = sending[y]
          /\ sending'[t].pc = "compare" /\ sending'[t].id = sending[t].id
          /\ sending[t].pc # "idle"
      BY <1>7 DEF Lookup, MailType, Mail
    <2> QED
      BY <1>6, <2>1
  <1>8. ASSUME NEW r \in {"send", "expect"}, GotoMail(t, r), sending[t].pc # "idle"
        PROVE  /\ \A y \in Workers : y # t => sending'[y] = sending[y]
               /\ UnderWay(t) /\ UnderWay(t)' /\ sending'[t].id = sending[t].id
    <2>1. /\ \A y \in Workers : y # t => sending'[y] = sending[y]
          /\ sending'[t].pc = r /\ sending'[t].id = sending[t].id
      BY <1>8 DEF GotoMail, MailType, Mail
    <2> QED
      BY <1>6, <1>8, <2>1
  <1>9. CASE Compare(t) \/ SendPrivate(t)
    BY <1>5, <1>8, <1>9 DEF Compare, SendPrivate
  <1> QED
    BY <1>4, <1>5, <1>7, <1>9
    DEF ContinueMail, LookupAway, AddConfirmMessage, SendMeetingNotSelf, SendMeetingMessage

\* A confirmation is handled once for a message, before or after it is expected.
LEMMA ConfirmStep ==
    ASSUME MInv, CInv, NEW t \in Workers, NEW u \in Users, NEW x \in Sockets,
           Confirm(t, u, x), handled \in Nat, handled' \in Nat, handled <= handled'
    PROVE  CInv'
  <1>1. PICK m \in received :
            /\ confirm_message_map' = confirm_message_map \ {m.id}
            /\ confirmed' = confirmed \cup {m.id}
            /\ early' = IF m.id \in confirm_message_map THEN early ELSE early \cup {m.id}
    BY DEF Confirm, DelConfirmMessage
  <1>2. sending' = sending
    BY DEF Confirm
  <1>3. \A y \in Workers : UnderWay(y) /\ sending[y].id \in confirmed' => sending[y].id \in early'
    <2>1. SUFFICES ASSUME NEW y \in Workers, UnderWay(y), sending[y].id \in confirmed'
                   PROVE  sending[y].id \in early'
      OBVIOUS
    <2>2. sending[y].id \notin confirm_message_map
      BY <2>1 DEF CInv
    <2>3. CASE sending[y].id = m.id
      BY <1>1, <2>2, <2>3
    <2>4. CASE sending[y].id # m.id
      <3>1. sending[y].id \in confirmed
        BY <1>1, <2>1, <2>4
      <3>2. sending[y].id \in early
        BY <2>1, <3>1 DEF CInv
      <3> QED
        BY <1>1, <3>2
    <2> QED
      BY <2>3, <2>4
  <1>4. confirm_message_map' \subseteq 0 .. handled'
    <2>1. confirm_message_map' \subseteq confirm_message_map
      BY <1>1
    <2>2. confirm_message_map \subseteq 0 .. handled
      BY DEF CInv
    <2>3. 0 .. handled \subseteq 0 .. handled'
      OBVIOUS
    <2> QED
      BY <2>1, <2>2, <2>3
  <1>5. ConfirmedIsForgotten'
    BY <1>1 DEF CInv, ConfirmedIsForgotten
  <1> QED
    BY <1>1, <1>2, <1>3, <1>4, <1>5 DEF CInv, UnderWay

\* The confirmation is expected of a message whose handler ends with it.
LEMMA AddConfirmStep ==
    ASSUME MInv, CInv, NEW t \in Workers, AddConfirmMessage(t), UNCHANGED handled
    PROVE  CInv'
  <1> MailType
    BY DEF MInv
  <1> DEFINE id == sending[t].id
  <1>1. /\ confirm_message_map' = confirm_message_map \cup {id}
        /\ UNCHANGED <<confirmed, early>> /\ UnderWay(t)
        /\ sending'[t] = NoMail /\ \A x \in Workers : x # t => sending'[x] = sending[x]
    BY DEF AddConfirmMessage, DoneMail, UnderWay, MailType
  <1>2. id \in 0 .. handled
    BY DEF MailType, Mail
  <1>3. \A x \in Workers : UnderWay(x)' => x # t /\ UnderWay(x) /\ sending'[x] = sending[x]
    BY <1>1 DEF UnderWay, NoMail
  <1>4. \A x \in Workers : UnderWay(x)' => sending'[x].id \notin confirm_message_map'
    BY <1>1, <1>3 DEF CInv
  <1>5. ConfirmedIsForgotten'
    BY <1>1 DEF CInv, ConfirmedIsForgotten
  <1>6. \A x, y \in Workers :
            UnderWay(x)' /\ UnderWay(y)' /\ sending'[x].id = sending'[y].id => x = y
    BY <1>3 DEF CInv
  <1>7. \A x \in Workers :
            UnderWay(x)' /\ sending'[x].id \in confirmed' => sending'[x].id \in early'
    BY <1>1, <1>3 DEF CInv
  <1>8. confirm_message_map' \subseteq 0 .. handled'
    BY <1>1, <1>2 DEF CInv
  <1> QED
    BY <1>4, <1>5, <1>6, <1>7, <1>8 DEF CInv

\* Every step keeps the ids of the messages apart, and their confirmations.
LEMMA NextCInv == MInv /\ CInv /\ [MessageNext]_messageVars => CInv'
  <1> SUFFICES ASSUME MInv, CInv, [MessageNext]_messageVars PROVE CInv'
    OBVIOUS
  <1> MailType /\ IInv
    BY DEF MInv, FInv, TInv
  <1> handled \in Nat /\ handled' \in Nat /\ handled <= handled'
    <2>1. handled \in Nat
      BY Known, SessionAssumption DEF CacheType, SessionAssumption
    <2> QED
      BY <2>1, HandledGrows DEF messageVars, vars, clientVars
  <1>1. ASSUME UNCHANGED <<sending, confirm_message_map, confirmed, early>>
        PROVE  CInv'
    BY <1>1 DEF CInv, UnderWay, ConfirmedIsForgotten
  <1>2. ASSUME NEW t \in Workers, BeginMail(t) \/ ContinueMail(t), MessageNext,
               UNCHANGED <<confirm_message_map, confirmed, early>>
        PROVE  CInv'
    <2>1. \A x \in Workers : x # t => sending'[x] = sending[x]
      BY <1>2, MailIds
    <2>2. CASE sending'[t] = NoMail
      <3>1. \A x \in Workers : UnderWay(x)' => x # t /\ UnderWay(x) /\ sending'[x] = sending[x]
        BY <2>1, <2>2 DEF UnderWay, NoMail
      <3> QED
        BY <1>2, <3>1 DEF CInv, ConfirmedIsForgotten
    <2>3. CASE UnderWay(t) /\ UnderWay(t)' /\ sending'[t].id = sending[t].id
      <3>1. \A x \in Workers : UnderWay(x)' => UnderWay(x) /\ sending'[x].id = sending[x].id
        BY <2>1, <2>3 DEF UnderWay
      <3> QED
        BY <1>2, <3>1 DEF CInv, ConfirmedIsForgotten
    <2>4. CASE sending' = sending
      BY <1>1, <1>2, <2>4
    <2>5. CASE sending'[t].id = handled + 1 /\ handled' = handled + 1
      <3>1. \A x \in Workers : sending[x].id # handled + 1
        BY DEF MailType, Mail
      <3>2. handled + 1 \notin confirm_message_map /\ handled + 1 \notin confirmed
        BY DEF CInv, MailType
      <3>3. \A x \in Workers : x # t =>
                /\ UnderWay(x)' <=> UnderWay(x)
                /\ sending'[x].id = sending[x].id /\ sending'[x].id # sending'[t].id
        BY <2>1, <2>5, <3>1 DEF UnderWay
      <3>4. \A x, y \in Workers :
                UnderWay(x)' /\ UnderWay(y)' /\ sending'[x].id = sending'[y].id => x = y
        BY <3>3 DEF CInv
      <3>5. \A x \in Workers : UnderWay(x)' => sending'[x].id \notin confirm_message_map'
        BY <1>2, <2>5, <3>2, <3>3 DEF CInv
      <3>6. \A x \in Workers :
                UnderWay(x)' /\ sending'[x].id \in confirmed' => sending'[x].id \in early'
        BY <1>2, <2>5, <3>2, <3>3 DEF CInv
      <3> QED
        BY <1>2, <3>4, <3>5, <3>6 DEF CInv, ConfirmedIsForgotten
    <2> QED
      BY <1>2, <2>2, <2>3, <2>4, <2>5, MailIds
  <1>3. ASSUME NEW t \in Workers, ContinueMail(t), MessageNext
        PROVE  CInv'
    <2>1. CASE AddConfirmMessage(t)
      <3>1. UNCHANGED handled
        BY <1>3, MailSteps DEF vars, clientVars
      <3> QED
        BY <2>1, <3>1, AddConfirmStep
    <2>2. CASE ~AddConfirmMessage(t)
      <3>1. UNCHANGED <<confirm_message_map, confirmed, early>>
        BY <1>3, <2>2 DEF ContinueMail, LookupAway, Lookup, Compare, SendPrivate,
           SendMeetingNotSelf, SendMeetingMessage
      <3> QED
        BY <1>2, <1>3, <3>1
    <2> QED
      BY <2>1, <2>2
  <1>4. ASSUME NEW t \in Workers, BeginMail(t), MessageNext
        PROVE  CInv'
    <2>1. ASSUME NEW u \in Users, NEW x \in Sockets, Confirm(t, u, x)
          PROVE  CInv'
      BY <2>1, ConfirmStep
    <2>2. \/ UNCHANGED <<confirm_message_map, confirmed, early>>
          \/ \E u \in Users, x \in Sockets : Confirm(t, u, x)
      BY <1>4 DEF BeginMail, Message, GroupMessage
    <2> QED
      BY <1>2, <1>4, <2>1, <2>2
  <1> QED
    BY <1>1, <1>3, <1>4
    DEF MessageNext, BeginSession, ContinueSession, messageVars, mailVars

\* No message is expected at first.
LEMMA InitCInv == MailInit => CInv
  BY DEF MailInit, CInv, UnderWay, NoMail, ConfirmedIsForgotten

\* With OnConfirmMessage: a message's confirmation is expected once, at the
\* end of its OnMessage.
THEOREM ConfirmInvariance == MessageSpec => [](MInv /\ CInv)
  <1>1. Init /\ MailInit => MInv /\ CInv
    BY InitMInv, InitCInv
  <1>2. (MInv /\ CInv) /\ [MessageNext]_messageVars => (MInv /\ CInv)'
    BY NextMInv, NextCInv
  <1> QED
    BY <1>1, <1>2, PTL DEF MessageSpec

-----------------------------------------------------------------------------
(* Users whose packets are handled one at a time *)

\* A step that tells u's client nothing, and leaves u's entry or erases it.
LEMMA QuietStep ==
    ASSUME IInv, NEW u \in Users, OneAtATime(u), CurrentIsSet(u),
           current'[u] = current[u], user_infos_map'[u] \in {0, user_infos_map[u]},
           (current[u] # NoSession /\ user_infos_map[u] # 0) =>
              infos'[user_infos_map[u]].session = infos[user_infos_map[u]].session,
           \A x \in Workers : thread'[x].uid = u =>
              /\ thread[x].uid = u
              /\ thread'[x].pc \in Asking =>
                   thread[x].pc \in Asking /\ thread'[x].info = thread[x].info
              /\ thread'[x].pc \in {"clear_leave", "meet"} =>
                   infos'[thread'[x].info].session = thread'[x].session
    PROVE  OneAtATime(u)' /\ CurrentIsSet(u)'
  <1>1. CurrentIsSet(u)'
    BY DEF CurrentIsSet
  <1>2. OneAtATime(u)'
    BY DEF OneAtATime
  <1> QED
    BY <1>1, <1>2

\* A session is set in a UserInfo of the user whose handler sets it.
LEMMA SetsOwn ==
    ASSUME IInv, NEW t \in Threads, Enter(t) \/ Join(t)
    PROVE  /\ t \in Workers /\ thread[t].uid \in Users /\ thread[t].info \in 1 .. Len(infos)
           /\ infos[thread[t].info].user = thread[t].uid
           /\ infos'[thread[t].info].session = thread[t].session
           /\ \A i \in 1 .. Len(infos) :
                infos[i].user # thread[t].uid => infos'[i].session = infos[i].session
  <1> CacheType /\ ThreadOwn /\ thread \in [Threads -> ThreadRecord(Len(infos))]
    BY Known
  <1>1. /\ t \in Workers /\ thread[t].uid \in Users /\ thread[t].info \in 1 .. Len(infos)
        /\ infos[thread[t].info].user = thread[t].uid /\ thread[t].session \in AnySession
    BY DEF Enter, Join, ThreadOwn, Owns, ThreadRecord, Threads
  <1>2. set_session(thread[t].info, thread[t].session)
    BY DEF Enter, Join
  <1> QED
    BY <1>1, <1>2, SetSession DEF CacheType

\* What holds for u of the UserInfos and handlers that are u's.
LEMMA OwnInfo ==
    ASSUME IInv, NEW u \in Users
    PROVE  /\ user_infos_map[u] # 0 =>
                user_infos_map[u] \in 1 .. Len(infos) /\ infos[user_infos_map[u]].user = u
           /\ \A x \in Workers : thread[x].uid = u /\ thread[x].pc \in Asking =>
                thread[x].info \in 1 .. Len(infos) /\ infos[thread[x].info].user = u
  <1> CacheType /\ ThreadOwn /\ thread \in [Threads -> ThreadRecord(Len(infos))] /\ OwnEntry
    BY Known DEF IInv
  <1>1. user_infos_map[u] \in 0 .. Len(infos) /\ Len(infos) \in Nat
    BY DEF CacheType
  <1>2. user_infos_map[u] # 0 => infos[user_infos_map[u]].user = u
    BY DEF OwnEntry
  <1>3. ASSUME NEW x \in Workers, thread[x].uid = u, thread[x].pc \in Asking
        PROVE  thread[x].info \in 1 .. Len(infos) /\ infos[thread[x].info].user = u
    BY <1>1, <1>3 DEF Asking, ThreadOwn, Owns, ThreadRecord, Threads
  <1> QED
    BY <1>1, <1>2, <1>3

\* A packet begins to be handled.
LEMMA BeginOne ==
    ASSUME IInv, FollowType, AInv, NEW t \in Workers, BeginSession(t),
           NEW u \in Users \ overlapped'
    PROVE  OneAtATime(u)' /\ CurrentIsSet(u)'
  <1> CacheType
    BY Known
  <1>1. /\ Away(t) /\ thread[t] = Idle /\ thread'[t].uid \in Users
        /\ \A x \in Workers : x # t => thread'[x] = thread[x]
    BY BeginFollow DEF Threads
  <1>2. u \notin overlapped
    BY <1>1 DEF Away
  <1>3. OneAtATime(u) /\ CurrentIsSet(u)
    BY <1>2 DEF AInv
  <1>4. /\ user_infos_map' = user_infos_map
        /\ \/ thread'[t].pc \in {"login_user", "quit"}
           \/ /\ thread'[t].pc \in {"ask", "group"}
              /\ thread'[t].info = user_infos_map[thread'[t].uid]
    <2>1. PICK uid \in Users, socket \in Sockets :
              \/ Login(t, uid, socket)
              \/ \E opp \in Users \ {uid} : Ask(t, uid, socket, opp)
              \/ \E group \in Groups : AskGroup(t, uid, socket, group)
              \/ \E session \in AnySession : Quit(t, uid, socket, session)
      BY DEF BeginSession, Begin
    <2>2. t \in Threads /\ thread \in [Threads -> ThreadRecord(Len(infos))]
      BY Known DEF Threads
    <2>3. ASSUME Login(t, uid, socket)
          PROVE  user_infos_map' = user_infos_map /\ thread'[t].pc = "login_user"
      BY <2>2, <2>3 DEF Login, Idle
    <2>4. ASSUME NEW opp \in Users, Ask(t, uid, socket, opp)
          PROVE  user_infos_map' = user_infos_map /\ thread'[t].pc = "ask"
                 /\ thread'[t].uid = uid /\ thread'[t].info = user_infos_map[uid]
      BY <2>2, <2>4 DEF Ask, Idle, cacheVars
    <2>5. ASSUME NEW group \in Groups, AskGroup(t, uid, socket, group)
          PROVE  user_infos_map' = user_infos_map /\ thread'[t].pc = "group"
                 /\ thread'[t].uid = uid /\ thread'[t].info = user_infos_map[uid]
      BY <2>2, <2>5 DEF AskGroup, Idle, cacheVars
    <2>6. ASSUME NEW session \in AnySession, Quit(t, uid, socket, session)
          PROVE  user_infos_map' = user_infos_map /\ thread'[t].pc = "quit"
      BY <2>2, <2>6 DEF Quit, Idle, cacheVars
    <2> QED
      BY <2>1, <2>3, <2>4, <2>5, <2>6
  <1>5. \A i \in 1 .. Len(infos) : infos'[i].session = infos[i].session
    <2>1. ASSUME NEW a \in Users, NEW s \in Sockets, NewInfo(a, s)
          PROVE  \A i \in 1 .. Len(infos) : infos'[i] = infos[i]
      BY <2>1, AddInfo DEF CacheType
    <2>2. UNCHANGED infos \/ \E a \in Users, s \in Sockets : NewInfo(a, s)
      BY DEF BeginSession, Begin, Login, Ask, AskGroup, Quit, cacheVars
    <2> QED
      BY <2>1, <2>2
  <1>6. CASE thread'[t].uid = u
    <2>1. current'[u] = NoSession
      BY <1>1, <1>6 DEF Away
    <2>2. \A x \in Workers : thread'[x].uid = u => x = t
      BY <1>1, <1>6 DEF Away
    <2>3. CurrentIsSet(u)'
      BY <2>1 DEF CurrentIsSet
    <2>4. thread'[t].pc \notin {"clear_leave", "meet"}
          /\ (thread'[t].pc \in Asking => user_infos_map'[u] = thread'[t].info)
      BY <1>4, <1>6 DEF Asking
    <2>5. OneAtATime(u)'
      BY <2>1, <2>2, <2>4 DEF OneAtATime
    <2> QED
      BY <2>3, <2>5
  <1>7. CASE thread'[t].uid # u
    <2>1. current'[u] = current[u]
      BY <1>1, <1>7 DEF Away
    <2>2. \A x \in Workers : thread'[x].uid = u => thread'[x] = thread[x]
      BY <1>1, <1>7
    <2>3. \A x \in Workers : thread[x].uid = u /\ thread[x].pc \in Asking =>
              infos'[thread[x].info].session = infos[thread[x].info].session
      BY <1>5, OwnInfo
    <2>4. \A x \in Workers : thread[x].uid = u /\ thread[x].pc \in {"clear_leave", "meet"} =>
              infos'[thread[x].info].session = thread[x].session
      BY <1>3, <2>3 DEF OneAtATime, Asking
    <2>5. user_infos_map[u] # 0 =>
              infos'[user_infos_map[u]].session = infos[user_infos_map[u]].session
      BY <1>5, OwnInfo
    <2> QED
      BY <1>3, <1>4, <2>1, <2>2, <2>4, <2>5, QuietStep
  <1> QED
    BY <1>6, <1>7

\* A client is told the session that was set for it.
LEMMA AnswerOne ==
    ASSUME IInv, FollowType, AInv, NEW t \in Threads, ContinueSession(t),
           Enter(t) \/ Meet(t), NEW u \in Users \ overlapped'
    PROVE  OneAtATime(u)' /\ CurrentIsSet(u)'
  <1> CacheType /\ ThreadOwn /\ thread \in [Threads -> ThreadRecord(Len(infos))]
    BY Known
  <1>1. /\ t \in Workers /\ Told(t) /\ thread[t].pc \in {"enter", "meet"}
        /\ thread' = [thread EXCEPT ![t] = Idle] /\ user_infos_map' = user_infos_map
    BY AnswerFollow DEF Enter, Meet, Done
  <1>2. OneAtATime(u) /\ CurrentIsSet(u)
    BY <1>1 DEF Told, AInv
  <1>3. \A x \in Workers : thread'[x].uid = u => x # t /\ thread'[x] = thread[x]
    BY <1>1, SessionAssumption DEF Idle, Threads, SessionAssumption
  <1>4. CASE thread[t].uid = u
    <2>1. \A x \in Workers : thread'[x].uid # u
      BY <1>1, <1>2, <1>3, <1>4 DEF OneAtATime
    <2>2. current'[u] = thread[t].session
      BY <1>1, <1>4 DEF Told
    <2>3. user_infos_map[u] # 0 => user_infos_map[u] = thread[t].info
      BY <1>1, <1>2, <1>4 DEF OneAtATime, Asking
    <2>4. infos'[thread[t].info].session = thread[t].session
      <3>1. CASE Enter(t)
        BY <3>1, SetsOwn
      <3>2. CASE Meet(t)
        BY <1>1, <1>2, <1>4, <3>2 DEF Meet, OneAtATime
      <3> QED
        BY <3>1, <3>2
    <2> QED
      BY <1>1, <2>1, <2>2, <2>3, <2>4 DEF OneAtATime, CurrentIsSet
  <1>5. CASE thread[t].uid # u
    <2>1. current'[u] = current[u]
      BY <1>1, <1>5 DEF Told
    <2>2. \A i \in 1 .. Len(infos) : infos[i].user = u => infos'[i].session = infos[i].session
      <3>1. CASE Enter(t)
        BY <1>5, <3>1, SetsOwn
      <3>2. CASE Meet(t)
        BY <3>2 DEF Meet
      <3> QED
        BY <3>1, <3>2
    <2>3. \A x \in Workers : thread[x].uid = u /\ thread[x].pc \in {"clear_leave", "meet"} =>
              infos'[thread[x].info].session = thread[x].session
      BY <1>2, <2>2, OwnInfo DEF OneAtATime, Asking
    <2>4. user_infos_map[u] # 0 =>
              infos'[user_infos_map[u]].session = infos[user_infos_map[u]].session
      BY <2>2, OwnInfo
    <2> QED
      BY <1>1, <1>2, <1>3, <2>1, <2>3, <2>4, QuietStep
  <1> QED
    BY <1>4, <1>5

\* The other steps of the handlers.
LEMMA ContinueOne ==
    ASSUME IInv, FollowType, AInv, NEW t \in Threads, ContinueSession(t), ~Enter(t), ~Meet(t),
           NEW u \in Users \ overlapped'
    PROVE  OneAtATime(u)' /\ CurrentIsSet(u)'
  <1> CacheType /\ ThreadOwn /\ thread \in [Threads -> ThreadRecord(Len(infos))]
    BY Known
  <1>1. current' = current /\ overlapped' = overlapped
    BY OtherFollow DEF followVars
  <1>2. OneAtATime(u) /\ CurrentIsSet(u)
    BY <1>1 DEF AInv
  <1>3. \A x \in Workers : thread[x].uid = u /\ thread[x].pc \in {"clear_leave", "meet"} =>
            infos[thread[x].info].session = thread[x].session
    BY <1>2 DEF OneAtATime
  <1>4. CASE Join(t)
    <2>1. /\ t \in Workers /\ thread[t].uid \in Users
          /\ infos'[thread[t].info].session = thread[t].session
          /\ \A i \in 1 .. Len(infos) :
               infos[i].user # thread[t].uid => infos'[i].session = infos[i].session
      BY <1>4, SetsOwn
    <2>2. /\ thread[t].pc = "join" /\ user_infos_map' = user_infos_map
          /\ thread' = [thread EXCEPT ![t].pc = "clear_leave"]
      BY <1>4 DEF Join, Goto
    <2>3. /\ thread'[t] = [thread[t] EXCEPT !.pc = "clear_leave"]
          /\ \A x \in Workers : x # t => thread'[x] = thread[x]
      BY <2>2 DEF Threads
    <2>4. /\ thread'[t].uid = thread[t].uid /\ thread'[t].info = thread[t].info
          /\ thread'[t].session = thread[t].session /\ thread'[t].pc = "clear_leave"
      BY <2>3 DEF ThreadRecord
    <2>5. CASE thread[t].uid = u
      <3>1. \A x \in Workers : thread'[x].uid = u => x = t
        BY <1>2, <2>1, <2>3, <2>5 DEF OneAtATime
      <3>2. current[u] = NoSession
        BY <1>2, <2>1, <2>5 DEF OneAtATime
      <3> QED
        BY <1>1, <1>2, <2>1, <2>2, <2>4, <3>1, <3>2, QuietStep DEF Asking
    <2>6. CASE thread[t].uid # u
      <3>1. \A x \in Workers : thread'[x].uid = u => thread'[x] = thread[x]
        BY <2>3, <2>4, <2>6
      <3>2. \A x \in Workers : thread[x].uid = u /\ thread[x].pc \in {"clear_leave", "meet"} =>
                infos'[thread[x].info].session = thread[x].session
        BY <1>3, <2>1, <2>6, OwnInfo DEF Asking
      <3>3. user_infos_map[u] # 0 =>
                infos'[user_infos_map[u]].session = infos[user_infos_map[u]].session
        BY <2>1, <2>6, OwnInfo
      <3> QED
        BY <1>1, <1>2, <2>2, <3>1, <3>2, <3>3, QuietStep
    <2> QED
      BY <2>5, <2>6
  <1>5. CASE LoginUser(t)
    <2>1. /\ t \in Workers /\ thread[t].pc = "login_user" /\ thread[t].uid \in Users
          /\ UNCHANGED infos
          /\ AddUserInfos(thread[t].uid, thread[t].info)
          /\ thread' = [thread EXCEPT ![t].pc = "login_socket"]
      BY <1>5 DEF LoginUser, Goto, ThreadOwn, Owns, Threads
    <2>6. /\ user_infos_map \in [Users -> 0 .. Len(infos)] /\ Len(infos) \in Nat
          /\ thread[t].info \in 0 .. Len(infos)
      BY DEF CacheType, ThreadRecord
    <2>7. \A v \in Users \ {thread[t].uid} : user_infos_map'[v] \in {0, user_infos_map[v]}
      BY <2>1, <2>6, Added
    <2>2. /\ thread'[t] = [thread[t] EXCEPT !.pc = "login_socket"]
          /\ \A x \in Workers : x # t => thread'[x] = thread[x]
      BY <2>1 DEF Threads
    <2>3. thread'[t].uid = thread[t].uid /\ thread'[t].pc = "login_socket"
      BY <2>2 DEF ThreadRecord
    <2>4. CASE thread[t].uid = u
      <3>1. \A x \in Workers : thread'[x].uid = u => x = t
        BY <1>2, <2>1, <2>2, <2>4 DEF OneAtATime
      <3>2. current'[u] = NoSession
        BY <1>1, <1>2, <2>1, <2>4 DEF OneAtATime
      <3> QED
        BY <2>3, <3>1, <3>2 DEF OneAtATime, CurrentIsSet, Asking
    <2>5. CASE thread[t].uid # u
      <3>1. user_infos_map'[u] \in {0, user_infos_map[u]}
        BY <2>5, <2>7
      <3>2. \A x \in Workers : thread'[x].uid = u => thread'[x] = thread[x]
        BY <2>2, <2>3, <2>5
      <3> QED
        BY <1>1, <1>2, <1>3, <2>1, <3>1, <3>2, QuietStep
    <2> QED
      BY <2>4, <2>5
  <1>6. CASE ~Join(t) /\ ~LoginUser(t)
    <2>1. UNCHANGED infos
      BY <1>6
      DEF ContinueSession, Continue, LoginSocket, AskFirst, Invite, AskSecond, ClearLeave,
          EnterGroup, QuitSocket, ClearMeeting, ClearUser, EraseUser, AberrantSocket, cacheVars
    <2>2. user_infos_map'[u] \in {0, user_infos_map[u]}
      <3>1. CASE EraseUser(t)
        <4>1. /\ DelUserInos(thread[t].uid) /\ thread[t].uid \in Users
              /\ user_infos_map \in [Users -> 0 .. Len(infos)] /\ Len(infos) \in Nat
          BY <3>1 DEF EraseUser, ThreadOwn, Owns, CacheType
        <4> QED
          BY <4>1, Erased
      <3>2. CASE ~EraseUser(t)
        BY <1>6, <3>2
        DEF ContinueSession, Continue, LoginSocket, AskFirst, Invite, AskSecond, ClearLeave,
            EnterGroup, QuitSocket, ClearMeeting, ClearUser, AberrantSocket, cacheVars
      <3> QED
        BY <3>1, <3>2
    <2>3. ASSUME NEW x \in Workers, thread'[x].uid = u
          PROVE  /\ thread[x].uid = u
                 /\ thread'[x].pc \in Asking =>
                      thread[x].pc \in Asking /\ thread'[x].info = thread[x].info
                 /\ thread'[x].pc \in {"clear_leave", "meet"} =>
                      infos'[thread'[x].info].session = thread'[x].session
      <3> x \in Threads /\ thread[x] \in ThreadRecord(Len(infos))
        BY DEF Threads
      <3>1. CASE thread'[x] = thread[x]
        BY <1>3, <2>1, <2>3, <3>1
      <3>2. CASE x = t
        <4>1. CASE Done(t)
          BY <2>3, <3>2, <4>1, SessionAssumption DEF Done, Idle, SessionAssumption
        <4>2. CASE LoginSocket(t) \/ EraseUser(t)
          BY <4>1, <4>2 DEF LoginSocket, EraseUser
        <4>3. ASSUME NEW pc \in {"enter", "clear_meeting", "clear_user", "erase"},
                     Goto(t, pc),
                     pc = "enter" => thread[t].pc \in {"invite", "group"}
              PROVE  /\ thread[x].uid = u
                     /\ thread'[x].pc \in Asking =>
                          thread[x].pc \in Asking /\ thread'[x].info = thread[x].info
                     /\ thread'[x].pc \notin {"clear_leave", "meet"}
          BY <2>3, <3>2, <4>3 DEF Goto, ThreadRecord, Asking
        <4>4. CASE \/ Invite(t) \/ EnterGroup(t) \/ QuitSocket(t) \/ ClearMeeting(t)
                   \/ ClearUser(t)
          BY <4>3, <4>4 DEF Invite, EnterGroup, QuitSocket, ClearMeeting, ClearUser
        <4>5. CASE AskFirst(t) \/ AskSecond(t)
          BY <2>3, <3>2, <4>5 DEF AskFirst, AskSecond, ThreadRecord, Asking
        <4>6. CASE ClearLeave(t)
          <5>1. /\ thread[x].pc = "clear_leave"
                /\ thread'[x] = [thread[x] EXCEPT !.pc = "meet"]
            BY <3>2, <4>6 DEF ClearLeave, Goto
          <5>2. /\ thread'[x].uid = thread[x].uid /\ thread'[x].info = thread[x].info
                /\ thread'[x].session = thread[x].session /\ thread'[x].pc = "meet"
            BY <5>1 DEF ThreadRecord
          <5> QED
            BY <1>3, <2>1, <2>3, <5>1, <5>2 DEF Asking
        <4>7. t # Network
          BY <3>2, SessionAssumption DEF SessionAssumption
        <4> QED
          BY <1>6, <4>2, <4>4, <4>5, <4>6, <4>7 DEF ContinueSession, Continue
      <3>3. x = t \/ thread'[x] = thread[x]
        BY <1>6
        DEF ContinueSession, Continue, LoginSocket, AskFirst, Invite, AskSecond, ClearLeave,
            EnterGroup, QuitSocket, ClearMeeting, ClearUser, EraseUser, AberrantSocket, Goto, Done
      <3> QED
        BY <3>1, <3>2, <3>3
    <2> QED
      BY <1>1, <1>2, <2>1, <2>2, <2>3, QuietStep
  <1> QED
    BY <1>4, <1>5, <1>6

\* Every step keeps the session of a user to the one it was last told.
LEMMA NextAInv == MInv /\ AInv /\ [MessageNext]_messageVars => AInv'
  <1> SUFFICES ASSUME MInv, AInv, [MessageNext]_messageVars PROVE AInv'
    OBVIOUS
  <1> IInv /\ FollowType
    BY DEF MInv, FInv, TInv
  <1>1. SUFFICES ASSUME NEW u \in Users \ overlapped'
                 PROVE  OneAtATime(u)' /\ CurrentIsSet(u)'
    BY DEF AInv
  <1>2. ASSUME UNCHANGED <<infos, user_infos_map, followVars>>,
               \A x \in Workers : thread'[x] = thread[x]
        PROVE  OneAtATime(u)' /\ CurrentIsSet(u)'
    BY <1>2 DEF AInv, OneAtATime, CurrentIsSet, followVars
  <1>3. ASSUME NEW x \in Sockets, Close(x), UNCHANGED followVars
        PROVE  OneAtATime(u)' /\ CurrentIsSet(u)'
    <2>1. ASSUME NEW y \in Workers PROVE thread'[y] = thread[y]
      <3>1. y # Network
        BY SessionAssumption DEF SessionAssumption
      <3> QED
        BY <1>3, <3>1, Known DEF Close, Threads
    <2>2. UNCHANGED <<infos, user_infos_map>>
      BY <1>3 DEF Close, cacheVars
    <2> QED
      BY <1>2, <1>3, <2>1, <2>2
  <1>4. ASSUME NEW a \in Users, NEW x \in Sockets, Connect(a, x), UNCHANGED followVars
        PROVE  OneAtATime(u)' /\ CurrentIsSet(u)'
    BY <1>2, <1>4 DEF Connect, cacheVars
  <1>5. ASSUME NEW t \in Workers, BeginMail(t) \/ ContinueMail(t)
        PROVE  OneAtATime(u)' /\ CurrentIsSet(u)'
    BY <1>2, <1>5, MailSteps DEF TakesMail, vars, cacheVars
  <1>6. CASE UNCHANGED messageVars
    BY <1>2, <1>6 DEF messageVars, vars, cacheVars
  <1> QED
    BY <1>3, <1>4, <1>5, <1>6, BeginOne, AnswerOne, ContinueOne DEF MessageNext

\* No client has been told a session at first.
LEMMA InitAInv == Init /\ MailInit => AInv
  BY SessionAssumption
  DEF Init, CacheInit, MailInit, AInv, OneAtATime, CurrentIsSet, Idle, Threads, SessionAssumption

\* With OnGetUserInfo's answers: the session set for a user is the one its
\* client was told last, as long as its packets are handled one at a time.
THEOREM AwayInvariance == MessageSpec => [](MInv /\ CInv /\ AInv)
  <1>1. Init /\ MailInit => MInv /\ CInv /\ AInv
    BY InitMInv, InitCInv, InitAInv
  <1>2. (MInv /\ CInv /\ AInv) /\ [MessageNext]_messageVars => (MInv /\ CInv /\ AInv)'
    BY NextMInv, NextCInv, NextAInv
  <1> QED
    BY <1>1, <1>2, PTL DEF MessageSpec

\* OnMessage leaves a message of one it looked up only for a receiver who is away.
LEMMA LeftStep ==
    ASSUME MInv, CInv, AInv, MessageNext, NEW t \in Workers,
           sending[t].pc = "compare", sending[t].id \in offline' \ offline
    PROVE  \/ current[sending[t].to] # sending[t].session
           \/ sending[t].to \in overlapped
           \/ user_infos_map[sending[t].to] # sending[t].info
  <1> MailType /\ RightMail(t)
    BY DEF MInv, MailRight
  <1>1. PICK x \in Workers : /\ LookupAway(x) \/ Compare(x)
                             /\ offline' = offline \cup {sending[x].id}
    BY MailWriters DEF LookupAway, Compare
  <1>2. sending[x].id = sending[t].id /\ UnderWay(x) /\ UnderWay(t)
    BY <1>1 DEF UnderWay, LookupAway, Compare
  <1>3. x = t
    BY <1>2 DEF CInv
  <1>4. Compare(t)
    BY <1>1, <1>3 DEF LookupAway
  <1>5. infos[sending[t].info].session # sending[t].session
    BY <1>4 DEF Compare
  <1>6. sending[t].to \in Users /\ sending[t].info # 0 /\ sending[t].session # NoSession
    BY CacheAssumption DEF RightMail, CacheAssumption
  <1> QED
    BY <1>5, <1>6 DEF AInv, CurrentIsSet

\* The mismatch OnMessage finds after the look-up means that the receiver is
\* away, has had two packets handled at once, or has signed in again.
THEOREM MessagesAreLeftForTheAway == MessageSpec => LeftOnlyIfAway
  <1>1. (MInv /\ CInv /\ AInv) /\ [MessageNext]_messageVars =>
          [\A t \in Workers :
             (sending[t].pc = "compare" /\ sending[t].id \in offline' \ offline)
               => \/ current[sending[t].to] # sending[t].session
                  \/ sending[t].to \in overlapped
                  \/ user_infos_map[sending[t].to] # sending[t].info]_messageVars
    BY LeftStep
  <1> QED
    BY <1>1, AwayInvariance, PTL DEF MessageSpec, LeftOnlyIfAway

-----------------------------------------------------------------------------
(* The properties of ChatMessage, and those of ChatSession with messages *)

\* OnMessage checks the receiver's session after the look-up: still a private
\* message reaches only a client that was told its session for the sender, or
\* is being told (OnGetUserInfo), unless the descriptor is that of another user.
THEOREM PrivateMailStaysPrivate == MessageSpec => []PrivateMail
  <1>1. MInv => PrivateMail
    BY DEF MInv
  <1> QED
    BY <1>1, MessageInvariance, PTL

\* OnGroupMessage and OnGroupSound reach only clients that OnGetGroupInfo told
\* the group, or is telling it.
THEOREM MembersAreToldBeforeMail == MessageSpec => []ToldBeforeMail
  <1>1. MInv => ToldBeforeMail
    BY DEF MInv
  <1> QED
    BY <1>1, MessageInvariance, PTL

\* OnConfirmMessage's DelConfirmMessage is final unless it came before the
\* AddConfirmMessage at the end of OnMessage.
THEOREM ConfirmationsAreFinal == MessageSpec => []ConfirmedIsForgotten
  <1>1. MInv /\ CInv => ConfirmedIsForgotten
    BY DEF CInv
  <1> QED
    BY <1>1, ConfirmInvariance, PTL

\* With messages beside them, OnGetUserInfo and OnQuitSession still keep a
\* private session in its pair.
THEOREM SessionsStayPrivate == MessageSpec => []ExclusiveSession
  <1>1. MInv => ExclusiveSession
    BY DEF MInv, FInv, TInv, IInv
  <1> QED
    BY <1>1, MessageInvariance, PTL

\* With messages beside them, OnGetUserInfo and OnGetGroupInfo still tell every
\* member its session.
THEOREM EveryMemberIsTold == MessageSpec => []MembersTold
  <1>1. MInv => MembersTold
    BY DEF MInv, FInv, TInv
  <1> QED
    BY <1>1, MessageInvariance, PTL

\* Messages do not touch who is online.
LEMMA MessageGInv == GInv /\ [MessageNext]_messageVars => GInv'
  <1> SUFFICES ASSUME GInv, [MessageNext]_messageVars PROVE GInv'
    OBVIOUS
  <1>1. CASE [Next]_vars
    BY <1>1, NextGInv
  <1>2. CASE TakesMail
    <2>1. UNCHANGED <<infos, user_infos_map, socket_infos_map, leave_infos_map,
                      meeting_infos_map, conn, packets, told, pair, late, torn, thread>>
      BY <1>2 DEF TakesMail, cacheVars, historyVars
    <2>2. handled \in 0 .. MaxPackets => handled' \in 0 .. MaxPackets
      BY <1>2, SessionAssumption DEF TakesMail, SessionAssumption
    <2>3. TypeOK'
      BY <2>1, <2>2 DEF GInv, IInv, TypeOK
    <2>4. (OwnEntry /\ PairOfTwo /\ ThreadOwn /\ ThreadSession /\ ExclusiveSession)'
      BY <2>1 DEF GInv, IInv, OwnEntry, PairOfTwo, ThreadOwn, Owns, ThreadSession, Carries,
                  ExclusiveSession
    <2>5. SignInSocket' /\ EndFinds'
      BY <2>1 DEF GInv, SignInSocket, EndFinds
    <2>6. Present'
      BY <2>1 DEF GInv, Present, InHand, WillEnd, Clearing
    <2> QED
      BY <2>3, <2>4, <2>5, <2>6 DEF GInv, IInv
  <1>3. CASE UNCHANGED messageVars
    <2>1. UNCHANGED vars
      BY <1>3 DEF messageVars
    <2> QED
      BY <2>1, NextGInv
  <1> QED
    BY <1>1, <1>2, <1>3, SessionSteps

\* With messages beside them, too, only a late packet or two deletions at once
\* leave a user online whose connection is gone (OnAberrant, ClearUserinfo).
THEOREM GhostsAreStillLate == MessageSpec => []GhostOnlyAfterLatePacket
  <1>1. GInv => GhostOnlyAfterLatePacket
    BY DEF GInv, Present, InHand, WillEnd, GhostOnlyAfterLatePacket
  <1> QED
    BY <1>1, InitGInv, MessageGInv, PTL DEF MessageSpec
=============================================================================
