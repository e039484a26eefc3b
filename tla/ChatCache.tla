------------------------------ MODULE ChatCache ------------------------------
(***************************************************************************)
(* The caches of the chat server (chat/chat/chat_cache_manager.cc) for one *)
(* platform: who is online and on which socket, the invitations left for   *)
(* users, and the members of every conversation. Each operator is the body *)
(* of one method of PlatformChatCacheManager or CacheManagerOp, which runs *)
(* under that object's lock: alone, but for DelUserInos, which erases      *)
(* while it holds the lock for reading only. Two of them at once leave the *)
(* tree of user_infos_map_ in any state. Followed of that is which entries *)
(* are still found; that a search of such a tree may not end, or the       *)
(* process crash, is not.                                                  *)
(*                                                                         *)
(* Copies of a UserInfo share one Data: set_session on the copy a handler  *)
(* took from user_infos_map_ is seen through both maps. A Data is made by  *)
(* one login, so it is named by the number of that login; 0 is no entry.   *)
(*                                                                         *)
(* A private session is a random 64-bit number, taken never to repeat and  *)
(* never to fit in 32 bits; the session of a group is the group's number.  *)
(***************************************************************************)
EXTENDS Integers, Sequences, FiniteSets

CONSTANTS Users, Sockets,
          Sessions,    \* private session ids: bounds how many are drawn
          Groups,      \* group ids, which are also their sessions
          NoSession    \* session 0

ASSUME CacheAssumption ==
    /\ NoSession \notin Sessions \cup Groups
    /\ Sessions \cap Groups = {}
    /\ IsFiniteSet(Users)

VARIABLES infos,               \* the UserInfo::Data made so far
          user_infos_map,
          socket_infos_map,
          leave_infos_map,     \* invitations: invited user -> inviter -> session
          meeting_infos_map,   \* session -> members
          torn                 \* user_infos_map_ was erased from by two threads at once

cacheVars == <<infos, user_infos_map, socket_infos_map, leave_infos_map, meeting_infos_map>>

AnySession == Sessions \cup Groups \cup {NoSession}
NoInvitations == [v \in Users |-> NoSession]

\* A session without an entry has no members.
Members(session) ==
    IF session = NoSession THEN {} ELSE meeting_infos_map[session]

-----------------------------------------------------------------------------
(* UserInfo *)

NewInfo(uid, socket) ==
    infos' = Append(infos, [user |-> uid, socket |-> socket, session |-> NoSession])

set_session(info, session) ==
    infos' = [infos EXCEPT ![info].session = session]

-----------------------------------------------------------------------------
(* Users and sockets *)

\* A change of user_infos_map, after which the entries of gone are not found.
\* Of a torn tree any others may go with it, or these stay.
Change(map, gone) ==
    \E lost \in IF torn THEN SUBSET Users ELSE {gone} :
        user_infos_map' = [u \in Users |-> IF u \in lost THEN 0 ELSE map[u]]

\* Fault: the entry names the UserInfo after the one just made.
AddUserInfosFault(uid, info) == Change([user_infos_map EXCEPT ![uid] = info + 1], {})

AddUserInfos(uid, info) == Change([user_infos_map EXCEPT ![uid] = info], {})

DelUserInos(uid) == Change(user_infos_map, {uid})

AddSocket(socket, info) ==
    socket_infos_map' = [socket_infos_map EXCEPT ![socket] = info]

DelSocket(socket) == socket_infos_map' = [socket_infos_map EXCEPT ![socket] = 0]

-----------------------------------------------------------------------------
(* Invitations *)

\* Fault: kept by inviter only, so found whoever asks for mid.
AddLeaveInfosOpenFault(session, tid, mid) ==
    leave_infos_map' =
       [u \in Users |-> [leave_infos_map[u] EXCEPT ![mid] = session]]

\* tid will find mid's session when it asks for mid.
AddLeaveInfos(session, tid, mid) ==
    leave_infos_map' = [leave_infos_map EXCEPT ![tid][mid] = session]

\* The session tid left for mid, NoSession if there is none.
IsExitsLeaveInfos(tid, mid) == leave_infos_map[mid][tid]

\* Everything left for tid, whoever left it.
ClearLeaveInfos(tid) ==
    leave_infos_map' = [leave_infos_map EXCEPT ![tid] = NoInvitations]

-----------------------------------------------------------------------------
(* Conversations *)

\* AddMeetingInfos of two users replaces the members of the session.
AddMeetingPair(session, tid, mid) ==
    meeting_infos_map' = [meeting_infos_map EXCEPT ![session] = {tid, mid}]

\* AddMeetingInfos of one user (groups only) adds it to them.
AddMeetingMember(session, uid) ==
    meeting_infos_map' = [meeting_infos_map EXCEPT ![session] = @ \cup {uid}]

\* Fault: the user who leaves is not told apart from the other.
DelMeetingInfosFault(session, uid) ==
    /\ meeting_infos_map' =
          IF Members(session) = {} THEN meeting_infos_map
          ELSE [meeting_infos_map EXCEPT ![session] = {}]
    /\ \E tid \in Members(session) \cup {uid} :
         leave_infos_map' =
            [leave_infos_map EXCEPT ![uid] = [NoInvitations EXCEPT ![tid] = session]]

\* uid leaves the session. Of three or more members, uid is erased from a copy
\* that is thrown away. Two members: the session ends and becomes the only
\* invitation uid has, from the other (from either, if uid was neither: the map
\* is ordered by user id). Otherwise: uid's invitations are erased.
DelMeetingInfos(session, uid) ==
    LET members == Members(session)
    IN  \/ /\ Cardinality(members) > 2
           /\ UNCHANGED <<meeting_infos_map, leave_infos_map>>
        \/ /\ Cardinality(members) = 2
           /\ meeting_infos_map' = [meeting_infos_map EXCEPT ![session] = {}]
           /\ \E tid \in members \ {uid} :
                leave_infos_map' =
                   [leave_infos_map EXCEPT ![uid] = [NoInvitations EXCEPT ![tid] = session]]
        \/ /\ Cardinality(members) < 2
           /\ leave_infos_map' = [leave_infos_map EXCEPT ![uid] = NoInvitations]
           /\ UNCHANGED meeting_infos_map

-----------------------------------------------------------------------------

CacheInit ==
    /\ infos = <<>>
    /\ user_infos_map = [u \in Users |-> 0]
    /\ socket_infos_map = [s \in Sockets |-> 0]
    /\ leave_infos_map = [u \in Users |-> NoInvitations]
    /\ meeting_infos_map = [s \in Sessions \cup Groups |-> {}]
    /\ torn = FALSE
=============================================================================
