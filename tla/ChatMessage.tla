----------------------------- MODULE ChatMessage -----------------------------
(***************************************************************************)
(* Messages of the chat server (chat/chat/im_mgr.cc, file_mgr.cc), on top  *)
(* of the sign-ins and conversations of ChatSession. A worker handles one  *)
(* packet at a time, so a handler of a message and one of ChatSession run  *)
(* side by side on different workers and meet in the caches.               *)
(*                                                                         *)
(* A client sends in a session to the user, or the group, it was told the  *)
(* session for, and confirms a private message once. What is written to    *)
(* the database and the push queue is not read again by these handlers:    *)
(* only that a message was left for a user who is away is kept.            *)
(***************************************************************************)
EXTENDS ChatSession

VARIABLES sending,             \* the message each worker handles
          received,            \* messages that reached a client
          offline,             \* ids of messages left for a user who is away
          confirm_message_map, \* ids of messages whose confirmation is expected
          confirmed,           \* ids whose confirmation was handled
          early,               \* history: confirmed before it was expected
          partner,             \* whom a user's client was told a session for
          current,             \* history: the session a user was last told,
                               \* NoSession once it asks for something else
          overlapped           \* history: users two of whose packets were
                               \* handled at once

mailVars == <<sending, received, offline, confirm_message_map, confirmed, early>>
followVars == <<partner, current, overlapped>>
messageVars == <<vars, mailVars, followVars>>

NoMail == [pc |-> "idle", from |-> Nobody, to |-> Nobody, session |-> NoSession,
           id |-> 0, info |-> 0]

GotoMail(t, pc) == sending' = [sending EXCEPT ![t].pc = pc]
DoneMail(t)     == sending' = [sending EXCEPT ![t] = NoMail]

\* A worker that handles no packet takes a message of uid's.
TakeMail(t, uid, socket) ==
    /\ sending[t] = NoMail
    /\ Take(t, uid, socket)
    /\ UNCHANGED <<cacheVars, historyVars, thread, followVars>>

\* What is sent on the sockets of these UserInfos is read at their other end.
Arrive(t, targets) ==
    received' = received \cup
        {[id |-> sending[t].id, from |-> sending[t].from, session |-> sending[t].session,
          socket |-> infos[i].socket, client |-> conn[infos[i].socket]] :
            i \in {j \in targets : conn[infos[j].socket] # Nobody}}

-----------------------------------------------------------------------------
(* OnMessage *)

\* The sender is looked up first; one who is not online is refused.
Message(t, from, socket, to, session) ==
    /\ TakeMail(t, from, socket)
    /\ partner[from][session] = to
    /\ user_infos_map[from] # 0
    /\ sending' = [sending EXCEPT ![t] =
                     [NoMail EXCEPT !.pc = "lookup", !.from = from, !.to = to,
                                    !.session = session, !.id = handled + 1]]
    /\ UNCHANGED <<received, offline, confirm_message_map, confirmed, early>>

\* The receiver is not online, or is not found because its look-up meets a
\* deletion in the map: the message is left for it and pushed.
LookupAway(t) ==
    /\ sending[t].pc = "lookup"
    /\ user_infos_map[sending[t].to] = 0 \/ Erasing # {}
    /\ offline' = offline \cup {sending[t].id}
    /\ DoneMail(t)
    /\ UNCHANGED <<vars, received, confirm_message_map, confirmed, early, followVars>>

Lookup(t) ==
    /\ sending[t].pc = "lookup"
    /\ user_infos_map[sending[t].to] # 0
    /\ sending' = [sending EXCEPT ![t].pc = "compare",
                                  ![t].info = user_infos_map[sending[t].to]]
    /\ UNCHANGED <<vars, received, offline, confirm_message_map, confirmed, early,
                   followVars>>

\* Fault: the session of the message is compared with the sender's.
CompareFault(t) ==
    /\ sending[t].pc = "compare"
    /\ user_infos_map[sending[t].from] # 0
    /\ IF infos[user_infos_map[sending[t].from]].session = sending[t].session
       THEN GotoMail(t, "send") /\ UNCHANGED offline
       ELSE DoneMail(t) /\ offline' = offline \cup {sending[t].id}
    /\ UNCHANGED <<vars, received, confirm_message_map, confirmed, early, followVars>>

\* The receiver's session is read after the lock of the look-up was released.
Compare(t) ==
    /\ sending[t].pc = "compare"
    /\ IF infos[sending[t].info].session = sending[t].session
       THEN GotoMail(t, "send") /\ UNCHANGED offline
       ELSE DoneMail(t) /\ offline' = offline \cup {sending[t].id}
    /\ UNCHANGED <<vars, received, confirm_message_map, confirmed, early, followVars>>

SendPrivate(t) ==
    /\ sending[t].pc = "send"
    /\ Arrive(t, {sending[t].info})
    /\ GotoMail(t, "expect")
    /\ UNCHANGED <<vars, offline, confirm_message_map, confirmed, early, followVars>>

AddConfirmMessage(t) ==
    /\ sending[t].pc = "expect" /\ Erasing = {}
    /\ confirm_message_map' = confirm_message_map \cup {sending[t].id}
    /\ DoneMail(t)
    /\ UNCHANGED <<vars, received, offline, confirmed, early, followVars>>

-----------------------------------------------------------------------------
(* OnConfirmMessage *)

\* Fault: the entry of another message is erased.
DelConfirmMessageFault(id) == confirm_message_map' = confirm_message_map \ {id + 1}

DelConfirmMessage(id) == confirm_message_map' = confirm_message_map \ {id}

\* The sender is then told of the confirmation, which changes nothing here.
Confirm(t, uid, socket) ==
    /\ TakeMail(t, uid, socket)
    /\ Erasing = {}
    /\ \E m \in received :
         /\ m.client = uid /\ m.session \in Sessions /\ m.id \notin confirmed
         /\ DelConfirmMessage(m.id)
         /\ confirmed' = confirmed \cup {m.id}
         /\ early' = IF m.id \in confirm_message_map THEN early ELSE early \cup {m.id}
    /\ UNCHANGED <<sending, received, offline>>

-----------------------------------------------------------------------------
(* OnGroupMessage, OnGroupSound and OnUserGroupOnline *)

\* A client sends to a group it was told. A message is refused unless the
\* sender is online; a sound is not. The notice that a member is online takes
\* the path of a message when CheckMeetingInfos finds the member.
GroupMessage(t, from, socket, group, pc) ==
    /\ TakeMail(t, from, socket)
    /\ group \in told[from]
    /\ pc = "not_self" => user_infos_map[from] # 0
    /\ sending' = [sending EXCEPT ![t] =
                     [NoMail EXCEPT !.pc = pc, !.from = from, !.session = group,
                                    !.id = handled + 1]]
    /\ UNCHANGED <<received, offline, confirm_message_map, confirmed, early>>

\* The UserInfos a meeting's message goes to, found under one lock for reading.
Online(members) == {user_infos_map[u] : u \in members} \ {0}

\* A deletion in the map at the same time may hide some of them.
ArriveOnline(t, members) ==
    \E found \in SUBSET Online(members) :
        /\ Erasing = {} => found = Online(members)
        /\ Arrive(t, found)

\* Messages reach the other members.
SendMeetingNotSelf(t) ==
    /\ sending[t].pc = "not_self"
    /\ ArriveOnline(t, Members(sending[t].session) \ {sending[t].from})
    /\ DoneMail(t)
    /\ UNCHANGED <<vars, offline, confirm_message_map, confirmed, early, followVars>>

\* Fault: everybody who is online is sent the sound.
SendMeetingMessageFault(t) ==
    /\ sending[t].pc = "sound"
    /\ ArriveOnline(t, Users)
    /\ DoneMail(t)
    /\ UNCHANGED <<vars, offline, confirm_message_map, confirmed, early, followVars>>

\* Sounds reach every member, the sender too.
SendMeetingMessage(t) ==
    /\ sending[t].pc = "sound"
    /\ ArriveOnline(t, Members(sending[t].session))
    /\ DoneMail(t)
    /\ UNCHANGED <<vars, offline, confirm_message_map, confirmed, early, followVars>>

-----------------------------------------------------------------------------
(* With the steps of ChatSession *)

Began    == {t \in Workers : thread[t] = Idle /\ thread'[t] # Idle}
Answered == {t \in Workers : thread[t].pc \in {"enter", "meet"} /\ thread'[t] = Idle}

Asks(u) == {thread[t] : t \in {w \in Answered : thread[w].uid = u}}

\* What the clients have asked for and been told: an answer names the user (or
\* group) asked for and the session.
Follow ==
    /\ partner' = [u \in Users |-> [s \in Sessions |->
         IF \E ask \in Asks(u) : ask.session = s
         THEN (CHOOSE ask \in Asks(u) : TRUE).opp ELSE partner[u][s]]]
    /\ current' = [u \in Users |->
         IF Asks(u) # {} THEN (CHOOSE ask \in Asks(u) : TRUE).session
         ELSE IF \E t \in Began : thread'[t].uid = u THEN NoSession ELSE current[u]]
    /\ overlapped' = overlapped \cup
         {u \in Users : \E t \in Began, other \in Workers :
                          t # other /\ thread'[t].uid = u /\ thread[other].uid = u}

BeginSession(t) ==
    /\ sending[t] = NoMail
    /\ Begin(t)
    /\ Follow
    /\ UNCHANGED mailVars

ContinueSession(t) ==
    /\ Continue(t)
    /\ Follow
    /\ UNCHANGED mailVars

BeginMail(t) ==
    \E uid \in Users, socket \in Sockets :
        \/ \E to \in Users \ {uid}, session \in Sessions :
             Message(t, uid, socket, to, session)
        \/ Confirm(t, uid, socket)
        \/ \E group \in Groups, pc \in {"not_self", "sound"} :
             GroupMessage(t, uid, socket, group, pc)

ContinueMail(t) ==
    \/ LookupAway(t) \/ Lookup(t) \/ Compare(t) \/ SendPrivate(t) \/ AddConfirmMessage(t)
    \/ SendMeetingNotSelf(t) \/ SendMeetingMessage(t)

MailInit ==
    /\ sending = [t \in Workers |-> NoMail]
    /\ received = {} /\ offline = {}
    /\ confirm_message_map = {} /\ confirmed = {} /\ early = {}
    /\ partner = [u \in Users |-> [s \in Sessions |-> Nobody]]
    /\ current = [u \in Users |-> NoSession]
    /\ overlapped = {}

MessageNext ==
    \/ \E uid \in Users, socket \in Sockets :
         Connect(uid, socket) /\ UNCHANGED <<mailVars, followVars>>
    \/ \E socket \in Sockets : Close(socket) /\ UNCHANGED <<mailVars, followVars>>
    \/ \E t \in Workers : BeginSession(t)
    \/ \E t \in Threads : ContinueSession(t)
    \/ \E t \in Workers : BeginMail(t)
    \/ \E t \in Workers : ContinueMail(t)

MessageSpec == Init /\ MailInit /\ [][MessageNext]_messageVars

-----------------------------------------------------------------------------
(* Properties *)

\* Two users have been on the socket.
Reused(socket) ==
    \E u, v \in Users : u # v /\ {<<u, socket>>, <<v, socket>>} \subseteq packets

\* The handler of an ask that will tell uid's client the session is running.
BeingTold(uid, session) ==
    {thread[t].opp : t \in {w \in Workers :
         /\ thread[w].pc \in {"enter", "clear_leave", "meet"}
         /\ thread[w].uid = uid /\ thread[w].session = session}}

\* OnMessage asks of the receiver only that its current session is the
\* message's. Still a private message reaches only a client that was told the
\* session for its conversation with the sender, or is about to be
\* (OnGetUserInfo sets the session some calls before it answers), however asks,
\* quits, sign-ins and messages interleave. Only the reuse of the receiver's
\* descriptor, between its look-up and the send or with a stale entry, can take
\* a message elsewhere.
PrivateMail ==
    \A m \in received :
        m.session \in Sessions =>
            m.from \in {partner[m.client][m.session]} \cup BeingTold(m.client, m.session)
              \/ Reused(m.socket)

\* A group's message reaches a client only when it has been told that it is in
\* the group, or while the handler that tells it runs: OnGetGroupInfo enters the
\* group before the client is answered, and a member who quits a group of three
\* stays in it.
ToldBeforeMail ==
    \A m \in received :
        m.session \in Groups =>
            \/ m.session \in told[m.client]
            \/ BeingTold(m.client, m.session) # {}
            \/ Reused(m.socket)

\* A message is left in the database as for another conversation only if the
\* receiver is not, by what its client knows, in that session: OnMessage finds
\* a mismatch when the client has asked for something else since it was told,
\* when two packets of the receiver were handled at once (the answers and the
\* session set may then come from different ones), or when the entry looked up
\* has been replaced by a new sign-in.
LeftOnlyIfAway ==
    [][\A t \in Workers :
         (sending[t].pc = "compare" /\ sending[t].id \in offline' \ offline)
           => \/ current[sending[t].to] # sending[t].session
              \/ sending[t].to \in overlapped
              \/ user_infos_map[sending[t].to] # sending[t].info]_messageVars

\* A message that was confirmed is no longer expected to be, unless the
\* confirmation was handled between the send of the message and the
\* AddConfirmMessage after it: then its entry stays for good.
ConfirmedIsForgotten == confirm_message_map \cap confirmed \subseteq early
=============================================================================
