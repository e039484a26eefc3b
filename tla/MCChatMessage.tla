---------------------------- MODULE MCChatMessage ----------------------------
(* ChatMessage on small sets.                                                *)
EXTENDS MCChatSession, ChatMessage

\* Everybody is signed in, first has asked for second and then second for
\* first: they talk in session. What first left for second is still there.
TalkingInit ==
    \E first, second \in Users, session \in Sessions,
       sock \in [Users -> Sockets], at \in [Users -> 1 .. Cardinality(Users)] :
        LET pals == {first, second}
        IN  /\ first # second
            /\ \A u, v \in Users : u # v => sock[u] # sock[v] /\ at[u] # at[v]
            /\ infos = [i \in 1 .. Cardinality(Users) |->
                          LET u == CHOOSE v \in Users : at[v] = i
                          IN  [user |-> u, socket |-> sock[u],
                               session |-> IF u \in pals THEN session ELSE NoSession]]
            /\ at[first] = 1 /\ at[second] = 2
            /\ user_infos_map = at
            /\ socket_infos_map = [s \in Sockets |->
                  IF \E u \in Users : sock[u] = s
                  THEN at[CHOOSE u \in Users : sock[u] = s] ELSE 0]
            /\ conn = [s \in Sockets |->
                  IF \E u \in Users : sock[u] = s
                  THEN CHOOSE u \in Users : sock[u] = s ELSE Nobody]
            /\ packets = {<<u, sock[u]>> : u \in Users}
            /\ leave_infos_map = [u \in Users |->
                  IF u = second THEN [NoInvitations EXCEPT ![first] = session]
                  ELSE NoInvitations]
            /\ meeting_infos_map = [s \in Sessions \cup Groups |->
                                      IF s = session THEN pals ELSE {}]
            /\ told = [u \in Users |-> IF u \in pals THEN {session} ELSE {}]
            /\ pair = [s \in Sessions |-> IF s = session THEN pals ELSE {}]
            /\ partner = [u \in Users |-> [s \in Sessions |->
                  IF s = session /\ u \in pals THEN CHOOSE v \in pals : v # u ELSE Nobody]]
            /\ current = [u \in Users |-> IF u \in pals THEN session ELSE NoSession]
            /\ handled = 0 /\ late = {} /\ torn = FALSE /\ overlapped = {}
            /\ thread = [t \in Threads |-> Idle]
            /\ sending = [t \in Workers |-> NoMail]
            /\ received = {} /\ offline = {}
            /\ confirm_message_map = {} /\ confirmed = {} /\ early = {}

\* No descriptor is reused. A connection that ends counts as a packet.
Left ==
    handled + Cardinality({s \in Sockets : conn[s] = Nobody \/ thread[Network].socket = s})
        < MaxPackets

TalkingNext ==
    \/ \E t \in Workers : Left /\ BeginSession(t)
    \/ \E t \in Workers : Left /\ BeginMail(t)
    \/ \E socket \in Sockets : Left /\ Close(socket) /\ UNCHANGED <<mailVars, followVars>>
    \/ \E t \in Threads : ContinueSession(t)
    \/ \E t \in Workers : ContinueMail(t)

TalkingSpec == TalkingInit /\ [][TalkingNext]_messageVars
=============================================================================
