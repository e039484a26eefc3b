---------------------------- MODULE MCChatSession ----------------------------
(* ChatSession on small sets. Users, workers, sessions and sockets are       *)
(* interchangeable.                                                          *)
EXTENDS ChatSession, TLC

Symmetry == Permutations(Users) \cup Permutations(Workers)
            \cup Permutations(Sessions) \cup Permutations(Sockets)

\* Every user has connected, on a socket of its own, and signed in.
OnlineInit ==
    \E sock \in [Users -> Sockets], order \in [1 .. Cardinality(Users) -> Users] :
        /\ \A u, v \in Users : sock[u] = sock[v] => u = v
        /\ \A i, j \in DOMAIN order : order[i] = order[j] => i = j
        /\ infos = [i \in DOMAIN order |->
                      [user |-> order[i], socket |-> sock[order[i]], session |-> NoSession]]
        /\ user_infos_map = [u \in Users |-> CHOOSE i \in DOMAIN order : order[i] = u]
        /\ socket_infos_map = [s \in Sockets |->
                                 IF \E u \in Users : sock[u] = s
                                 THEN CHOOSE i \in DOMAIN order : sock[order[i]] = s ELSE 0]
        /\ conn = [s \in Sockets |->
                     IF \E u \in Users : sock[u] = s
                     THEN CHOOSE u \in Users : sock[u] = s ELSE Nobody]
        /\ packets = {<<u, sock[u]>> : u \in Users}
    /\ leave_infos_map = [u \in Users |-> NoInvitations]
    /\ meeting_infos_map = [s \in Sessions \cup Groups |-> {}]
    /\ handled = 0
    /\ told = [u \in Users |-> {}]
    /\ pair = [s \in Sessions |-> {}]
    /\ late = {} /\ torn = FALSE
    /\ thread = [t \in Threads |-> Idle]

\* Presence from the start of the server, and from when everybody is signed in.
PresenceSpec == (Init \/ OnlineInit) /\ [][Next]_vars

OnlineSpec == OnlineInit /\ [][Next]_vars
=============================================================================
