------------------------------ MODULE ConnLife ------------------------------
(***************************************************************************)
(* What the core promises to the plugins about a connection: they are told *)
(* of it once, after its descriptor is open, told of its end once, and     *)
(* until then the descriptor is not closed, so no other socket, file or    *)
(* database handle of the process can have the same number.                *)
(***************************************************************************)
CONSTANT Fds   \* descriptors

VARIABLES open,   \* descriptors of connections
          told,   \* those the plugins have been told of
          over    \* those whose end they have been told of

vars == <<open, told, over>>

Init ==
    /\ open = {}
    /\ told = {}
    /\ over = {}

Open(fd) ==
    /\ fd \notin open
    /\ open' = open \cup {fd}
    /\ UNCHANGED <<told, over>>

\* connection
Tell(fd) ==
    /\ fd \in open \ (told \cup over)
    /\ told' = told \cup {fd}
    /\ UNCHANGED <<open, over>>

\* connection_close
TellEnd(fd) ==
    /\ fd \in told
    /\ told' = told \ {fd}
    /\ over' = over \cup {fd}
    /\ UNCHANGED open

Close(fd) ==
    /\ fd \in over
    /\ open' = open \ {fd}
    /\ over' = over \ {fd}
    /\ UNCHANGED told

Next == \E fd \in Fds : Open(fd) \/ Tell(fd) \/ TellEnd(fd) \/ Close(fd)

Spec == Init /\ [][Next]_vars

-----------------------------------------------------------------------------

\* A descriptor the plugins hold is that of an open connection, and its end
\* has not been told (plugins_call_connection to plugins_call_connection_close).
ToldIsOpen == told \cup over \subseteq open /\ told \cap over = {}
=============================================================================
