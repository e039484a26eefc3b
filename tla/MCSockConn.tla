----------------------------- MODULE MCSockConn -----------------------------
(* SockConn with three descriptors: a connection, another one, and a        *)
(* descriptor that a worker takes when its number becomes free.             *)
EXTENDS SockConn
=============================================================================
