---------------------------- MODULE MCEchoReceive ----------------------------
(* EchoReceive with a 5-byte block and a 2-byte header: packets that fit in  *)
(* a block, that straddle two and that run over three, and two that announce  *)
(* less than their header and just their header.                             *)
EXTENDS EchoReceive

MCSizes == {1, 2, 3, 4, 9}
=============================================================================
