---------------------------- MODULE MCSongCache ----------------------------
(* SongCache with workers and songs that may change places. *)
EXTENDS SongCache, TLC

MCSymmetry == Permutations(Workers) \cup Permutations(Songs)
=============================================================================
