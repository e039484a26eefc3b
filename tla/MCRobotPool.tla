---------------------------- MODULE MCRobotPool ----------------------------
(* Instances of RobotPool for TLC. *)
EXTENDS RobotPool, TLC

\* Users, robots and workers are interchangeable.
Symmetry == Permutations(Users) \cup Permutations(Robots) \cup Permutations(Workers)
                \cup Permutations(Sockets)
=============================================================================
