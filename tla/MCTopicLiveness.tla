-------------------------- MODULE MCTopicLiveness --------------------------
(* The requested topics are interchangeable when all of them are steady.   *)
EXTENDS TopicLiveness, TLC

Symmetry == Permutations(Topics \ Builtin)
=============================================================================
