---------------------------- MODULE MCTopicClean ----------------------------
(* A topic of two partitions, or of one.                                     *)
EXTENDS TopicClean, TLC
=============================================================================
