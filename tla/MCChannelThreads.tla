--------------------------- MODULE MCChannelThreads ---------------------------
(* The channel list under one thread and under two. *)
EXTENDS ChannelThreads, TLC

NodeSymmetry == Permutations(Node)
==============================================================================
