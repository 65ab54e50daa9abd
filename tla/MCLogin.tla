------------------------------- MODULE MCLogin -------------------------------
(* Instances of Login, see the .cfg files. *)
EXTENDS Login
==============================================================================
