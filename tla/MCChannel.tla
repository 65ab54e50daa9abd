------------------------------ MODULE MCChannel ------------------------------
(* Model checking the channel table: see the .cfg files for the instances. *)
EXTENDS Channel, TLC

ReqSymmetry == Permutations(Req)
==============================================================================
