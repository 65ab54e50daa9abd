------------------------------ MODULE MCRequest ------------------------------
(* Instances of Request, see the .cfg files. *)
EXTENDS Request
==============================================================================
