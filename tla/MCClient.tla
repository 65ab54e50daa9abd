------------------------------- MODULE MCClient -------------------------------
(* Model of Client for TLC; the configurations give the bounds. *)
EXTENDS Client

(* The state without what is on the screen's last line: no step depends on it *)
Undrawn ==
    <<[app EXCEPT !.drawn = "OFFLINE"], ses, list, thread, main, after, fault, pcmVars>>
===============================================================================
