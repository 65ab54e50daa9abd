------------------------------ MODULE ChannelIds ------------------------------
(***************************************************************************)
(* What the channel table promises the code that makes requests, without   *)
(* saying how: a channel that is registered has an id no other registered  *)
(* channel has, keeps it as long as it is registered, and is registered or *)
(* freed one at a time.  Module Channel implements this with a counter     *)
(* that is set back, module ChannelThreads with a linked list, as long as  *)
(* one thread uses it.                                                     *)
(***************************************************************************)
CONSTANTS Chan, Ids

VARIABLE ids    \* the id of each registered channel

Init == ids = [c \in {} |-> 0]

InUse == {ids[c] : c \in DOMAIN ids}

Register(c) ==
    /\ c \notin DOMAIN ids
    /\ \E i \in Ids \ InUse :
         ids' = [d \in DOMAIN ids \union {c} |-> IF d = c THEN i ELSE ids[d]]

Unregister(c) ==
    /\ c \in DOMAIN ids
    /\ ids' = [d \in DOMAIN ids \ {c} |-> ids[d]]

Next == \E c \in Chan : Register(c) \/ Unregister(c)

Spec == Init /\ [][Next]_ids
===============================================================================
