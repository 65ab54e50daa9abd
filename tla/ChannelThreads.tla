--------------------------- MODULE ChannelThreads ---------------------------
(***************************************************************************)
(* channel_register() and channel_unregister() (src/src/lib/channel.c)     *)
(* store by store.  The list at head and next_channel_id are static data   *)
(* without a lock.  They are used by the thread that calls the library     *)
(* (cmd_search, cmd_aeskey from despotify_play...), by the thread that     *)
(* fetches PCM data (cmd_getsubstreams) and by the network thread          *)
(* (channel_process frees channels, the callback at the end of a track     *)
(* calls cmd_aeskey).  With one thread the stores implement the table of   *)
(* module Channel; Threads chooses how many run at once, and OneInside     *)
(* whether their operations overlap.                                       *)
(***************************************************************************)
EXTENDS Integers, FiniteSets

CONSTANTS
    Threads,
    Node,       \* CHANNEL structs the allocator can hand out
    Null,
    MaxId       \* bound on next_channel_id

ASSUME NullAssumption == Null \notin Node
ASSUME NodeAssumption == IsFiniteSet(Node)
ASSUME MaxIdAssumption == MaxId \in Nat

VARIABLES
    head,
    nxt,                \* the next field; a freed struct keeps what it held
    channel_id,
    next_channel_id,
    allocated,          \* structs malloc has handed out
    pc, id, ch, tmp,    \* per thread: where it is, and its local variables
    registered          \* history: structs whose registration has returned,
                        \* up to the call that unregisters them

listVars == <<head, nxt, channel_id, next_channel_id, allocated, pc, id, ch, tmp,
          registered>>
locals == <<id, ch, tmp>>

Pointer == Node \union {Null}

ListInit ==
    /\ head = Null
    /\ nxt = [n \in Node |-> Null]
    /\ channel_id = [n \in Node |-> 0]
    /\ next_channel_id = 0
    /\ allocated = {}
    /\ pc = [t \in Threads |-> "idle"]
    /\ id = [t \in Threads |-> 0]
    /\ ch = [t \in Threads |-> Null]
    /\ tmp = [t \in Threads |-> Null]
    /\ registered = {}

(* The structs a traversal from head meets *)
AfterSteps[k \in Nat] ==
    IF k = 0 THEN head
    ELSE IF AfterSteps[k-1] = Null THEN Null ELSE nxt[AfterSteps[k-1]]

Linked == {AfterSteps[k] : k \in 0 .. Cardinality(Node)} \ {Null}

Reach(t, label) == pc' = [pc EXCEPT ![t] = label]

-----------------------------------------------------------------------------
(* channel_register *)

(* id = next_channel_id++: the load, and then the store *)
LoadId(t) ==
    /\ pc[t] = "idle"
    /\ next_channel_id <= MaxId
    /\ allocated # Node
    /\ id' = [id EXCEPT ![t] = next_channel_id]
    /\ Reach(t, "increment")
    /\ UNCHANGED <<head, nxt, channel_id, next_channel_id, allocated, ch, tmp, registered>>

StoreId(t) ==
    /\ pc[t] = "increment"
    /\ next_channel_id' = id[t] + 1
    /\ Reach(t, "scan")
    /\ UNCHANGED <<head, nxt, channel_id, allocated, locals, registered>>

(* the loop that raises next_channel_id above the ids in the list *)
Scan(t) ==
    /\ pc[t] = "scan"
    /\ LET above == {n \in Linked : channel_id[n] >= next_channel_id}
       IN  next_channel_id' =
               IF above = {} THEN next_channel_id
               ELSE 1 + CHOOSE i \in {channel_id[n] : n \in above} :
                            \A n \in above : i >= channel_id[n]
    /\ Reach(t, "allocate")
    /\ UNCHANGED <<head, nxt, channel_id, allocated, locals, registered>>

(* malloc, the fields, and ch->next = head *)
Allocate(t) ==
    /\ pc[t] = "allocate"
    /\ \E n \in Node \ allocated :
          /\ allocated' = allocated \union {n}
          /\ ch' = [ch EXCEPT ![t] = n]
          /\ channel_id' = [channel_id EXCEPT ![n] = id[t]]
          /\ nxt' = [nxt EXCEPT ![n] = head]
    /\ Reach(t, "link")
    /\ UNCHANGED <<head, next_channel_id, id, tmp, registered>>

(* head = ch, and the request is written *)
Link(t) ==
    /\ pc[t] = "link"
    /\ head' = ch[t]
    /\ registered' = registered \union {ch[t]}
    /\ Reach(t, "write")
    /\ UNCHANGED <<nxt, channel_id, next_channel_id, allocated, locals>>

-----------------------------------------------------------------------------
(* packet_write succeeded, or failed and left the channel registered *)
RequestWritten(t) ==
    /\ pc[t] = "write"
    /\ Reach(t, "idle")
    /\ UNCHANGED <<head, nxt, channel_id, next_channel_id, allocated, locals, registered>>

(* cmd_getsubstreams: packet_write failed, the channel is taken back.  No   *)
(* answer can come for it, so nobody else frees it.                         *)
RequestFails(t) ==
    /\ pc[t] = "write"
    /\ Reach(t, "unlink")
    /\ UNCHANGED <<head, nxt, channel_id, next_channel_id, allocated, locals, registered>>

(* channel_process: an answer for a channel found in the list, END or ERROR. *)
(* Only a channel whose request was written has an answer.                   *)
Answer(t) ==
    /\ pc[t] = "idle"
    /\ \E n \in Linked \intersect registered :
          /\ \A u \in Threads : pc[u] # "idle" => ch[u] # n
          /\ ch' = [ch EXCEPT ![t] = n]
    /\ Reach(t, "unlink")
    /\ UNCHANGED <<head, nxt, channel_id, next_channel_id, allocated, id, tmp, registered>>

-----------------------------------------------------------------------------
(* channel_unregister *)

UnlinkHead(t) ==
    /\ pc[t] = "unlink"
    /\ head = ch[t]
    /\ head' = nxt[ch[t]]
    /\ registered' = registered \ {ch[t]}
    /\ Reach(t, "give_back")
    /\ UNCHANGED <<nxt, channel_id, next_channel_id, allocated, locals>>

(* mutant: the loop starts at the second channel *)
FindPredecessorPastHead(t) ==
    /\ pc[t] = "unlink"
    /\ head # ch[t]
    /\ LET before == {n \in Linked \ {head} : nxt[n] = ch[t]}
       IN  tmp' = [tmp EXCEPT ![t] =
                      IF before = {} THEN Null ELSE CHOOSE n \in before : TRUE]
    /\ registered' = registered \ {ch[t]}
    /\ Reach(t, IF tmp'[t] = Null THEN "assertion_failed" ELSE "bypass")
    /\ UNCHANGED <<head, nxt, channel_id, next_channel_id, allocated, id, ch>>

(* the loop for the predecessor, ending with assert (tmp != NULL) *)
FindPredecessor(t) ==
    /\ pc[t] = "unlink"
    /\ head # ch[t]
    /\ LET before == {n \in Linked : nxt[n] = ch[t]}
       IN  tmp' = [tmp EXCEPT ![t] =
                      IF before = {} THEN Null ELSE CHOOSE n \in before : TRUE]
    /\ registered' = registered \ {ch[t]}
    /\ Reach(t, IF tmp'[t] = Null THEN "assertion_failed" ELSE "bypass")
    /\ UNCHANGED <<head, nxt, channel_id, next_channel_id, allocated, id, ch>>

(* mutant: the channels behind the one taken out go with it *)
BypassDropsRest(t) ==
    /\ pc[t] = "bypass"
    /\ nxt' = [nxt EXCEPT ![tmp[t]] = Null]
    /\ Reach(t, "give_back")
    /\ UNCHANGED <<head, channel_id, next_channel_id, allocated, locals, registered>>

Bypass(t) ==
    /\ pc[t] = "bypass"
    /\ nxt' = [nxt EXCEPT ![tmp[t]] = nxt[ch[t]]]
    /\ Reach(t, "give_back")
    /\ UNCHANGED <<head, channel_id, next_channel_id, allocated, locals, registered>>

GiveBack(t) ==
    /\ pc[t] = "give_back"
    /\ next_channel_id' = IF channel_id[ch[t]] < next_channel_id
                          THEN channel_id[ch[t]] ELSE next_channel_id
    /\ allocated' = allocated \ {ch[t]}
    /\ Reach(t, "idle")
    /\ UNCHANGED <<head, nxt, channel_id, locals, registered>>

ListNext ==
    \E t \in Threads :
        \/ LoadId(t) \/ StoreId(t) \/ Scan(t) \/ Allocate(t) \/ Link(t)
        \/ RequestWritten(t) \/ RequestFails(t) \/ Answer(t)
        \/ UnlinkHead(t) \/ FindPredecessor(t) \/ Bypass(t) \/ GiveBack(t)

ListSpec == ListInit /\ [][ListNext]_listVars

(* What a lock around channel_register and one around channel_unregister would *)
(* see to: one thread at a time is inside them.  The code has none.            *)
Inside(t) == pc[t] \notin {"idle", "write"}

OneInside == \A t, u \in Threads : Inside(t) /\ Inside(u) => t = u

-----------------------------------------------------------------------------
(* Every variable has its type. *)
ListTypeOK ==
    /\ head \in Pointer
    /\ nxt \in [Node -> Pointer]
    /\ channel_id \in [Node -> Nat]
    /\ next_channel_id \in Nat
    /\ allocated \subseteq Node
    /\ registered \subseteq Node
    /\ pc \in [Threads -> {"idle", "increment", "scan", "allocate", "link", "write",
                           "unlink", "bypass", "give_back", "assertion_failed"}]
    /\ id \in [Threads -> Nat]
    /\ ch \in [Threads -> Pointer]
    /\ tmp \in [Threads -> Pointer]

(* The assertion of channel_unregister: a channel being freed is in the list; *)
(* and between operations the list holds exactly what is registered, which is *)
(* all that is allocated: nothing is lost from it.  (With every type.)        *)
UnregisterFindsChannel ==
    /\ ListTypeOK
    /\ \A t \in Threads : pc[t] # "assertion_failed"
    /\ (\A t \in Threads : pc[t] = "idle") =>
            Linked = registered /\ registered = allocated

(* The stores of one thread, with all that may come between them, add one    *)
(* channel with a free id to the list at head, or take one out of it.        *)
Contract == INSTANCE ChannelIds WITH Chan <- Node, Ids <- 0 .. MaxId,
                                     ids <- [n \in Linked |-> channel_id[n]]

ImplementsContract == Contract!Spec
==============================================================================
