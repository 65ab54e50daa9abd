------------------------------- MODULE Channel -------------------------------
(***************************************************************************)
(* The channel table of libdespotify (src/src/lib/channel.c), the commands *)
(* that open a channel (commands.c) and the handlers that feed it packets  *)
(* (handlers.c).  Every request to the server opens a channel; the server  *)
(* tags its answers with the channel's id; channel_process() finds the     *)
(* channel, moves its state forward and calls the requester back.          *)
(*                                                                         *)
(* The operations are atomic here, as the code assumes; ChannelThreads     *)
(* takes them apart, for the table has no lock.  A member of Req is one    *)
(* CHANNEL allocation; it can be allocated again after it was freed.  The  *)
(* order of the list starting at head is left out: it only decides which   *)
(* of two channels with one id is found, and UniqueIds excludes those.     *)
(***************************************************************************)
EXTENDS Integers, FiniteSets

CONSTANTS
    Req,        \* CHANNEL structs: at most Cardinality(Req) are allocated at once
    WireIds,    \* number of ids a packet can carry: 65536, an unsigned short
    MaxId       \* bound: no id above this one is allocated; more than WireIds - 1,
                \* so that ids drift past what a packet can carry

ASSUME WireIdsAssumption == WireIds \in Nat \ {0}
ASSUME MaxIdAssumption == MaxId \in Nat

VARIABLES
    live,             \* the channels linked from head
    channel_id,       \* channel_id[r], an int
    state,            \* state[r]: enum channel_state
    next_channel_id,
    kind,             \* which command opened r: its callback
    open,             \* the requests the server has received and not finished
    heard,            \* what r's callback was told last since r was registered
    crowded           \* history: three channels were in the table at once, and since
                      \* then it was never empty with nothing owed by the server

vars == <<live, channel_id, state, next_channel_id, kind, open, heard, crowded>>

(* The commands, by how they use the channel: cmd_aeskey forces the DATA   *)
(* state; cmd_getsubstreams frees the channel when packet_write fails; the *)
(* others (search, browse, playlists, image, ad) leave it registered.      *)
Kinds == {"aeskey", "substream", "other"}

States == {"HEADER", "DATA", "END", "ERROR"}

(* What the server remembers of a request: the id it was sent with, all it has  *)
(* to tag its answers with, and what was asked for.  The struct is there to say *)
(* who asked; it may have been freed by an answer meant for another channel.    *)
Requests == [chan : Req, id : 0 .. WireIds - 1, kind : Kinds]

Init ==
    /\ live = {}
    /\ channel_id = [r \in Req |-> 0]
    /\ state = [r \in Req |-> "HEADER"]
    /\ next_channel_id = 0
    /\ kind = [r \in Req |-> "other"]
    /\ open = {}
    /\ heard = [r \in Req |-> "nothing"]
    /\ crowded = FALSE

-----------------------------------------------------------------------------
(* Channel ids *)

(* mutant: the next id falls on the highest of the ids in use *)
NextOnHighest(id) ==
    LET above == {channel_id[r] : r \in {q \in live : channel_id[q] >= id + 1}}
    IN  {n \in {id + 1} \union above : \A i \in above : n >= i}

(* The values of next_channel_id the loop of channel_register can leave: id + 1, *)
(* raised above every live id that is not below it.  There is exactly one.      *)
NextAfterRegister(id) ==
    LET above == {channel_id[r] : r \in {q \in live : channel_id[q] >= id + 1}}
    IN  {n \in {id + 1} \union {i + 1 : i \in above} : \A i \in above : n > i}

(* mutant: an id given back is not handed out again *)
IdNotGivenBack(r) == next_channel_id

(* channel_unregister: the id given back becomes the next one if it is lower *)
NextAfterUnregister(r) ==
    IF channel_id[r] < next_channel_id THEN channel_id[r] ELSE next_channel_id

(* A request and its answers carry the id as 16 bits; the table compares it *)
(* with the int                                                             *)
Found(id) == {r \in live : channel_id[r] = id}

WireId(id) == id % WireIds

InitialState(k) == IF k = "aeskey" THEN "DATA" ELSE "HEADER"

channel_register(r, k) ==
    /\ r \notin live
    /\ next_channel_id <= MaxId
    /\ live' = live \union {r}
    /\ channel_id' = [channel_id EXCEPT ![r] = next_channel_id]
    /\ next_channel_id' \in NextAfterRegister(next_channel_id)
    /\ state' = [state EXCEPT ![r] = InitialState(k)]
    /\ kind' = [kind EXCEPT ![r] = k]
    /\ heard' = [heard EXCEPT ![r] = "nothing"]

(* mutant: the id below the freed one is handed out next *)
UnregisterGivesBackBelow(r) ==
    /\ live' = live \ {r}
    /\ next_channel_id' = channel_id[r] - 1

channel_unregister(r) ==
    /\ live' = live \ {r}
    /\ next_channel_id' = NextAfterUnregister(r)

-----------------------------------------------------------------------------
(* Commands: register a channel, then write the request to the server *)

Command(r, k) ==
    /\ channel_register(r, k)
    /\ open' = open \union {[chan |-> r, id |-> WireId(next_channel_id), kind |-> k]}

(* packet_write failed.  cmd_getsubstreams takes the channel back at once   *)
(* (register and unregister together leave the table as it was, but for     *)
(* next_channel_id); every other command returns with it registered.        *)
CommandWriteFails(r, k) ==
    /\ k # "substream"
    /\ channel_register(r, k)
    /\ UNCHANGED open

SubstreamWriteFails(r) ==
    /\ r \notin live
    /\ next_channel_id <= MaxId
    /\ next_channel_id' = next_channel_id   \* the id just taken is given back
    /\ channel_id' = [channel_id EXCEPT ![r] = next_channel_id]
    /\ state' = [state EXCEPT ![r] = "HEADER"]
    /\ kind' = [kind EXCEPT ![r] = "substream"]
    /\ heard' = [heard EXCEPT ![r] = "nothing"]
    /\ UNCHANGED <<live, open>>

-----------------------------------------------------------------------------
(* Packets from the server (CMD_CHANNELDATA, CMD_CHANNELERR, CMD_AESKEY,   *)
(* CMD_AESKEYERR).  The server answers request o; channel c is the one the *)
(* table finds for the id.  A packet whose id no channel has is dropped:   *)
(* it changes nothing here, and the server is done with o if it was the    *)
(* last one.                                                               *)

(* channel_process in state HEADER: one callback for each header in the    *)
(* packet; the zero-length header that ends the headers moves to DATA.  A  *)
(* packet cut short in a header leaves the state as it is.                 *)
ProcessHeader(c, headers, last) ==
    /\ state[c] = "HEADER"
    /\ headers \/ last
    /\ state' = IF last THEN [state EXCEPT ![c] = "DATA"] ELSE state
    /\ heard' = IF headers THEN [heard EXCEPT ![c] = "HEADER"] ELSE heard
    /\ UNCHANGED <<live, next_channel_id, channel_id, kind, open>>

(* channel_process in state DATA, with len > 0 *)
ProcessData(c) ==
    /\ state[c] = "DATA"
    /\ heard' = [heard EXCEPT ![c] = "DATA"]
    /\ UNCHANGED <<live, next_channel_id, channel_id, state, kind, open>>

(* mutants: the channel is not taken out of the table at the end of the data; *)
(* the channel stays in the table, in state DATA, after an error              *)
ProcessEndKeepsChannel(o, c) ==
    /\ state[c] = "DATA"
    /\ state' = [state EXCEPT ![c] = "END"]
    /\ heard' = [heard EXCEPT ![c] = "END"]
    /\ open' = open \ {o}
    /\ UNCHANGED <<live, next_channel_id, channel_id, kind>>
ProcessErrorKeepsChannel(o, c) ==
    /\ heard' = [heard EXCEPT ![c] = "ERROR"]
    /\ UNCHANGED <<live, next_channel_id, channel_id, state, kind, open>>

(* channel_process in state DATA with len = 0: the callback hears END and  *)
(* the channel is freed                                                    *)
ProcessEnd(o, c) ==
    /\ state[c] = "DATA"
    /\ state' = [state EXCEPT ![c] = "END"]
    /\ heard' = [heard EXCEPT ![c] = "END"]
    /\ channel_unregister(c)
    /\ open' = open \ {o}
    /\ UNCHANGED <<channel_id, kind>>

(* channel_process with error set, in any state (the error code makes len 2) *)
ProcessError(o, c) ==
    /\ state' = [state EXCEPT ![c] = "ERROR"]
    /\ heard' = [heard EXCEPT ![c] = "ERROR"]
    /\ channel_unregister(c)
    /\ open' = open \ {o}
    /\ UNCHANGED <<channel_id, kind>>

(* No channel has the id of the last packet for o *)
Dropped(o) ==
    /\ Found(o.id) = {}
    /\ open' = open \ {o}
    /\ UNCHANGED <<live, channel_id, state, next_channel_id, kind, heard>>

(* handle_channel: the server sends headers, data and an empty packet for o.  *)
(* channel_process aborts where the packet does not fit the state of a        *)
(* channel it was not meant for (an empty packet among headers): no step.     *)
handle_channeldata(o) ==
    /\ o.kind # "aeskey"
    /\ \/ \E c \in Found(o.id) :
             \/ \E headers, last \in BOOLEAN : ProcessHeader(c, headers, last)
             \/ ProcessData(c)
             \/ ProcessEnd(o, c)
       \/ Dropped(o)

handle_channelerr(o) ==
    /\ o.kind # "aeskey"
    /\ \/ \E c \in Found(o.id) : ProcessError(o, c)
       \/ Dropped(o)

(* handle_aeskey: the callback gets the key in the state the channel is in *)
ProcessKey(o, c) ==
    /\ heard' = [heard EXCEPT ![c] = state[c]]
    /\ channel_unregister(c)
    /\ open' = open \ {o}
    /\ UNCHANGED <<channel_id, state, kind>>

handle_aeskey(o) ==
    /\ o.kind = "aeskey"
    /\ \/ \E c \in Found(o.id) : ProcessKey(o, c)
       \/ Dropped(o)

(* handle_aeskeyerr: the body is compiled out, the channel stays *)
handle_aeskeyerr(o) ==
    /\ o.kind = "aeskey"
    /\ open' = open \ {o}
    /\ UNCHANGED <<live, channel_id, state, next_channel_id, kind, heard>>

Step ==
    \/ \E r \in Req :
          \/ \E k \in Kinds : Command(r, k) \/ CommandWriteFails(r, k)
          \/ SubstreamWriteFails(r)
    \/ \E o \in open :
          \/ handle_channeldata(o)
          \/ handle_channelerr(o)
          \/ handle_aeskey(o)
          \/ handle_aeskeyerr(o)

Three(S) == \E a, b, c \in S : a # b /\ b # c /\ a # c

(* History: see crowded *)
Watch ==
    crowded' = (Three(live') \/ (crowded /\ (live' # {} \/ open' # {})))

Next == Step /\ Watch

Spec == Init /\ [][Next]_vars
-----------------------------------------------------------------------------
(* Every variable has its type. *)
TypeOK ==
    /\ live \subseteq Req
    /\ channel_id \in [Req -> Nat]
    /\ state \in [Req -> States]
    /\ next_channel_id \in Nat
    /\ kind \in [Req -> Kinds]
    /\ open \subseteq Requests
    /\ heard \in [Req -> States \union {"nothing"}]
    /\ crowded \in BOOLEAN

(* Ids are given back and handed out again, lowest first and without a search *)
(* for a free one; still no two registered channels ever share an id.         *)
UniqueIds ==
    \A r, q \in live : r # q => channel_id[r] # channel_id[q]

(* What makes UniqueIds inductive: next_channel_id is never in use. *)
NextIdFree == \A r \in live : channel_id[r] # next_channel_id

(* Unless three channels were in the table at once since it was last empty,     *)
(* every answer the server still owes reaches the channel that asked for it, and *)
(* no other: ids do not drift, so the 16 bits of the id in the packet are enough *)
(* to find it.  With three they are not: ids drift past what the packet carries, *)
(* and an answer is lost or told to another request.                             *)
AnswersFindTheirChannel ==
    ~crowded => \A o \in open : Found(o.id) = {o.chan}

(* Under the same condition a substream's channel is registered only as long as *)
(* the server has something to say about it: neither a failed write, nor an     *)
(* error, nor the answer to another request leaks it.                           *)
SubstreamNeverLeaks ==
    ~crowded => \A r \in live : kind[r] = "substream" => \E o \in open : o.chan = r

(* The callback protocol every requester relies on: headers, then data, then one *)
(* END or ERROR, and nothing more until the channel is registered again; the     *)
(* channel is out of the table when its callback has heard the last packet.      *)
Rank == [nothing |-> 0, HEADER |-> 1, DATA |-> 2, END |-> 3, ERROR |-> 3]

CallbackOrder ==
    [][\A r \in Req :
          heard'[r] # heard[r] =>
             \/ /\ heard'[r] = "nothing"
                /\ r \notin live
             \/ /\ Rank[heard[r]] < Rank[heard'[r]]
                /\ r \in live
                /\ Rank[heard'[r]] = 3 => r \notin live']_vars

(* The counter that is set back when a channel is freed, and raised over the  *)
(* ids in use when one is registered, does what ChannelIds asks for.          *)
Contract == INSTANCE ChannelIds WITH Chan <- Req, Ids <- 0 .. MaxId,
                                     ids <- [r \in live |-> channel_id[r]]

ImplementsContract == Contract!Spec
==============================================================================
