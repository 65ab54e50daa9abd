------------------------------- MODULE Request -------------------------------
(***************************************************************************)
(* The synchronous requests of libdespotify (src/src/lib/despotify.c):     *)
(* search, browse, image, playlist and change-playlist calls.  Each one    *)
(* allocates ds->response, sends a command with despotify_gzip_callback or *)
(* despotify_plain_callback on its channel, and sleeps in                  *)
(* despotify_wait_timeout until the network thread, at the end of the      *)
(* answer, signals sync_cond; then it reads and frees ds->response.        *)
(*                                                                         *)
(* ds->response, ds->list_of_lists and sync_cond are per session, not per  *)
(* request, and the wait has no predicate: whatever ends it but the        *)
(* timeout is taken for the answer, and an answer that comes after it goes *)
(* into the buffer of the next call and wakes it.                          *)
(***************************************************************************)
EXTENDS Integers, Sequences, FiniteSets

CONSTANTS
    MaxRequests,    \* bound on the number of requests
    Packets,        \* data packets of a complete answer
    Ops,            \* the calls the client makes
    Errors,         \* the server may answer with a channel error
    WritesFail      \* packet_write may fail

(* What the calls differ in: whether the answer is inflated, whether it is    *)
(* stored in (and the call answered from) the cache, whether a failed command *)
(* disconnects the session, and whether the answer is parsed as a playlist.   *)
Profile(gzip, cached, disconnects, playlist) ==
    [gzip |-> gzip, cached |-> cached, disconnects |-> disconnects, playlist |-> playlist]

despotify_search == Profile(TRUE, FALSE, FALSE, FALSE)
despotify_search_more == Profile(TRUE, FALSE, FALSE, FALSE)
despotify_load_tracks == Profile(TRUE, TRUE, TRUE, FALSE)
despotify_get_playlist == Profile(FALSE, TRUE, TRUE, TRUE)
despotify_get_stored_playlists == Profile(FALSE, FALSE, TRUE, TRUE)   \* playlist_id = NULL
despotify_rename_playlist == Profile(FALSE, FALSE, TRUE, FALSE)
despotify_set_playlist_collaboration == Profile(FALSE, FALSE, TRUE, FALSE)
despotify_get_artist == Profile(TRUE, TRUE, TRUE, FALSE)
despotify_get_album == Profile(TRUE, TRUE, TRUE, FALSE)
despotify_get_image == Profile(FALSE, TRUE, TRUE, FALSE)
despotify_get_tracks == Profile(TRUE, FALSE, TRUE, FALSE)

Profiles ==
    [search |-> despotify_search, more |-> despotify_search_more,
     load_tracks |-> despotify_load_tracks,
     playlist |-> despotify_get_playlist, lists |-> despotify_get_stored_playlists,
     rename |-> despotify_rename_playlist,
     collaboration |-> despotify_set_playlist_collaboration,
     artist |-> despotify_get_artist, album |-> despotify_get_album,
     image |-> despotify_get_image, tracks |-> despotify_get_tracks]

AllOps == DOMAIN Profiles

ASSUME OpsAssumption == Ops \subseteq AllOps
ASSUME BoundsAssumption == MaxRequests \in Nat /\ Packets \in Nat \ {0}
ASSUME EnvironmentAssumption == {Errors, WritesFail} \subseteq BOOLEAN

Requests == 1 .. MaxRequests

Gzip == {o \in AllOps : Profiles[o].gzip}
Cached == {o \in AllOps : Profiles[o].cached}
Playlist == {o \in AllOps : Profiles[o].playlist}

VARIABLES
    api,            \* where the caller is
    op,             \* in which call
    req,            \* the number of requests made: the current one
    response,       \* ds->response: the packets in the buffer it points to
    freed,          \* that buffer was given to buf_free
    list_of_lists,
    channel,        \* channel[r]: the server's progress with request r
    sent,           \* sent[r]: data packets of r received
    connected,
    cache,          \* cache[op]: what cache_store wrote for it
    used,           \* a buffer was appended to after buf_free
    early,          \* history: the requests whose wait ended before their answer did
    late            \* history: those made while an earlier answer was still to come

vars == <<api, op, req, response, freed, list_of_lists, channel, sent, connected,
          cache, used, early, late>>

Packet == [req : Requests, no : 1 .. Packets]
Answer(r) == [k \in 1 .. Packets |-> [req |-> r, no |-> k]]
Absent == [stored |-> FALSE, data |-> <<>>, for |-> 0]

Init ==
    /\ api = "idle" /\ op = "search" /\ req = 0
    /\ response = <<>> /\ freed = FALSE
    /\ list_of_lists = FALSE
    /\ channel = [r \in Requests |-> "none"]
    /\ sent = [r \in Requests |-> 0]
    /\ connected = TRUE
    /\ cache = [o \in Cached |-> Absent]
    /\ used = FALSE
    /\ early = {} /\ late = {}

-----------------------------------------------------------------------------
(* The caller *)

(* The server is still to send data, an end or an error for r *)
Owed(r) == connected /\ channel[r] = "open"

(* mutant: a buffer that is there already is used again *)
CallKeepsBuffer(o) ==
    /\ api = "idle" /\ req < MaxRequests
    /\ o \in Cached => ~cache[o].stored
    /\ op' = o
    /\ req' = req + 1
    /\ freed' = FALSE
    /\ list_of_lists' = (list_of_lists \/ o = "lists")
    /\ api' = "send"
    /\ late' = IF \E r \in Requests : Owed(r) THEN late \union {req + 1} ELSE late
    /\ UNCHANGED <<response, channel, sent, connected, cache, used, early>>

(* A call that is not answered from the cache: ds->response = buf_new() (what *)
(* it pointed to before is leaked, if it was not freed); a request for the    *)
(* list of lists sets ds->list_of_lists                                       *)
Call(o) ==
    /\ api = "idle" /\ req < MaxRequests
    /\ o \in Cached => ~cache[o].stored
    /\ op' = o
    /\ req' = req + 1
    /\ response' = <<>> /\ freed' = FALSE
    /\ list_of_lists' = (list_of_lists \/ o = "lists")
    /\ api' = "send"
    /\ late' = IF \E r \in Requests : Owed(r) THEN late \union {req + 1} ELSE late
    /\ UNCHANGED <<channel, sent, connected, cache, used, early>>

(* cmd_search, cmd_browse, cmd_getplaylist, cmd_request_image, cmd_changeplaylist *)
Send ==
    /\ api = "send" /\ connected
    /\ channel' = [channel EXCEPT ![req] = "open"]
    /\ api' = "sent"
    /\ UNCHANGED <<op, req, response, freed, list_of_lists, sent, connected,
                   cache, used, early, late>>

(* the command failed: all but the searches disconnect the session, none   *)
(* frees the response                                                      *)
SendFails ==
    /\ api = "send" /\ (WritesFail \/ ~connected)
    /\ connected' = (connected /\ ~Profiles[op].disconnects)
    /\ api' = "idle"
    /\ UNCHANGED <<op, req, response, freed, list_of_lists, channel, sent,
                   cache, used, early, late>>

(* despotify_wait_timeout: lock sync_mutex and sleep *)
Wait ==
    /\ api = "sent"
    /\ api' = "wait"
    /\ UNCHANGED <<op, req, response, freed, list_of_lists, channel, sent,
                   connected, cache, used, early, late>>

(* mutant: pthread_cond_wait instead of pthread_cond_timedwait *)
WaitForEver == FALSE

(* The wait is over, whether the answer is or not *)
Leave(to) ==
    /\ api' = to
    /\ early' = IF Owed(req) THEN early \union {req} ELSE early

(* ETIMEDOUT: the call returns; neither the channel nor the response is freed *)
Timeout ==
    /\ api = "wait"
    /\ Leave("idle")
    /\ UNCHANGED <<op, req, response, freed, list_of_lists, channel, sent,
                   connected, cache, used, late>>

(* pthread_cond_timedwait may return although nobody signalled; the code does *)
(* not look again for what it waits for                                       *)
SpuriousWakeup ==
    /\ api = "wait"
    /\ Leave("woken")
    /\ UNCHANGED <<op, req, response, freed, list_of_lists, channel, sent,
                   connected, cache, used, late>>

(* despotify_inflate wants a complete stream first and ignores what follows *)
Inflates(data) ==
    /\ Len(data) >= Packets
    /\ \E r \in Requests : SubSeq(data, 1, Packets) = Answer(r)

(* Read the response: parse it, and store it in the cache *)
Use ==
    /\ api = "woken"
    /\ LET data == response
           stores == op \in Cached /\ (op \in Gzip => Inflates(data))
       IN  cache' = IF stores
                    THEN [cache EXCEPT ![op] = [stored |-> TRUE, data |-> data, for |-> req]]
                    ELSE cache
    /\ list_of_lists' = (list_of_lists /\ op \notin Playlist)
    /\ api' = "parsed"
    /\ UNCHANGED <<op, req, response, freed, channel, sent, connected, used, early,
                   late>>

(* buf_free(ds->response): the pointer stays, its data are gone *)
Free ==
    /\ api = "parsed"
    /\ response' = <<>> /\ freed' = TRUE
    /\ api' = "idle"
    /\ UNCHANGED <<op, req, list_of_lists, channel, sent, connected, cache, used, early,
                   late>>

-----------------------------------------------------------------------------
(* The network thread: despotify_gzip_callback and despotify_plain_callback *)

Data(r) ==
    /\ Owed(r) /\ sent[r] < Packets
    /\ sent' = [sent EXCEPT ![r] = @ + 1]
    /\ IF freed
       THEN used' = TRUE /\ response' = response
       ELSE used' = used /\ response' = Append(response, [req |-> r, no |-> sent[r] + 1])
    /\ UNCHANGED <<api, op, req, freed, list_of_lists, channel, connected, cache, early, late>>

(* the last packet, or an error: whoever is waiting on sync_cond is woken, *)
(* for whatever answer                                                     *)
Done(r, how) ==
    /\ channel' = [channel EXCEPT ![r] = how]
    /\ IF api = "wait"
       THEN /\ api' = "woken"
            /\ early' = IF r # req /\ Owed(req) THEN early \union {req} ELSE early
       ELSE UNCHANGED <<api, early>>
    /\ UNCHANGED <<op, req, response, freed, list_of_lists, sent, connected, cache,
                   used, late>>

(* mutant: any packet with data in it is taken for the last one *)
EndOnData(r) ==
    /\ Owed(r) /\ sent[r] > 0
    /\ Done(r, "end")

End(r) ==
    /\ Owed(r) /\ sent[r] = Packets
    /\ Done(r, "end")

Error(r) ==
    /\ Errors /\ Owed(r)
    /\ Done(r, "error")

-----------------------------------------------------------------------------
Caller == Send \/ SendFails \/ Wait \/ Timeout \/ Use \/ Free
Network == \E r \in Requests : Data(r) \/ End(r) \/ Error(r)

Next == (\E o \in Ops : Call(o)) \/ Caller \/ SpuriousWakeup \/ Network

(* The caller runs, and its wait times out at the latest.  The server need not *)
(* answer at all, nor in time.                                                 *)
Spec == Init /\ [][Next]_vars /\ WF_vars(Caller)

-----------------------------------------------------------------------------
(* Every variable has its type. *)
TypeOK ==
    /\ api \in {"idle", "send", "sent", "wait", "woken", "parsed"}
    /\ op \in AllOps /\ req \in 0 .. MaxRequests
    /\ response \in Seq(Packet)
    /\ freed \in BOOLEAN /\ used \in BOOLEAN
    /\ list_of_lists \in BOOLEAN /\ connected \in BOOLEAN
    /\ channel \in [Requests -> {"none", "open", "end", "error"}]
    /\ sent \in [Requests -> 0 .. Packets]
    /\ \A o \in Cached : cache[o].data \in Seq(Packet)
    /\ early \subseteq Requests /\ late \subseteq Requests

(* A call that was told its answer is there finds in ds->response what the     *)
(* server sent for it, in order and nothing else, and unless its wait ended      *)
(* early all of it (or what came before an error); whatever calls before it      *)
(* timed out or were woken for nothing, if only their answers were over when it  *)
(* was made.  And no callback appends to a response that was freed unless some   *)
(* wait ended early.  (With every type.)                                         *)
ResponseIsMine ==
    /\ TypeOK
    /\ used => early # {}
    /\ (api = "woken" /\ req \notin late) =>
         /\ response = SubSeq(Answer(req), 1, sent[req])
         /\ req \in early \/ channel[req] \in {"end", "error"}
         /\ channel[req] = "end" => sent[req] = Packets

(* What is stored in the cache is the answer to the request for it: in order and *)
(* without what other requests were sent, if their answers were over when it was *)
(* made.  All of it, where it was inflated first, however the wait ended; and    *)
(* where it was not (playlists, images), if the wait lasted until the end.       *)
CachedAsAnswered ==
    \A o \in Cached : (cache[o].stored /\ cache[o].for \notin late) =>
        LET r == cache[o].for
        IN  /\ cache[o].data = SubSeq(Answer(r), 1, Len(cache[o].data))
            /\ (o \in Gzip \/ (r \notin early /\ channel[r] = "end"))
                  => cache[o].data = Answer(r)

(* Not so: the same of every call. *)
ResponseIsAlwaysMine ==
    api = "woken" => response = SubSeq(Answer(req), 1, sent[req])

(* The answer is parsed as a list of lists exactly if that was asked for. *)
ListFlagIsRight ==
    (api = "woken" /\ op \in Playlist) => (list_of_lists = (op = "lists"))

(* A call whose answer has arrived is not left to time out. *)
AnsweredInTime ==
    [][(api = "wait" /\ api' = "idle") => channel[req] \notin {"end", "error"}]_vars

(* Every call returns, answered or not. *)
CallsReturn == (api # "idle") ~> (api = "idle")
==============================================================================
