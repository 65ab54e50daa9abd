-------------------------------- MODULE Simple --------------------------------
(***************************************************************************)
(* The command line client (clients/simple/simple.c).  The main thread      *)
(* reads a command, works on the lists it has fetched and goes back to the  *)
(* prompt; the PCM thread (module PcmThread) plays and calls back; the      *)
(* network thread of the library moves ds->track on and queues the start    *)
(* of a track when its key arrives.                                         *)
(*                                                                          *)
(* What the server sends is a tree of structs: the stored playlists, a      *)
(* search result, an album.  A pointer into a tree is the tree.  The        *)
(* commands that free a list are taken apart where another thread may come  *)
(* in between; the other commands are one step.                             *)
(***************************************************************************)
EXTENDS PcmThread, Naturals

CONSTANTS
    Tree,           \* trees of structs the client asks for in a run
    Null,
    KeysInTime      \* whether no key is on its way during a command: the user
                    \* waits until the track has started, and it does not end
                    \* while its list is being replaced

ASSUME NullAssumption == Null \notin Tree
ASSUME KeysInTimeAssumption == KeysInTime \in BOOLEAN

VARIABLES
    rootlist, search, searchlist, lastlist, playalbum,  \* of command_loop
    heap,       \* heap[t]: "unused", "live", "freed" or "twice" (freed)
    kind,       \* kind[t]: the type of the struct at its root
    track,      \* ds->track
    key,        \* whether the key of a track is on its way
    fifo,       \* the track whose start is queued for the PCM thread
    fault,      \* the bad pointer that was followed: a list of the client, the
                \* track of the library, or NULL
    main        \* where the main thread is

lists == <<rootlist, search, searchlist, lastlist, playalbum>>
library == <<track, key, fifo>>
vars == <<rootlist, search, searchlist, lastlist, playalbum, heap, kind,
          track, key, fifo, fault, main, play_state, pcm>>

Init ==
    /\ rootlist = Null /\ search = Null /\ searchlist = Null
    /\ lastlist = Null /\ playalbum = Null
    /\ heap = [t \in Tree |-> "unused"]
    /\ kind = [t \in Tree |-> "none"]
    /\ track = Null /\ key = FALSE /\ fifo = Null
    /\ fault = "none"
    /\ main = "start"
    /\ PcmInit

-----------------------------------------------------------------------------
(* Requests, and following a pointer *)

Unused == {t \in Tree : heap[t] = "unused"}

(* what a request returns: a new tree, or NULL *)
Answers == Unused \union {Null}

Receive(t, k) ==
    /\ heap' = IF t = Null THEN heap ELSE [heap EXCEPT ![t] = "live"]
    /\ kind' = IF t = Null THEN kind ELSE [kind EXCEPT ![t] = k]

FreeOf(hp, t) ==
    IF t = Null THEN hp
    ELSE [hp EXCEPT ![t] = IF @ = "live" THEN "freed" ELSE "twice"]

Freed(t) == t # Null /\ heap[t] # "live"

Follow(t) == IF Freed(t) THEN "list" ELSE fault
FollowTrack(t) == IF t = Null THEN "null" ELSE IF Freed(t) THEN "track" ELSE fault

Prompt == main = "prompt" /\ (KeysInTime => ~key)

-----------------------------------------------------------------------------
(* The library, as far as it touches what the client has *)

(* despotify_stop empties the queue and keeps ds->track *)
despotify_stop ==
    /\ fifo' = Null
    /\ UNCHANGED <<track, key>>

(* despotify_play: each of its two writes may fail; the client does not     *)
(* look at the result                                                       *)
despotify_play(t) ==
    /\ fifo' = Null
    /\ \/ track' = t /\ key' = TRUE  /\ fault' = FollowTrack(t)
       \/ track' = t /\ key' = key   /\ fault' = FollowTrack(t)
       \/ UNCHANGED <<track, key, fault>>

(* despotify_next goes on to a later track of the same list; past the end    *)
(* of it, it reads through NULL                                              *)
despotify_next ==
    /\ fifo' = Null
    /\ \/ /\ track = Null
          /\ UNCHANGED <<track, key, fault>>
       \/ /\ track # Null
          /\ \/ track' = track /\ key' \in {key, TRUE} /\ fault' = FollowTrack(track)
             \/ track' = Null /\ key' = key
                /\ fault' = IF Freed(track) THEN "track" ELSE FollowTrack(Null)

(* the key arrives: the start of ds->track is queued, or the key is refused *)
despotify_aes_callback ==
    /\ key
    /\ key' = FALSE
    /\ \/ fifo' = track /\ fault' = FollowTrack(track)
       \/ UNCHANGED <<fifo, fault>>
    /\ UNCHANGED <<lists, heap, kind, track, main, pcmVars>>

(* the last data of a track: on to the next of the list, if there is one *)
despotify_substream_callback ==
    /\ track # Null /\ main # "done"
    /\ fault' = FollowTrack(track)
    /\ \/ track' = Null /\ UNCHANGED key
       \/ track' = track /\ key' = TRUE /\ (KeysInTime => main = "prompt")
    /\ UNCHANGED <<lists, heap, kind, fifo, main, pcmVars>>

-----------------------------------------------------------------------------
(* Commands that read a list *)

(* get_playlist: NULL for a number past the end, or when nothing is loaded *)
get_playlist == {rootlist, Null}

Reads(result) ==
    /\ Prompt
    /\ fault' = result
    /\ UNCHANGED <<lists, heap, kind, library, main, pcmVars>>

(* print_list_of_lists prints the stored playlists, which are loaded once *)
list ==
    /\ Prompt
    /\ IF rootlist = Null THEN \E t \in Answers : rootlist' = t /\ Receive(t, "playlists")
       ELSE UNCHANGED <<rootlist, heap, kind>>
    /\ fault' = Follow(rootlist)
    /\ UNCHANGED <<search, searchlist, lastlist, playalbum, library, main, pcmVars>>

(* print_tracks of playlist number num, which becomes the last list *)
list_num ==
    /\ Prompt
    /\ \E p \in get_playlist \ {Null} : lastlist' = p /\ fault' = Follow(p)
    /\ UNCHANGED <<rootlist, search, searchlist, playalbum, heap, kind, library, main, pcmVars>>

(* the library changes the playlist in place, or not at all *)
rename == \E p \in get_playlist : Reads(Follow(p))
collab == \E p \in get_playlist : Reads(Follow(p))

(* the track with the number of the command; these commands do not test for *)
(* the end of the list on their way                                         *)
FindTrack == {Follow(lastlist), IF Freed(lastlist) THEN "list" ELSE "null"}

(* print_artist of NULL, when the request failed *)
artist == lastlist # Null /\ \E found \in FindTrack : Reads(found)

(* print_album, when there is one; the album is freed again *)
album == lastlist # Null /\ \E found \in FindTrack : Reads(found)

(* the image is saved; without an artist the message reads through NULL *)
portrait == lastlist # Null /\ \E found \in FindTrack : Reads(found)
cover == lastlist # Null /\ \E found \in FindTrack : Reads(found)

(* uri: what the link names is fetched, printed (print_playlist,            *)
(* print_track_full and the like) and freed before the next command         *)
uri == Reads(fault)

info == Reads(fault)
help == Reads(fault)

-----------------------------------------------------------------------------
(* search *)

(* search [string]: playback is stopped "since we replace the list" *)
search_pause ==
    /\ Prompt
    /\ thread_pause
    /\ main' = "search_stop"
    /\ UNCHANGED <<lists, heap, kind, library, fault>>

(* mutant: the queue is left as it is *)
search_stop_nothing ==
    /\ main = "search_stop"
    /\ main' = "search_free"
    /\ UNCHANGED <<lists, heap, kind, library, fault, pcmVars>>

search_stop ==
    /\ main = "search_stop"
    /\ despotify_stop
    /\ main' = "search_free"
    /\ UNCHANGED <<lists, heap, kind, fault, pcmVars>>

search_free ==
    /\ main = "search_free"
    /\ heap' = FreeOf(heap, search)
    /\ main' = "search_ask"
    /\ UNCHANGED <<lists, kind, library, fault, pcmVars>>

(* mutant: the pointer is set only when the search succeeds *)
search_fails_keeps ==
    /\ main = "search_ask"
    /\ main' = "prompt"
    /\ UNCHANGED <<lists, heap, kind, library, fault, pcmVars>>

search_fails ==
    /\ main = "search_ask"
    /\ search' = Null
    /\ main' = "prompt"
    /\ UNCHANGED <<rootlist, searchlist, lastlist, playalbum, heap, kind, library, fault, pcmVars>>

(* mutant: the last list stays the one viewed before *)
search_answered_keeps ==
    /\ main = "search_ask"
    /\ \E t \in Unused :
          /\ Receive(t, "search")
          /\ search' = t /\ searchlist' = t
    /\ main' = "prompt"
    /\ UNCHANGED <<rootlist, lastlist, playalbum, library, fault, pcmVars>>

search_answered ==
    /\ main = "search_ask"
    /\ \E t \in Unused :
          /\ Receive(t, "search")
          /\ search' = t /\ searchlist' = t /\ lastlist' = t
    /\ main' = "prompt"
    /\ UNCHANGED <<rootlist, playalbum, library, fault, pcmVars>>

(* search without a string: more of the results, added to the same list *)
search_more ==
    /\ Prompt
    /\ searchlist # Null
    /\ \/ fault' = Follow(searchlist) /\ lastlist' = searchlist
       \/ fault' = Follow(searchlist) /\ UNCHANGED lastlist
    /\ UNCHANGED <<rootlist, search, searchlist, playalbum, heap, kind, library, main, pcmVars>>

-----------------------------------------------------------------------------
(* playalbum *)

(* the pause comes after the walk to the track *)
playalbum_pause ==
    /\ Prompt
    /\ lastlist # Null
    /\ \E found \in FindTrack :
          /\ fault' = found
          /\ main' = IF found = "none" THEN "album_stop" ELSE main
    /\ thread_pause
    /\ UNCHANGED <<lists, heap, kind, library>>

playalbum_stop ==
    /\ main = "album_stop"
    /\ despotify_stop
    /\ main' = "album_free"
    /\ UNCHANGED <<lists, heap, kind, fault, pcmVars>>

(* mutant: the previous album is forgotten *)
playalbum_free_nothing ==
    /\ main = "album_free"
    /\ main' = "album_ask"
    /\ UNCHANGED <<lists, heap, kind, library, fault, pcmVars>>

playalbum_free ==
    /\ main = "album_free"
    /\ heap' = FreeOf(heap, playalbum)
    /\ main' = "album_ask"
    /\ UNCHANGED <<lists, kind, library, fault, pcmVars>>

(* the id of the album is read from the last list *)
playalbum_fails ==
    /\ main = "album_ask"
    /\ playalbum' = Null
    /\ fault' = Follow(lastlist)
    /\ main' = "prompt"
    /\ UNCHANGED <<rootlist, search, searchlist, lastlist, heap, kind, library, pcmVars>>

(* despotify_play of its tracks, of which the writes may fail, and thread_play *)
playalbum_answered ==
    /\ main = "album_ask"
    /\ \E t \in Unused :
          /\ Receive(t, "album")
          /\ playalbum' = t
          /\ track' = t /\ fifo' = Null /\ key' \in {TRUE, key}
    /\ thread_play
    /\ main' = "prompt"
    /\ UNCHANGED <<rootlist, search, searchlist, lastlist, fault>>

-----------------------------------------------------------------------------
(* Playback commands *)

play_num ==
    /\ Prompt
    /\ lastlist # Null
    /\ IF Freed(lastlist) THEN fault' = "list" /\ UNCHANGED library
       ELSE despotify_play(lastlist)
    /\ thread_play
    /\ UNCHANGED <<lists, heap, kind, main>>

(* next, or play without a number *)
next ==
    /\ Prompt
    /\ lastlist # Null
    /\ despotify_next
    /\ UNCHANGED <<lists, heap, kind, main, pcmVars>>

stop ==
    /\ Prompt
    /\ thread_pause
    /\ despotify_stop
    /\ UNCHANGED <<lists, heap, kind, fault, main>>

pause ==
    /\ Prompt
    /\ thread_pause
    /\ UNCHANGED <<lists, heap, kind, library, fault, main>>

resume ==
    /\ Prompt
    /\ thread_play
    /\ UNCHANGED <<lists, heap, kind, library, fault, main>>

-----------------------------------------------------------------------------
(* main *)

(* despotify_init_client, then the PCM thread *)
CreateThread ==
    /\ main = "start"
    /\ thread_init
    /\ main' = "login"
    /\ UNCHANGED <<lists, heap, kind, library, fault>>

(* wrapper_listen or despotify_authenticate failed (module Login) *)
LoginFails ==
    /\ main = "login"
    /\ main' = "exit"
    /\ UNCHANGED <<lists, heap, kind, library, fault, pcmVars>>

Login ==
    /\ main = "login"
    /\ main' = "prompt"
    /\ UNCHANGED <<lists, heap, kind, library, fault, pcmVars>>

(* quit, or wrapper_read_command without a command: command_loop frees its *)
(* lists, with the PCM thread still there                                  *)
quit ==
    /\ Prompt
    /\ heap' = FreeOf(FreeOf(FreeOf(heap, rootlist), search), playalbum)
    /\ main' = "thread_exit"
    /\ UNCHANGED <<lists, kind, library, fault, pcmVars>>

ThreadExit ==
    /\ main = "thread_exit"
    /\ thread_exit
    /\ main' = "join"
    /\ UNCHANGED <<lists, heap, kind, library, fault>>

(* pthread_join, audio_exit, despotify_exit and despotify_cleanup *)
despotify_exit ==
    /\ main = "join"
    /\ pthread_join
    /\ main' = "done"
    /\ key' = FALSE
    /\ UNCHANGED <<lists, heap, kind, track, fifo, fault, pcmVars>>

-----------------------------------------------------------------------------
(* callback, called by the PCM thread *)

NEW_TRACK ==
    /\ pcm = "callback" /\ fifo # Null
    /\ fault' = FollowTrack(fifo)
    /\ fifo' = Null
    /\ pcm' = "switch"
    /\ UNCHANGED <<lists, heap, kind, track, key, main, play_state>>

TIME_TELL ==
    /\ pcm = "callback"
    /\ pcm' = "switch"
    /\ UNCHANGED <<lists, heap, kind, library, fault, main, play_state>>

END_OF_PLAYLIST ==
    /\ pcm = "callback"
    /\ play_state' = "PAUSE"
    /\ pcm' = "switch"
    /\ UNCHANGED <<lists, heap, kind, library, fault, main>>

(* despotify_get_pcm returned an error *)
GetPcmFails ==
    /\ pcm = "get_pcm"
    /\ main' = "exit"
    /\ UNCHANGED <<lists, heap, kind, library, fault, pcmVars>>

-----------------------------------------------------------------------------
Commands ==
    \/ list \/ list_num \/ rename \/ collab
    \/ search_pause \/ search_stop \/ search_free \/ search_fails \/ search_answered
    \/ search_more
    \/ artist \/ album \/ uri \/ portrait \/ cover \/ info \/ help
    \/ playalbum_pause \/ playalbum_stop \/ playalbum_free
    \/ playalbum_fails \/ playalbum_answered
    \/ play_num \/ next \/ stop \/ pause \/ resume

Main == CreateThread \/ Login \/ LoginFails \/ Commands \/ quit \/ ThreadExit \/ despotify_exit

Pcm ==
    \/ PcmLoop /\ UNCHANGED <<lists, heap, kind, library, fault, main>>
    \/ NEW_TRACK \/ TIME_TELL \/ END_OF_PLAYLIST
    \/ GetPcmFails

Net == despotify_aes_callback \/ despotify_substream_callback

(* exit and a fault end the process *)
Next == fault = "none" /\ main # "exit" /\ (Main \/ Pcm \/ Net)

Spec ==
    /\ Init /\ [][Next]_vars
    /\ WF_vars(Next /\ Pcm)
    /\ WF_vars(Next /\ (ThreadExit \/ despotify_exit))

-----------------------------------------------------------------------------
(* Every variable has its type; a pointer to a list, a search or an album   *)
(* points to one.                                                           *)
TypeOK ==
    /\ heap \in [Tree -> {"unused", "live", "freed", "twice"}]
    /\ \A t \in Tree : kind[t] \in {"none", "playlists", "search", "album"}
    /\ rootlist \in {t \in Tree : kind[t] = "playlists"} \union {Null}
    /\ search \in {t \in Tree : kind[t] = "search"} \union {Null}
    /\ searchlist \in {t \in Tree : kind[t] = "search"} \union {Null}
    /\ lastlist \in {t \in Tree : kind[t] \in {"playlists", "search"}} \union {Null}
    /\ playalbum \in {t \in Tree : kind[t] = "album"} \union {Null}
    /\ track \in Tree \union {Null} /\ fifo \in Tree \union {Null}
    /\ key \in BOOLEAN
    /\ fault \in {"none", "list", "track", "null"}
    /\ PcmTypeOK

(* However searches and albums fail or replace each other, no list is freed *)
(* twice, and everything that was fetched has been freed when main returns. *)
(* (With every type.)                                                       *)
FreedExactlyOnce ==
    /\ TypeOK
    /\ \A t \in Tree : heap[t] # "twice"
    /\ main = "done" => \A t \in Tree : heap[t] # "live"

(* The lists a command reads are live, unless the last search failed: then  *)
(* searchlist, and with it lastlist, is left pointing to the search that    *)
(* was freed.                                                               *)
ListsAreLive ==
    main = "prompt" /\ search # Null => ~Freed(lastlist) /\ ~Freed(searchlist)

(* What is queued for the PCM thread is not freed by a command: playback is *)
(* stopped before a list is replaced.                                       *)
QueuedIsLive == main = "prompt" /\ fault = "none" => ~Freed(fifo)

(* No bad pointer of a list is ever followed. *)
NoUseAfterFree == fault \notin {"list", "track"}

(* A command to quit ends the client. *)
QuitEnds == main = "thread_exit" ~> main \in {"done", "exit"}
==============================================================================
