------------------------------- MODULE Spytify -------------------------------
(***************************************************************************)
(* The Python binding (bindings/python/src/spytify.c, the distributed      *)
(* extension module).  Two memory managers meet here.  The library hands   *)
(* out trees of C structs (a search result with its playlist, tracks and   *)
(* artists; the stored playlists; one artist, album or track) that are     *)
(* freed as a whole.  The binding wraps pointers into these trees in       *)
(* Python objects, which are collected when nothing refers to them.  A     *)
(* wrapper holds no reference to the object that owns its tree, and the    *)
(* library keeps a pointer of its own to the track it plays.               *)
(*                                                                         *)
(* Python code runs under the GIL.  Callbacks come from the audio thread   *)
(* (module PcmThread), which must take the GIL first; the calls of the     *)
(* binding into the library do not give it up.                             *)
(***************************************************************************)
EXTENDS PcmThread, FiniteSets, Naturals

CONSTANTS
    Obj,            \* Python objects of the binding that may exist at once
    Tree,           \* trees of structs the library allocates in a run
    Null

ASSUME NullAssumption == Null \notin Obj \union Tree

VARIABLES
    obj,        \* the objects, each a record as below
    heap,       \* heap[t]: "unused", "live", "freed" or "twice" (freed)
    from,       \* from[t]: the call that allocated t
    held,       \* the objects Python variables refer to
    stored,     \* Spytify.stored_playlists
    track,      \* ds->track: the tree of the track the library plays
    fault,      \* what a read of a bad pointer hit
    main,       \* the Python thread: "run", "join" (in close) or "closed"
    gil         \* the thread that has the interpreter lock

pyVars == <<obj, heap, from, held, stored, track, fault>>
vars == <<obj, heap, from, held, stored, track, fault, main, gil, play_state, pcm>>

Classes == {"SearchResult", "Playlist", "RootList", "RootIterator", "Track", "Artist", "Album"}

NoObj == [class |-> "none", data |-> Null, take_owner |-> FALSE, refs |-> {}, loaded |-> FALSE]

Init ==
    /\ obj = [o \in Obj |-> NoObj]
    /\ heap = [t \in Tree |-> "unused"]
    /\ from = [t \in Tree |-> "none"]
    /\ held = {}
    /\ stored = Null
    /\ track = Null
    /\ fault = "none"
    /\ main = "run"
    /\ gil = "main"
    /\ PcmInit

-----------------------------------------------------------------------------
(* SessionStruct: the wrappers.  loaded tells whether an Artist or Album has *)
(* its full_data, a RootList its playlists, and a RootIterator given one.    *)

Wrapper(class, t) == [NoObj EXCEPT !.class = class, !.data = t]

(* mutant: the album of an artist frees the artist's tree *)
create_album_full_owner(t, take_owner) ==
    [Wrapper("Album", t) EXCEPT !.take_owner = TRUE, !.loaded = TRUE]

create_album_full(t, take_owner) ==
    [Wrapper("Album", t) EXCEPT !.take_owner = take_owner, !.loaded = TRUE]

(* create_artist(NULL) returns None, and so does create_artist_full, which *)
(* calls it that way                                                       *)
create_artist(t, take_owner) ==
    IF t = Null THEN NoObj ELSE [Wrapper("Artist", t) EXCEPT !.take_owner = take_owner]

create_artist_full(t, take_owner) == create_artist(Null, take_owner)

(* mutant: the playlist of a search is freed with its wrapper *)
create_playlist_owner(t, take_owner) == [Wrapper("Playlist", t) EXCEPT !.take_owner = TRUE]

create_playlist(t, take_owner) == [Wrapper("Playlist", t) EXCEPT !.take_owner = take_owner]

create_search_result(t, playlist, take_owner) ==
    [Wrapper("SearchResult", t) EXCEPT !.take_owner = take_owner, !.refs = {playlist}]

create_rootlist == Wrapper("RootList", Null)

create_track(t) == IF t = Null THEN NoObj ELSE Wrapper("Track", t)

-----------------------------------------------------------------------------
(* The collector.  An object goes as soon as nothing refers to it, in the   *)
(* step that dropped the last reference; its __dealloc__ may free a tree.   *)

RefsOf(ob, S) == UNION {ob[o].refs : o \in S}

(* RootIterator -> RootList -> Playlist is the longest chain *)
Reachable(ob, roots) == roots \union RefsOf(ob, roots) \union RefsOf(ob, RefsOf(ob, roots))

SearchResult_dealloc(x) == x.class = "SearchResult" /\ x.take_owner
Playlist_dealloc(x) == x.class = "Playlist" /\ x.take_owner
Album_dealloc(x) == x.class = "Album" /\ x.take_owner /\ x.loaded /\ x.data # Null
Artist_dealloc(x) == x.class = "Artist" /\ x.take_owner /\ x.loaded /\ x.data # Null

(* mutant: the playlists are not freed *)
RootList_dealloc_nothing(x) == FALSE

RootList_dealloc(x) == x.class = "RootList" /\ x.data # Null

Frees(x) ==
    \/ SearchResult_dealloc(x)
    \/ Playlist_dealloc(x)
    \/ RootList_dealloc(x)
    \/ Album_dealloc(x)
    \/ Artist_dealloc(x)

Collected(ob, roots) == {o \in Obj : ob[o].class # "none"} \ Reachable(ob, roots)

Freeing(ob, dead, t) == {o \in dead : ob[o].data = t /\ Frees(ob[o])}

(* The state after a step that leaves the objects ob, the trees hp, the    *)
(* references hl of the program and the stored playlists st                *)
Settle(ob, hp, hl, st) ==
    LET dead == Collected(ob, hl \union ({st} \ {Null}))
        lost == {t \in Tree : Freeing(ob, dead, t) # {}}
    IN  /\ obj' = [o \in Obj |-> IF o \in dead THEN NoObj ELSE ob[o]]
        /\ heap' = [t \in Tree |->
                       IF t \notin lost THEN hp[t]
                       ELSE IF hp[t] = "live" /\ Cardinality(Freeing(ob, dead, t)) = 1
                            THEN "freed" ELSE "twice"]
        /\ held' = hl
        /\ stored' = st

New == {o \in Obj : obj[o].class = "none"}
Unused == {t \in Tree : heap[t] = "unused"}

(* the struct a request returns, or NULL when it failed; none are left over *)
(* when every tree has been used                                            *)
Answers == Unused \union {Null}
WithTree(t) == IF t = Null THEN heap ELSE [heap EXCEPT ![t] = "live"]
FromCall(t, call) == IF t = Null THEN from ELSE [from EXCEPT ![t] = call]

-----------------------------------------------------------------------------
(* Reading.  A wrapper's pointer is followed without a test for a freed     *)
(* tree; a browse pointer that is NULL reads as 0, an empty list, or a NULL *)
(* string, and PyBytes_FromString does not take NULL.                       *)

Follow(t) == IF t # Null /\ heap[t] # "live" THEN "freed" ELSE fault
FollowString(t) == IF t = Null THEN "null" ELSE Follow(t)

AlbumDataFull_strings(t) == FollowString(t)
AlbumDataFull_numbers(t) == Follow(t)
ArtistData_strings(t) == FollowString(t)
ArtistData_popularity(t) == Follow(t)
ArtistDataFull_strings(t) == FollowString(t)
ArtistDataFull_popularity(t) == Follow(t)
ArtistDataFull_text_genres(t) == FollowString(t)
ArtistDataFull_albums(t) == Follow(t)

Uses(o, class) == o \in held /\ obj[o].class = class

Reads(result) ==
    /\ fault' = result
    /\ UNCHANGED <<obj, heap, from, held, stored, track>>

(* a list of wrappers is made, one per element, and the program keeps one  *)
(* of them                                                                 *)
Keeps(wrapper) ==
    \E n \in New : Settle([obj EXCEPT ![n] = wrapper], heap, held \union {n}, stored)

albums_to_list(t) == t # Null /\ Keeps(create_album_full(t, FALSE))
artists_to_list(t) == t # Null /\ Keeps(create_artist(t, FALSE))
tracks_to_list(t) == t # Null /\ Keeps(create_track(t))

(* the list is empty *)
EmptyList(t) == Settle(obj, heap, held, stored)

ReadsList(o, list(_)) ==
    /\ fault' = Follow(obj[o].data)
    /\ list(obj[o].data)
    /\ UNCHANGED <<from, track>>

-----------------------------------------------------------------------------
(* The classes.  An Album, made by create_album_full alone, has its         *)
(* full_data from the start; get_full_data has nothing to do.               *)

Album_name(o) == Uses(o, "Album") /\ Reads(AlbumDataFull_strings(obj[o].data))
Album_id(o) == Uses(o, "Album") /\ Reads(AlbumDataFull_strings(obj[o].data))
Album_cover_id(o) == Uses(o, "Album") /\ Reads(AlbumDataFull_strings(obj[o].data))
Album_popularity(o) == Uses(o, "Album") /\ Reads(AlbumDataFull_numbers(obj[o].data))
Album_get_full_data(o) == obj[o].loaded
Album_year(o) ==
    Uses(o, "Album") /\ Album_get_full_data(o) /\ Reads(AlbumDataFull_numbers(obj[o].data))
Album_tracks(o) ==
    /\ Uses(o, "Album") /\ Album_get_full_data(o)
    /\ ReadsList(o, tracks_to_list) \/ ReadsList(o, EmptyList)
Album_get_uri(o) == Album_id(o)
Album_repr(o) == Album_name(o) /\ Album_id(o)

Track_track_id(o) == Uses(o, "Track") /\ Reads(FollowString(obj[o].data))
Track_file_id(o) == Uses(o, "Track") /\ Reads(FollowString(obj[o].data))
Track_has_meta_data(o) == Uses(o, "Track") /\ Reads(Follow(obj[o].data))
Track_is_playable(o) == Uses(o, "Track") /\ Reads(Follow(obj[o].data))
Track_title(o) == Uses(o, "Track") /\ Reads(FollowString(obj[o].data))
Track_artists(o) ==
    Uses(o, "Track") /\ (ReadsList(o, artists_to_list) \/ ReadsList(o, EmptyList))
Track_album(o) == Uses(o, "Track") /\ Reads(FollowString(obj[o].data))
Track_length(o) == Uses(o, "Track") /\ Reads(Follow(obj[o].data))
Track_tracknumber(o) == Uses(o, "Track") /\ Reads(Follow(obj[o].data))
Track_year(o) == Uses(o, "Track") /\ Reads(Follow(obj[o].data))
Track_popularity(o) == Uses(o, "Track") /\ Reads(Follow(obj[o].data))
Track_get_uri(o) == Track_track_id(o)
(* the wrappers of the artists go again with the string *)
Track_repr(o) == Track_title(o) /\ Track_album(o) /\ Track_track_id(o)
(* two Tracks are equal when their structs are: nothing is read *)
Track_richcmp(o, other) == Uses(o, "Track") /\ Uses(other, "Track") /\ Reads(fault)

Playlist_name(o) == Uses(o, "Playlist") /\ Reads(FollowString(obj[o].data))
Playlist_author(o) == Uses(o, "Playlist") /\ Reads(FollowString(obj[o].data))
Playlist_id(o) == Uses(o, "Playlist") /\ Reads(FollowString(obj[o].data))
Playlist_is_collaborative(o) == Uses(o, "Playlist") /\ Reads(Follow(obj[o].data))
Playlist_tracks(o) ==
    Uses(o, "Playlist") /\ (ReadsList(o, tracks_to_list) \/ ReadsList(o, EmptyList))
Playlist_get_uri(o) == Playlist_id(o) /\ Playlist_author(o)
Playlist_repr(o) == Playlist_name(o) /\ Playlist_author(o) /\ Playlist_id(o)

SearchResult_query(o) == Uses(o, "SearchResult") /\ Reads(FollowString(obj[o].data))
SearchResult_suggestion(o) == Uses(o, "SearchResult") /\ Reads(Follow(obj[o].data))
SearchResult_total_artists(o) == Uses(o, "SearchResult") /\ Reads(Follow(obj[o].data))
SearchResult_total_albums(o) == Uses(o, "SearchResult") /\ Reads(Follow(obj[o].data))
SearchResult_total_tracks(o) == Uses(o, "SearchResult") /\ Reads(Follow(obj[o].data))
SearchResult_get_uri(o) == SearchResult_query(o)
SearchResult_playlist(o) ==
    /\ Uses(o, "SearchResult")
    /\ Settle(obj, heap, held \union obj[o].refs, stored)
    /\ UNCHANGED <<from, track, fault>>

Artist_strings(o) ==
    IF obj[o].loaded THEN ArtistDataFull_strings(obj[o].data) ELSE ArtistData_strings(obj[o].data)

Artist_name(o) == Uses(o, "Artist") /\ Reads(Artist_strings(o))
Artist_id(o) == Uses(o, "Artist") /\ Reads(Artist_strings(o))
Artist_portrait_id(o) == Uses(o, "Artist") /\ Reads(Artist_strings(o))
Artist_get_uri(o) == Artist_id(o)
Artist_repr(o) == Artist_name(o) /\ Artist_id(o)
Artist_popularity(o) ==
    /\ Uses(o, "Artist")
    /\ Reads(IF obj[o].loaded THEN ArtistDataFull_popularity(obj[o].data)
             ELSE ArtistData_popularity(obj[o].data))

(* The id is read through the old pointer, then the new struct, or NULL,   *)
(* takes its place.  Nothing frees it.                                     *)
Artist_get_full_data(o) ==
    IF obj[o].loaded THEN {[ob |-> obj, hp |-> heap, fr |-> from]}
    ELSE {[ob |-> [obj EXCEPT ![o].data = t, ![o].loaded = TRUE],
           hp |-> WithTree(t), fr |-> FromCall(t, "lookup")] : t \in Answers}

(* what is read of a struct that was just fetched, through whichever pointer *)
AfterFetch(o, f, read(_)) ==
    IF Follow(obj[o].data) # fault THEN Follow(obj[o].data)
    ELSE IF f.ob[o].data = Null THEN read(Null) ELSE fault

Artist_text(o) ==
    /\ Uses(o, "Artist")
    /\ \E f \in Artist_get_full_data(o) :
          /\ Settle(f.ob, f.hp, held, stored)
          /\ from' = f.fr
          /\ fault' = AfterFetch(o, f, ArtistDataFull_text_genres)
    /\ UNCHANGED track

Artist_genres(o) == Artist_text(o)

Artist_albums(o) ==
    /\ Uses(o, "Artist")
    /\ \E f \in Artist_get_full_data(o) :
          /\ \/ Settle(f.ob, f.hp, held, stored)
             \/ /\ f.ob[o].data # Null
                /\ \E n \in New :
                      Settle([f.ob EXCEPT ![n] = create_album_full(f.ob[o].data, FALSE)],
                             f.hp, held \union {n}, stored)
          /\ from' = f.fr
          /\ fault' = AfterFetch(o, f, ArtistDataFull_albums)
    /\ UNCHANGED track

(* any of them, as get_uri, split and joined *)
SpotifyObject_get_http_link(o) ==
    \/ Album_get_uri(o) \/ Artist_get_uri(o) \/ Track_get_uri(o)
    \/ Playlist_get_uri(o) \/ SearchResult_get_uri(o)

-----------------------------------------------------------------------------
(* RootList: the playlists are fetched on first use.  The list has one     *)
(* playlist, or none when the call failed.                                 *)

playlists_to_list(o, t, p) ==
    IF t = Null THEN [obj EXCEPT ![o].loaded = TRUE]
    ELSE [obj EXCEPT ![o].data = t, ![o].loaded = TRUE, ![o].refs = {p},
                     ![p] = create_playlist(t, FALSE)]

RootList_fetch(o) ==
    IF obj[o].loaded THEN {[ob |-> obj, hp |-> heap, fr |-> from]}
    ELSE {[ob |-> playlists_to_list(o, t, p), hp |-> WithTree(t),
           fr |-> FromCall(t, "rootlist")] : t \in Answers, p \in New}

RootList_len(o) ==
    /\ Uses(o, "RootList")
    /\ \E f \in RootList_fetch(o) : Settle(f.ob, f.hp, held, stored) /\ from' = f.fr
    /\ UNCHANGED <<track, fault>>

RootList_getitem(o) ==
    /\ Uses(o, "RootList")
    /\ \E f \in RootList_fetch(o) :
          Settle(f.ob, f.hp, held \union f.ob[o].refs, stored) /\ from' = f.fr
    /\ UNCHANGED <<track, fault>>

(* a Playlist is found by identity *)
RootList_contains(o) == RootList_len(o)

RootList_repr(o) ==
    /\ Uses(o, "RootList")
    /\ \E f \in RootList_fetch(o) : Settle(f.ob, f.hp, held, stored) /\ from' = f.fr
    /\ fault' = Follow(obj[o].data)
    /\ UNCHANGED track

RootIterator_init(o) == [Wrapper("RootIterator", Null) EXCEPT !.refs = {o}]

RootList_iter(o) ==
    /\ Uses(o, "RootList")
    /\ \E f \in RootList_fetch(o) : \E n \in {x \in New : f.ob[x].class = "none"} :
          /\ Settle([f.ob EXCEPT ![n] = RootIterator_init(o)], f.hp, held \union {n}, stored)
          /\ from' = f.fr
    /\ UNCHANGED <<track, fault>>

(* The next playlist of the list, which the iterator keeps alive, or        *)
(* StopIteration                                                            *)
RootIterator_next(o) ==
    /\ Uses(o, "RootIterator")
    /\ Settle([obj EXCEPT ![o].loaded = TRUE], heap,
              IF obj[o].loaded THEN held ELSE held \union RefsOf(obj, obj[o].refs), stored)
    /\ UNCHANGED <<from, track, fault>>

-----------------------------------------------------------------------------
(* Spytify *)

(* __init__: the session is there (module Login) and the thread is started. *)
(* When one of them fails it raises and there is no object to call.         *)
Spytify_init ==
    /\ pcm = "none"
    /\ thread_init
    /\ UNCHANGED <<pyVars, main, gil>>

Spytify_stored_playlists ==
    /\ IF stored # Null THEN Settle(obj, heap, held \union {stored}, stored)
       ELSE \E n \in New :
               Settle([obj EXCEPT ![n] = create_rootlist], heap, held \union {n}, n)
    /\ UNCHANGED <<from, track, fault>>

Spytify_current_track ==
    /\ IF track = Null THEN Settle(obj, heap, held, stored) ELSE Keeps(create_track(track))
    /\ UNCHANGED <<from, track, fault>>

Spytify_flush_stored_playlists ==
    /\ \E n \in New : Settle([obj EXCEPT ![n] = create_rootlist], heap, held, n)
    /\ UNCHANGED <<from, track, fault>>

(* lookup of an artist, an album or a track; any other type raises *)
Spytify_lookup ==
    /\ \E t \in Answers, n \in New, wrapper \in {"artist", "album", "track"} :
          LET w == CASE wrapper = "artist" -> create_artist_full(t, FALSE)
                     [] wrapper = "album"  -> create_album_full(t, FALSE)
                     [] wrapper = "track"  -> create_track(t)
          IN  /\ Settle([obj EXCEPT ![n] = w], WithTree(t),
                        IF w = NoObj THEN held ELSE held \union {n}, stored)
              /\ from' = FromCall(t, "lookup")
    /\ UNCHANGED <<track, fault>>

(* a search that fails returns None *)
Spytify_search ==
    /\ \E t \in Unused, s, p \in New :
          /\ s # p
          /\ Settle([obj EXCEPT ![s] = create_search_result(t, p, TRUE),
                                ![p] = create_playlist(t, FALSE)],
                    WithTree(t), held \union {s}, stored)
          /\ from' = FromCall(t, "search")
    /\ UNCHANGED <<track, fault>>

(* The program drops a reference *)
Drop(o) ==
    /\ o \in held
    /\ Settle(obj, heap, held \ {o}, stored)
    /\ UNCHANGED <<from, track, fault>>

(* despotify_play stores the pointer, then reads the ids of the track; it  *)
(* fails before or after the store, and then the binding raises            *)
despotify_play(t) ==
    /\ \/ /\ track' = t
          /\ fault' = FollowString(t)
          /\ thread_play \/ UNCHANGED pcmVars
       \/ UNCHANGED <<track, fault, pcmVars>>
    /\ UNCHANGED <<obj, heap, from, held, stored, main, gil>>

Spytify_play(o) == Uses(o, "Track") /\ despotify_play(obj[o].data)

(* play_list(playlist, starting_track): the track may be of another list,  *)
(* and a list without tracks has none to start with                        *)
Spytify_play_list(o) ==
    /\ Uses(o, "Playlist")
    /\ Follow(obj[o].data) = fault
    /\ \/ despotify_play(obj[o].data)
       \/ despotify_play(Null)
       \/ \E p \in Obj : Uses(p, "Track") /\ despotify_play(obj[p].data)

(* despotify_stop keeps the track *)
Spytify_stop == UNCHANGED vars

Spytify_pause ==
    /\ thread_pause
    /\ UNCHANGED <<pyVars, main, gil>>

Spytify_resume ==
    /\ thread_play
    /\ UNCHANGED <<pyVars, main, gil>>

(* The library follows its pointer to the next of the list, or past its    *)
(* end; despotify_next looks there for a playable track (module Playback)  *)
NextTrack ==
    /\ track # Null
    /\ fault' = Follow(track)
    /\ track' \in {track, Null}
    /\ UNCHANGED <<obj, heap, from, held, stored, main, gil, pcmVars>>

Spytify_next ==
    \/ NextTrack
    \/ track # Null /\ fault' = "null" /\ track' = Null
       /\ UNCHANGED <<obj, heap, from, held, stored, main, gil, pcmVars>>

(* the network thread, at the end of a track *)
despotify_substream_callback == main # "closed" /\ pcm # "none" /\ NextTrack

(* close: thread_exit waits for the thread with the GIL held *)
Spytify_close ==
    /\ main' = "join"
    /\ thread_exit
    /\ UNCHANGED <<pyVars, gil>>

despotify_exit ==
    /\ main = "join"
    /\ pthread_join
    /\ main' = "closed"
    /\ UNCHANGED <<pyVars, gil, pcmVars>>

-----------------------------------------------------------------------------
(* The interpreter lock *)

Ready == main = "run" /\ gil = "main"

(* callback_handler: PyGILState_Ensure, which gets the lock between two     *)
(* steps of the program, but not inside a call of the binding               *)
callback_handler ==
    /\ pcm = "callback"
    /\ gil = "main" /\ main # "join"
    /\ gil' = "pcm"
    /\ UNCHANGED <<pyVars, main, pcmVars>>

(* handle: the time or the end of the list, or a new track, which the      *)
(* program's callback may keep; then PyGILState_Release                    *)
Spytify_handle ==
    /\ gil = "pcm"
    /\ \/ UNCHANGED pyVars
       \/ track # Null /\ Keeps(create_track(track)) /\ UNCHANGED <<from, track, fault>>
    /\ gil' = "main"
    /\ pcm' = "switch"
    /\ UNCHANGED <<main, play_state>>

-----------------------------------------------------------------------------
(* Reads and drops work on a closed session too *)
Read(o) ==
    \/ Album_name(o) \/ Album_id(o) \/ Album_cover_id(o) \/ Album_popularity(o)
    \/ Album_year(o) \/ Album_tracks(o) \/ Album_repr(o)
    \/ Track_track_id(o) \/ Track_file_id(o) \/ Track_has_meta_data(o) \/ Track_is_playable(o)
    \/ Track_title(o) \/ Track_artists(o) \/ Track_album(o) \/ Track_length(o)
    \/ Track_tracknumber(o) \/ Track_year(o) \/ Track_popularity(o) \/ Track_repr(o)
    \/ \E other \in Obj : Track_richcmp(o, other)
    \/ Playlist_name(o) \/ Playlist_author(o) \/ Playlist_id(o)
    \/ Playlist_is_collaborative(o) \/ Playlist_tracks(o) \/ Playlist_repr(o)
    \/ SearchResult_query(o) \/ SearchResult_suggestion(o) \/ SearchResult_total_artists(o)
    \/ SearchResult_total_albums(o) \/ SearchResult_total_tracks(o) \/ SearchResult_playlist(o)
    \/ Artist_name(o) \/ Artist_id(o) \/ Artist_portrait_id(o) \/ Artist_repr(o)
    \/ Artist_popularity(o)
    \/ SpotifyObject_get_http_link(o)
    \/ RootIterator_next(o)
    \/ Drop(o)

Request(o) ==
    \/ Artist_text(o) \/ Artist_genres(o) \/ Artist_albums(o)
    \/ RootList_len(o) \/ RootList_getitem(o) \/ RootList_contains(o)
    \/ RootList_repr(o) \/ RootList_iter(o)

Call ==
    \/ Spytify_stored_playlists \/ Spytify_current_track
    \/ Spytify_flush_stored_playlists
    \/ Spytify_lookup \/ Spytify_search

Main ==
    \/ /\ gil = "main" /\ main # "join"
       /\ \E o \in Obj : Read(o)
       /\ UNCHANGED <<main, gil, pcmVars>>
    \/ /\ Ready /\ pcm # "none"
       /\ (\E o \in Obj : Request(o)) \/ Call
       /\ UNCHANGED <<main, gil, pcmVars>>
    \/ Ready /\ Spytify_init
    \/ /\ Ready /\ pcm # "none"
       /\ \/ \E o \in Obj : Spytify_play(o) \/ Spytify_play_list(o)
          \/ Spytify_stop \/ Spytify_pause \/ Spytify_resume \/ Spytify_next
          \/ Spytify_close
    \/ despotify_exit

Audio ==
    \/ PcmLoop /\ UNCHANGED <<pyVars, main, gil>>
    \/ callback_handler
    \/ Spytify_handle

(* a fault ends the process *)
Next == fault = "none" /\ (Main \/ Audio \/ despotify_substream_callback)

Fairness ==
    /\ WF_vars(Next /\ Audio)
    /\ WF_vars(Next /\ despotify_exit)

Spec == Init /\ [][Next]_vars /\ Fairness

-----------------------------------------------------------------------------
(* Every variable has its type. *)
TypeOK ==
    /\ \A o \in Obj :
          /\ obj[o].class \in Classes \union {"none"}
          /\ obj[o].data \in Tree \union {Null}
          /\ obj[o].refs \subseteq {p \in Obj : obj[p].class \in {"Playlist", "RootList"}}
    /\ heap \in [Tree -> {"unused", "live", "freed", "twice"}]
    /\ from \in [Tree -> {"none", "search", "rootlist", "lookup"}]
    /\ held \subseteq {o \in Obj : obj[o].class # "none"}
    /\ stored \in Obj \union {Null}
    /\ track \in Tree \union {Null}
    /\ fault \in {"none", "null", "freed"}
    /\ main \in {"run", "join", "closed"}
    /\ gil \in {"main", "pcm"}
    /\ PcmTypeOK

(* The wrappers whose __dealloc__ frees t *)
Owners(t) == {o \in Obj : obj[o].data = t /\ obj[o].class \in {"SearchResult", "RootList"}}

(* Collecting wrappers in whatever order never frees a struct twice; and    *)
(* what a search or the stored playlists allocated is freed with its owner: *)
(* a live tree of theirs still has one, flushed or not.  (With every type.) *)
FreedExactlyOnce ==
    /\ TypeOK
    /\ \A t \in Tree : heap[t] # "twice"
    /\ \A t \in Tree :
         heap[t] = "live" /\ from[t] \in {"search", "rootlist"} =>
             Owners(t) # {}

(* A pointer into a freed tree is one into a search or the stored playlists    *)
(* whose owner, the SearchResult or RootList, has gone: while that is there, and   *)
(* for ever if a lookup allocated the tree, its wrappers and the track pointer of  *)
(* the library can be followed; and only a read through such a pointer hits freed  *)
(* memory.  Whichever requests fail and callbacks come in between.                *)
DanglesOnlyWithoutOwner ==
    LET gone == {t \in Tree : from[t] \in {"search", "rootlist"} /\ Owners(t) = {}}
    IN  /\ \A t \in Tree \ gone :
              (track = t \/ \E o \in Obj : obj[o].data = t) => heap[t] = "live"
        /\ fault = "freed" => gone # {}

(* Not so: nothing reads freed memory, and the track pointer of the library,   *)
(* which the network and the audio thread follow at any time, never dangles.   *)
NoUseAfterFree ==
    /\ fault # "freed"
    /\ track # Null => heap[track] = "live"

(* A request that failed never makes an attribute read a NULL string. *)
NoNullString == fault # "null"

(* close ends the session. *)
CloseReturns == main = "join" ~> main = "closed"
==============================================================================
