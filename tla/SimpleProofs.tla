---------------------------- MODULE SimpleProofs ----------------------------
(***************************************************************************)
(* Proofs about the lists of the command line client, for any number of    *)
(* requests: what it fetches is freed once and only once, the lists a      *)
(* command reads are live unless the last search failed, and what is       *)
(* queued for the PCM thread is live.                                      *)
(*                                                                         *)
(* The argument is ownership.  Each live tree is owned by exactly one of   *)
(* rootlist, search and playalbum, except for the moment between a free    *)
(* and the answer that replaces the pointer; searchlist and lastlist only  *)
(* alias an owner.                                                         *)
(***************************************************************************)
EXTENDS Simple, TLAPS

heapVars == <<lists, heap, kind>>

Types == {"none", "playlists", "search", "album"}

(* What is reachable from the client's pointers has its type and is no struct *)
(* yet to be allocated.                                                       *)
PointerInv ==
    /\ heap \in [Tree -> {"unused", "live", "freed", "twice"}]
    /\ kind \in [Tree -> Types]
    /\ rootlist # Null => rootlist \in Tree /\ kind[rootlist] = "playlists" /\ heap[rootlist] # "unused"
    /\ search # Null => search \in Tree /\ kind[search] = "search" /\ heap[search] # "unused"
    /\ searchlist # Null =>
          searchlist \in Tree /\ kind[searchlist] = "search" /\ heap[searchlist] # "unused"
    /\ playalbum # Null =>
          playalbum \in Tree /\ kind[playalbum] = "album" /\ heap[playalbum] # "unused"

(* searchlist and lastlist are aliases; a search that failed leaves searchlist *)
(* behind.                                                                     *)
AliasInv ==
    /\ search # Null => searchlist = search
    /\ lastlist \in {Null, rootlist, searchlist}

Working == {"start", "login", "prompt", "search_stop", "search_free", "search_ask",
            "album_stop", "album_free", "album_ask"}
Quit == {"thread_exit", "join", "done"}

(* Every live tree has its owner; an owner points to a freed tree only while  *)
(* the request for its successor is under way.                                *)
OwnerInv ==
    /\ main \in Working \union Quit \union {"exit"}
    /\ \A t \in Tree : heap[t] # "twice"
    /\ main \in Quit => \A t \in Tree : heap[t] # "live"
    /\ main \in Working =>
          /\ \A t \in Tree : heap[t] = "live" => t \in {rootlist, search, playalbum}
          /\ rootlist # Null => heap[rootlist] = "live"
          /\ search # Null => (heap[search] = "live" <=> main # "search_ask")
          /\ playalbum # Null => (heap[playalbum] = "live" <=> main # "album_ask")

HeapInv == PointerInv /\ AliasInv /\ OwnerInv

(* A step that leaves the lists alone, and neither begins nor ends a request. *)
LEMMA ListsUntouched ==
    ASSUME HeapInv, UNCHANGED heapVars,
           \/ main' = main
           \/ main' = "exit"
           \/ {main, main'} \subseteq Working \ {"search_ask", "album_ask"}
           \/ {main, main'} \subseteq Quit
    PROVE  HeapInv'
<1>1. PointerInv' /\ AliasInv'
  BY DEF HeapInv, PointerInv, AliasInv, heapVars, lists
<1>2. OwnerInv'
  BY DEF HeapInv, OwnerInv, Working, Quit, heapVars, lists
<1> QED BY <1>1, <1>2 DEF HeapInv

(* list asks for the stored playlists once. *)
LEMMA ListKeepsHeap == ASSUME HeapInv, list PROVE HeapInv'
<1>1. main = "prompt" /\ main' = "prompt"
      /\ UNCHANGED <<search, searchlist, lastlist, playalbum>>
  BY DEF list, Prompt
<1>2. CASE rootlist # Null \/ (rootlist' = Null /\ Receive(Null, "playlists"))
  <2>1. UNCHANGED heapVars
    BY <1>1, <1>2 DEF list, Receive, heapVars, lists
  <2> QED BY <1>1, <2>1, ListsUntouched
<1>3. ASSUME rootlist = Null, NEW t \in Unused, rootlist' = t, Receive(t, "playlists")
      PROVE  HeapInv'
  <2>1. /\ t \in Tree /\ t # Null /\ heap[t] = "unused"
        /\ heap' = [heap EXCEPT ![t] = "live"] /\ kind' = [kind EXCEPT ![t] = "playlists"]
    BY <1>3, NullAssumption DEF Unused, Receive
  <2>2. PointerInv'
    BY <1>1, <1>3, <2>1 DEF HeapInv, PointerInv, Types
  <2>3. AliasInv'
    BY <1>1, <1>3 DEF HeapInv, AliasInv
  <2>4. heap'[t] = "live" /\ \A u \in Tree : u # t => heap'[u] = heap[u]
    BY <2>1 DEF HeapInv, PointerInv
  <2>5. \A u \in {search, playalbum} : u # Null => u \in Tree /\ u # t
    BY <2>1 DEF HeapInv, PointerInv
  <2>6. OwnerInv'
    BY <1>1, <1>3, <2>1, <2>4, <2>5, NullAssumption DEF HeapInv, OwnerInv, Working, Quit
  <2> QED BY <2>2, <2>3, <2>6 DEF HeapInv
<1> QED BY <1>2, <1>3 DEF list, Answers

(* A command that makes another live list the last one. *)
LEMMA ViewKeepsHeap == ASSUME HeapInv, list_num \/ search_more PROVE HeapInv'
<1>1. /\ main' = main
      /\ UNCHANGED <<rootlist, search, searchlist, playalbum, heap, kind>>
      /\ lastlist' \in {lastlist, rootlist, searchlist}
  BY DEF list_num, search_more, get_playlist
<1>2. PointerInv'
  BY <1>1 DEF HeapInv, PointerInv
<1>3. AliasInv'
  BY <1>1 DEF HeapInv, AliasInv
<1>4. OwnerInv'
  BY <1>1 DEF HeapInv, OwnerInv
<1> QED BY <1>2, <1>3, <1>4 DEF HeapInv

(* The old search, or the old album, is freed. *)
LEMMA FreeKeepsHeap == ASSUME HeapInv, search_free \/ playalbum_free PROVE HeapInv'
<1>1. CASE search_free
  <2>1. /\ main = "search_free" /\ main' = "search_ask" /\ UNCHANGED <<lists, kind>>
        /\ search = Null => heap' = heap
        /\ search # Null => heap' = [heap EXCEPT ![search] = "freed"]
    BY <1>1 DEF search_free, FreeOf, HeapInv, OwnerInv, PointerInv, Working
  <2>2. PointerInv'
    BY <2>1 DEF HeapInv, PointerInv, lists
  <2>3. AliasInv'
    BY <2>1 DEF HeapInv, AliasInv, lists
  <2>4. OwnerInv'
    BY <2>1 DEF HeapInv, PointerInv, OwnerInv, lists, Working, Quit
  <2> QED BY <2>2, <2>3, <2>4 DEF HeapInv
<1>2. CASE playalbum_free
  <2>1. /\ main = "album_free" /\ main' = "album_ask" /\ UNCHANGED <<lists, kind>>
        /\ playalbum = Null => heap' = heap
        /\ playalbum # Null => heap' = [heap EXCEPT ![playalbum] = "freed"]
    BY <1>2 DEF playalbum_free, FreeOf, HeapInv, OwnerInv, PointerInv, Working
  <2>2. PointerInv'
    BY <2>1 DEF HeapInv, PointerInv, lists
  <2>3. AliasInv'
    BY <2>1 DEF HeapInv, AliasInv, lists
  <2>4. OwnerInv'
    BY <2>1 DEF HeapInv, PointerInv, OwnerInv, lists, Working, Quit
  <2> QED BY <2>2, <2>3, <2>4 DEF HeapInv
<1> QED BY <1>1, <1>2

(* The request failed: the owner is NULL, the aliases stay. *)
LEMMA FailKeepsHeap == ASSUME HeapInv, search_fails \/ playalbum_fails PROVE HeapInv'
<1>1. CASE search_fails
  <2>1. /\ main = "search_ask" /\ main' = "prompt" /\ search' = Null
        /\ UNCHANGED <<rootlist, searchlist, lastlist, playalbum, heap, kind>>
    BY <1>1 DEF search_fails
  <2> QED BY <2>1 DEF HeapInv, PointerInv, AliasInv, OwnerInv, Working, Quit
<1>2. CASE playalbum_fails
  <2>1. /\ main = "album_ask" /\ main' = "prompt" /\ playalbum' = Null
        /\ UNCHANGED <<rootlist, search, searchlist, lastlist, heap, kind>>
    BY <1>2 DEF playalbum_fails
  <2> QED BY <2>1 DEF HeapInv, PointerInv, AliasInv, OwnerInv, Working, Quit
<1> QED BY <1>1, <1>2

(* The request was answered: a new tree takes the place of the freed one. *)
LEMMA AnswerKeepsHeap == ASSUME HeapInv, search_answered \/ playalbum_answered PROVE HeapInv'
<1>1. CASE search_answered
  <2>1. PICK t \in Unused : /\ Receive(t, "search")
                            /\ search' = t /\ searchlist' = t /\ lastlist' = t
    BY <1>1 DEF search_answered
  <2>2. /\ main = "search_ask" /\ main' = "prompt" /\ UNCHANGED <<rootlist, playalbum>>
        /\ t \in Tree /\ t # Null /\ heap[t] = "unused"
        /\ heap' = [heap EXCEPT ![t] = "live"] /\ kind' = [kind EXCEPT ![t] = "search"]
    BY <1>1, <2>1, NullAssumption DEF search_answered, Unused, Receive
  <2>3. PointerInv'
    BY <2>1, <2>2 DEF HeapInv, PointerInv, Types
  <2>4. AliasInv'
    BY <2>1, <2>2 DEF HeapInv, AliasInv
  <2>5. heap'[t] = "live" /\ \A u \in Tree : u # t => heap'[u] = heap[u]
    BY <2>2 DEF HeapInv, PointerInv
  <2>6. \A u \in {rootlist, playalbum} : u # Null => u \in Tree /\ u # t
    BY <2>2 DEF HeapInv, PointerInv
  <2>7. OwnerInv'
    BY <2>1, <2>2, <2>5, <2>6, NullAssumption DEF HeapInv, OwnerInv, Working, Quit
  <2> QED BY <2>3, <2>4, <2>7 DEF HeapInv
<1>2. CASE playalbum_answered
  <2>1. PICK t \in Unused : Receive(t, "album") /\ playalbum' = t
    BY <1>2 DEF playalbum_answered
  <2>2. /\ main = "album_ask" /\ main' = "prompt"
        /\ UNCHANGED <<rootlist, search, searchlist, lastlist>>
        /\ t \in Tree /\ t # Null /\ heap[t] = "unused"
        /\ heap' = [heap EXCEPT ![t] = "live"] /\ kind' = [kind EXCEPT ![t] = "album"]
    BY <1>2, <2>1, NullAssumption DEF playalbum_answered, Unused, Receive
  <2>3. PointerInv'
    BY <2>1, <2>2 DEF HeapInv, PointerInv, Types
  <2>4. AliasInv'
    BY <2>2 DEF HeapInv, AliasInv
  <2>5. heap'[t] = "live" /\ \A u \in Tree : u # t => heap'[u] = heap[u]
    BY <2>2 DEF HeapInv, PointerInv
  <2>6. \A u \in {rootlist, search} : u # Null => u \in Tree /\ u # t
    BY <2>2 DEF HeapInv, PointerInv
  <2>7. OwnerInv'
    BY <2>1, <2>2, <2>5, <2>6, NullAssumption DEF HeapInv, OwnerInv, Working, Quit
  <2> QED BY <2>3, <2>4, <2>7 DEF HeapInv
<1> QED BY <1>1, <1>2

(* quit frees what is owned, each tree once: the owners differ in type. *)
LEMMA QuitKeepsHeap == ASSUME HeapInv, quit PROVE HeapInv'
<1> DEFINE Owned(u) == u # Null /\ u \in {rootlist, search, playalbum}
<1>1. /\ main = "prompt" /\ main' = "thread_exit" /\ UNCHANGED <<lists, kind>>
      /\ heap' = FreeOf(FreeOf(FreeOf(heap, rootlist), search), playalbum)
  BY DEF quit, Prompt
<1>2. /\ \A u \in {rootlist, search, playalbum} : u # Null => u \in Tree /\ heap[u] = "live"
      /\ rootlist # Null => rootlist # search /\ rootlist # playalbum
      /\ search # Null => search # playalbum
  BY <1>1 DEF HeapInv, PointerInv, OwnerInv, Working
<1>3. heap \in [Tree -> {"unused", "live", "freed", "twice"}]
  BY DEF HeapInv, PointerInv
<1>4. heap' = [u \in Tree |-> IF Owned(u) THEN "freed" ELSE heap[u]]
  <2> DEFINE h1 == [u \in Tree |-> IF u = rootlist /\ u # Null THEN "freed" ELSE heap[u]]
             h2 == [u \in Tree |-> IF u \in {rootlist, search} /\ u # Null THEN "freed" ELSE heap[u]]
  <2>1. FreeOf(heap, rootlist) = h1
    BY <1>2, <1>3, NullAssumption DEF FreeOf
  <2>2. FreeOf(h1, search) = h2
    BY <1>2, <1>3, NullAssumption DEF FreeOf
  <2>3. FreeOf(h2, playalbum) = [u \in Tree |-> IF Owned(u) THEN "freed" ELSE heap[u]]
    BY <1>2, <1>3, NullAssumption DEF FreeOf
  <2> QED BY <1>1, <2>1, <2>2, <2>3
<1>5. PointerInv' /\ AliasInv'
  BY <1>1, <1>3, <1>4 DEF HeapInv, PointerInv, AliasInv, lists
<1>6. OwnerInv'
  BY <1>1, <1>4, NullAssumption DEF HeapInv, OwnerInv, Working, Quit
<1> QED BY <1>5, <1>6 DEF HeapInv

LEMMA HeapStep == HeapInv /\ [Next]_vars => HeapInv'
<1> SUFFICES ASSUME HeapInv, [Next]_vars PROVE HeapInv'
  OBVIOUS
<1>1. CASE list
  BY <1>1, ListKeepsHeap
<1>2. CASE list_num \/ search_more
  BY <1>2, ViewKeepsHeap
<1>3. CASE search_free \/ playalbum_free
  BY <1>3, FreeKeepsHeap
<1>4. CASE search_fails \/ playalbum_fails
  BY <1>4, FailKeepsHeap
<1>5. CASE search_answered \/ playalbum_answered
  BY <1>5, AnswerKeepsHeap
<1>6. CASE quit
  BY <1>6, QuitKeepsHeap
<1>7. CASE rename \/ collab \/ artist \/ album \/ uri \/ portrait \/ cover \/ info \/ help
  BY <1>7, ListsUntouched
  DEF rename, collab, artist, album, uri, portrait, cover, info, help, Reads, heapVars
<1>8. CASE search_pause \/ search_stop \/ playalbum_pause \/ playalbum_stop
  BY <1>8, ListsUntouched
  DEF search_pause, search_stop, playalbum_pause, playalbum_stop, Prompt, heapVars, Working
<1>9. CASE play_num \/ next \/ stop \/ pause \/ resume
  BY <1>9, ListsUntouched DEF play_num, next, stop, pause, resume, heapVars
<1>10. CASE CreateThread \/ Login \/ LoginFails
  BY <1>10, ListsUntouched DEF CreateThread, Login, LoginFails, heapVars, Working
<1>11. CASE ThreadExit \/ despotify_exit
  BY <1>11, ListsUntouched DEF ThreadExit, despotify_exit, heapVars, Quit
<1>12. CASE Pcm \/ Net
  BY <1>12, ListsUntouched
  DEF Pcm, Net, NEW_TRACK, TIME_TELL, END_OF_PLAYLIST, GetPcmFails,
      despotify_aes_callback, despotify_substream_callback, heapVars
<1>13. CASE UNCHANGED vars
  BY <1>13, ListsUntouched DEF vars, heapVars, lists
<1> QED
  BY <1>1, <1>2, <1>3, <1>4, <1>5, <1>6, <1>7, <1>8, <1>9, <1>10, <1>11, <1>12, <1>13
  DEF Next, Main, Commands

LEMMA HeapInvariant == Spec => []HeapInv
<1>1. Init => HeapInv
  BY DEF Init, HeapInv, PointerInv, AliasInv, OwnerInv, Types, Working, Quit
<1> QED BY <1>1, HeapStep, PTL DEF Spec

-----------------------------------------------------------------------------
(* The types of what the library and the PCM thread keep. *)

LibraryInv ==
    /\ track \in Tree \union {Null} /\ fifo \in Tree \union {Null}
    /\ fault \in {"none", "list", "track", "null"}

KeyType == key \in BOOLEAN

LEMMA LibraryStep == HeapInv /\ LibraryInv /\ [Next]_vars => LibraryInv'
<1> SUFFICES ASSUME HeapInv, LibraryInv, [Next]_vars PROVE LibraryInv'
  OBVIOUS
<1>0. lastlist \in Tree \union {Null}
  BY DEF HeapInv, PointerInv, AliasInv
<1> USE DEF LibraryInv, Follow, FollowTrack
<1>1. CASE UNCHANGED library /\ fault' \in {fault, "list", "null"}
  BY <1>1 DEF library
<1>2. CASE list \/ list_num \/ search_more
  BY <1>1, <1>2 DEF list, list_num, search_more
<1>3. CASE search_free \/ playalbum_free \/ search_fails \/ playalbum_fails \/ search_answered \/ quit
  BY <1>1, <1>3 DEF search_free, playalbum_free, search_fails, playalbum_fails, search_answered, quit
<1>4. CASE playalbum_answered
  BY <1>4 DEF playalbum_answered, Unused
<1>5. CASE rename \/ collab \/ artist \/ album \/ uri \/ portrait \/ cover \/ info \/ help
  BY <1>1, <1>5
  DEF rename, collab, artist, album, uri, portrait, cover, info, help, Reads, FindTrack
<1>6. CASE search_pause \/ search_stop \/ playalbum_pause \/ playalbum_stop
  BY <1>1, <1>6
  DEF search_pause, search_stop, playalbum_pause, playalbum_stop, FindTrack, despotify_stop
<1>7. CASE play_num
  BY <1>0, <1>1, <1>7 DEF play_num, despotify_play
<1>8. CASE next
  BY <1>8 DEF next, despotify_next
<1>9. CASE stop \/ pause \/ resume
  BY <1>1, <1>9 DEF stop, pause, resume, despotify_stop
<1>10. CASE CreateThread \/ Login \/ LoginFails \/ ThreadExit \/ despotify_exit
  BY <1>1, <1>10 DEF CreateThread, Login, LoginFails, ThreadExit, despotify_exit
<1>11. CASE Pcm
  BY <1>1, <1>11 DEF Pcm, NEW_TRACK, TIME_TELL, END_OF_PLAYLIST, GetPcmFails
<1>12. CASE Net
  BY <1>12 DEF Net, despotify_aes_callback, despotify_substream_callback
<1>13. CASE UNCHANGED vars
  BY <1>13 DEF vars
<1> QED
  BY <1>2, <1>3, <1>4, <1>5, <1>6, <1>7, <1>8, <1>9, <1>10, <1>11, <1>12, <1>13
  DEF Next, Main, Commands

LEMMA PcmStep == PcmTypeOK /\ [Next]_vars => PcmTypeOK'
<1> SUFFICES ASSUME PcmTypeOK, [Next]_vars PROVE PcmTypeOK'
  OBVIOUS
<1> USE DEF PcmTypeOK, PcmStates
<1>1. CASE UNCHANGED pcmVars
  BY <1>1 DEF pcmVars
<1>2. CASE thread_init \/ thread_play \/ thread_pause \/ thread_exit
  BY <1>2 DEF thread_init, thread_play, thread_pause, thread_exit, Signalled
<1>3. CASE PcmLoop
  BY <1>3 DEF PcmLoop, LoopStart, LoopSwitch, LoopWait, LoopPlay, LoopCallback
<1>4. CASE NEW_TRACK \/ TIME_TELL \/ END_OF_PLAYLIST \/ GetPcmFails
  BY <1>4 DEF NEW_TRACK, TIME_TELL, END_OF_PLAYLIST, GetPcmFails, pcmVars
<1>5. CASE Commands
  BY <1>1, <1>2, <1>5
  DEF Commands, list, list_num, rename, collab, search_pause, search_stop, search_free,
      search_fails, search_answered, search_more, artist, album, uri, portrait, cover, info,
      help, playalbum_pause, playalbum_stop, playalbum_free, playalbum_fails,
      playalbum_answered, play_num, next, stop, pause, resume, Reads
<1>6. CASE CreateThread \/ Login \/ LoginFails \/ quit \/ ThreadExit \/ despotify_exit
  BY <1>1, <1>2, <1>6 DEF CreateThread, Login, LoginFails, quit, ThreadExit, despotify_exit
<1>7. CASE Net
  BY <1>1, <1>7 DEF Net, despotify_aes_callback, despotify_substream_callback
<1>8. CASE UNCHANGED vars
  BY <1>1, <1>8 DEF vars, pcmVars
<1> QED BY <1>3, <1>4, <1>5, <1>6, <1>7, <1>8 DEF Next, Main, Pcm

LEMMA KeyStep == KeyType /\ [Next]_vars => KeyType'
<1> SUFFICES ASSUME KeyType, [Next]_vars PROVE KeyType'
  OBVIOUS
<1>1. key' = key \/ key' = TRUE \/ key' = FALSE
  BY Zenon
  DEF Next, Main, Pcm, Net, Commands, list, list_num, rename, collab, search_pause, search_stop,
      search_free, search_fails, search_answered, search_more, artist, album, uri, portrait,
      cover, info, help, playalbum_pause, playalbum_stop, playalbum_free, playalbum_fails,
      playalbum_answered, play_num, next, stop, pause, resume, Reads, despotify_stop,
      despotify_next, despotify_play, CreateThread, Login, LoginFails, quit, ThreadExit,
      despotify_exit, NEW_TRACK, TIME_TELL, END_OF_PLAYLIST, GetPcmFails,
      despotify_aes_callback, despotify_substream_callback, library, vars
<1> QED BY <1>1, Zenon DEF KeyType

(* Nothing the client fetches is freed twice, and nothing is left when main    *)
(* returns, for any number of lists, searches and albums and whichever of the  *)
(* requests fail; every pointer points to a struct of its type.                *)
THEOREM EveryListFreedOnce == Spec => []FreedExactlyOnce
<1>1. Init => LibraryInv /\ PcmTypeOK
  BY DEF Init, LibraryInv, PcmInit, PcmTypeOK, PcmStates
<1>2. Init => KeyType
  BY Zenon DEF Init, KeyType
<1>3. HeapInv /\ LibraryInv /\ PcmTypeOK /\ KeyType => FreedExactlyOnce
  <2> SUFFICES ASSUME HeapInv, LibraryInv, PcmTypeOK, KeyType PROVE FreedExactlyOnce
    OBVIOUS
  <2>1. /\ rootlist \in {t \in Tree : kind[t] = "playlists"} \union {Null}
        /\ search \in {t \in Tree : kind[t] = "search"} \union {Null}
        /\ searchlist \in {t \in Tree : kind[t] = "search"} \union {Null}
        /\ lastlist \in {t \in Tree : kind[t] \in {"playlists", "search"}} \union {Null}
        /\ playalbum \in {t \in Tree : kind[t] = "album"} \union {Null}
    BY DEF HeapInv, PointerInv, AliasInv
  <2>2. TypeOK
    BY <2>1 DEF TypeOK, HeapInv, PointerInv, LibraryInv, KeyType, Types
  <2>3. /\ \A t \in Tree : heap[t] # "twice"
        /\ main = "done" => \A t \in Tree : heap[t] # "live"
    BY DEF HeapInv, OwnerInv, Quit
  <2> QED BY <2>2, <2>3 DEF FreedExactlyOnce
<1> QED BY <1>1, <1>2, <1>3, HeapInvariant, LibraryStep, PcmStep, KeyStep, PTL DEF Spec

(* As long as the last search succeeded, the list a command reads and the list *)
(* that the next search extends are live: they alias what the client owns.     *)
THEOREM ReadListsAreLive == Spec => []ListsAreLive
<1>1. HeapInv => ListsAreLive
  <2> SUFFICES ASSUME HeapInv, main = "prompt", search # Null
               PROVE  ~Freed(lastlist) /\ ~Freed(searchlist)
    BY DEF ListsAreLive
  <2>1. /\ heap[search] = "live" /\ searchlist = search
        /\ rootlist # Null => heap[rootlist] = "live"
        /\ lastlist \in {Null, rootlist, searchlist}
    BY DEF HeapInv, AliasInv, OwnerInv, Working
  <2> QED BY <2>1 DEF Freed
<1> QED BY <1>1, HeapInvariant, PTL

-----------------------------------------------------------------------------
(* What is queued for the PCM thread, when no key arrives during a command.  *)

Replacing == {"search_stop", "search_free", "search_ask", "album_stop", "album_free", "album_ask"}
Stopped == {"search_free", "search_ask", "album_free", "album_ask"}

(* From the pause on no key is on its way, so what despotify_stop emptied      *)
(* stays empty until the list is replaced.                                     *)
QueueInv ==
    /\ main \in Replacing => key = FALSE
    /\ main \in Stopped => fifo = Null
    /\ fault = "none" /\ main \in Working => ~Freed(fifo)

(* A step of a command at the prompt that leaves the queue and the heap alone. *)
LEMMA QueueUntouched ==
    ASSUME QueueInv, UNCHANGED <<heap, fifo, key>>,
           fault' = "none" => fault = "none",
           \/ main' = main
           \/ main \in Working /\ main' \in Working \ Replacing
    PROVE  QueueInv'
BY DEF QueueInv, Freed, Working, Replacing, Stopped

(* A step that empties the queue. *)
LEMMA QueueEmptied ==
    ASSUME QueueInv, fifo' = Null,
           main' \in Replacing => key' = FALSE
    PROVE  QueueInv'
BY DEF QueueInv, Freed

(* A step after which nothing is claimed of the queue. *)
LEMMA QueueLeft ==
    ASSUME main' \in Quit \union {"exit"}
    PROVE  QueueInv'
BY DEF QueueInv, Working, Replacing, Stopped, Quit

LEMMA QueueStep ==
    ASSUME KeysInTime
    PROVE  HeapInv /\ LibraryInv /\ KeyType /\ QueueInv /\ [Next]_vars => QueueInv'
<1> SUFFICES ASSUME HeapInv, LibraryInv, KeyType, QueueInv, [Next]_vars PROVE QueueInv'
  OBVIOUS
<1>0. main \in Working \union Quit \union {"exit"}
  BY DEF HeapInv, OwnerInv
<1>1. CASE rename \/ collab \/ artist \/ album \/ uri \/ portrait \/ cover \/ info \/ help
  <2>1. UNCHANGED <<heap, library, main>>
    BY <1>1 DEF rename, collab, artist, album, uri, portrait, cover, info, help, Reads
  <2>2. fault = "none" \/ UNCHANGED vars
    BY DEF Next
  <2> QED BY <2>1, <2>2, QueueUntouched DEF library, vars
<1>2. CASE list_num \/ search_more \/ pause \/ resume
  <2>1. UNCHANGED <<heap, library, main>>
    BY <1>2 DEF list_num, search_more, pause, resume
  <2>2. fault = "none" \/ UNCHANGED vars
    BY DEF Next
  <2> QED BY <2>1, <2>2, QueueUntouched DEF library, vars
<1>3. CASE list
  <2>1. main = "prompt" /\ main' = main /\ fifo' = fifo /\ key' = key
    BY <1>3 DEF list, Prompt, library
  <2>2. fault = "none" \/ UNCHANGED vars
    BY DEF Next
  <2>3. CASE fault = "none"
    <3>1. fifo # Null => fifo \in Tree /\ heap[fifo] = "live"
      BY <2>1, <2>3 DEF QueueInv, Freed, LibraryInv, Working
    <3>2. fifo # Null => heap'[fifo] = "live"
      BY <1>3, <3>1 DEF list, Receive, HeapInv, PointerInv
    <3> QED BY <2>1, <3>2 DEF QueueInv, Freed, Replacing, Stopped
  <2>4. CASE UNCHANGED vars
    BY <2>4, QueueUntouched DEF vars
  <2> QED BY <2>2, <2>3, <2>4
<1>4. CASE search_pause \/ playalbum_pause
  <2>1. /\ main = "prompt" /\ UNCHANGED <<heap, library>>
        /\ main' \in {"prompt", "search_stop", "album_stop"}
    BY <1>4 DEF search_pause, playalbum_pause, Prompt
  <2>2. key' = FALSE
    <3>1. ~key
      BY <1>4 DEF search_pause, playalbum_pause, Prompt
    <3>2. key = FALSE
      BY <3>1, Zenon DEF KeyType
    <3> QED BY <2>1, <3>2 DEF library
  <2>3. fault = "none" \/ UNCHANGED vars
    BY DEF Next
  <2> QED BY <2>1, <2>2, <2>3 DEF QueueInv, Freed, Working, Stopped, library, vars
<1>5. CASE search_stop \/ playalbum_stop
  <2>1. main \in Replacing /\ fifo' = Null /\ key' = key
    BY <1>5 DEF search_stop, playalbum_stop, despotify_stop, Replacing
  <2> QED BY <2>1, QueueEmptied DEF QueueInv
<1>6. CASE search_free \/ playalbum_free
  <2>1. main \in Replacing /\ main \in Stopped /\ UNCHANGED library
    BY <1>6 DEF search_free, playalbum_free, Replacing, Stopped
  <2> QED BY <2>1, QueueEmptied DEF QueueInv, library
<1>7. CASE search_fails \/ playalbum_fails \/ search_answered
  <2>1. main \in Stopped /\ main' = "prompt" /\ UNCHANGED library
    BY <1>7 DEF search_fails, playalbum_fails, search_answered, Stopped
  <2> QED BY <2>1, QueueEmptied DEF QueueInv, library, Replacing
<1>8. CASE playalbum_answered
  <2>1. main' = "prompt" /\ fifo' = Null
    BY <1>8 DEF playalbum_answered
  <2> QED BY <2>1, QueueEmptied DEF Replacing
<1>9. CASE play_num
  <2>1. main = "prompt" /\ main' = "prompt" /\ UNCHANGED heap
    BY <1>9 DEF play_num, Prompt
  <2>2. fifo' = Null \/ (fault' = "list")
    BY <1>9 DEF play_num, despotify_play
  <2> QED BY <2>1, <2>2 DEF QueueInv, Freed, Replacing, Stopped
<1>10. CASE next \/ stop
  <2>1. main = "prompt" /\ main' = "prompt" /\ fifo' = Null
    BY <1>10 DEF next, stop, Prompt, despotify_next, despotify_stop
  <2> QED BY <2>1, QueueEmptied DEF Replacing
<1>11. CASE CreateThread \/ Login
  BY <1>11, QueueUntouched DEF CreateThread, Login, library, Working, Replacing
<1>12. CASE LoginFails \/ quit \/ ThreadExit \/ despotify_exit \/ GetPcmFails
  BY <1>12, QueueLeft DEF LoginFails, quit, ThreadExit, despotify_exit, GetPcmFails, Quit
<1>13. CASE PcmLoop /\ UNCHANGED <<lists, heap, kind, library, fault, main>>
  BY <1>13, QueueUntouched DEF library
<1>14. CASE TIME_TELL \/ END_OF_PLAYLIST
  BY <1>14, QueueUntouched DEF TIME_TELL, END_OF_PLAYLIST, library
<1>15. CASE NEW_TRACK
  <2>1. fifo' = Null /\ key' = key /\ main' = main
    BY <1>15 DEF NEW_TRACK
  <2> QED BY <2>1, QueueEmptied DEF QueueInv
<1>16. CASE despotify_aes_callback
  <2>1. UNCHANGED <<heap, track, main>> /\ key' = FALSE
        /\ \/ fifo' = track /\ fault' = FollowTrack(track)
           \/ UNCHANGED <<fifo, fault>>
    BY <1>16 DEF despotify_aes_callback
  <2>2. main \notin Replacing
    BY <1>16 DEF despotify_aes_callback, QueueInv
  <2>3. CASE fifo' = track /\ fault' = FollowTrack(track)
    BY <2>1, <2>2, <2>3 DEF QueueInv, Freed, FollowTrack, Replacing, Stopped
  <2>4. CASE UNCHANGED <<fifo, fault>>
    BY <2>1, <2>2, <2>4 DEF QueueInv, Freed, Replacing, Stopped
  <2> QED BY <2>1, <2>3, <2>4
<1>17. CASE despotify_substream_callback
  <2>1. UNCHANGED <<heap, fifo, main>> /\ (key' = key \/ main = "prompt")
    BY <1>17 DEF despotify_substream_callback
  <2>2. fault = "none" \/ UNCHANGED vars
    BY DEF Next
  <2> QED BY <2>1, <2>2 DEF QueueInv, Freed, Replacing, Stopped, vars
<1>18. CASE UNCHANGED vars
  BY <1>18, QueueUntouched DEF vars
<1> QED
  BY <1>1, <1>2, <1>3, <1>4, <1>5, <1>6, <1>7, <1>8, <1>9, <1>10, <1>11, <1>12, <1>13, <1>14,
     <1>15, <1>16, <1>17, <1>18
  DEF Next, Main, Commands, Pcm, Net

(* While no key arrives in the middle of a command, the track that is queued   *)
(* for the PCM thread is live whenever the user is at the prompt: searches and *)
(* albums stop playback before they free the list it comes from.               *)
THEOREM QueuedTrackIsLive ==
    ASSUME KeysInTime
    PROVE  Spec => []QueuedIsLive
<1>1. Init => LibraryInv /\ QueueInv
  BY DEF Init, LibraryInv, QueueInv, Freed, Replacing, Stopped
<1>2. Init => KeyType
  BY Zenon DEF Init, KeyType
<1>3. QueueInv => QueuedIsLive
  BY DEF QueueInv, QueuedIsLive, Working
<1>4. HeapInv /\ LibraryInv /\ KeyType /\ QueueInv /\ [Next]_vars => QueueInv'
  BY QueueStep
<1> QED BY <1>1, <1>2, <1>3, <1>4, HeapInvariant, LibraryStep, KeyStep, PTL DEF Spec
=============================================================================
