# A TLA+ model of despotify

despotify is a client for the Spotify service of 2009: a C library
(`src/src/lib`), a curses client, a command-line client, a gateway and bindings.
This project models the core of the library (the channels that carry every
request, the encrypted packet layer under them, the login and the end of a
session, the synchronous requests, playback) and the programs on top of it: the
two clients, the gateway and the Python binding. Paths below are those of the
repository, `src/` being its root.

## 1. The system

### Threads

The library has no event loop of its own. Up to three threads run in it:

| thread | started by | runs |
|---|---|---|
| caller | the client | `despotify_authenticate`, `despotify_play`, `despotify_search`, ... `despotify_exit` |
| network | `despotify_authenticate` | `despotify_thread`: `packet_read`, `handle_packet`, the channel callbacks |
| PCM | the client | a loop around `despotify_get_pcm` |

The PCM thread is code of each client (`simple.c`, `despotify/session.c`,
`audio_thread.c` of the Python binding), three copies of one text: module
`PcmThread`. The gateway has no thread but its own and uses only the lower half
of the library (sessions, packets, channels).

The threads share one `despotify_session` and the static channel table. Only the sound
FIFO has a mutex. `sync_mutex` and `login_mutex` exist for their condition
variables alone: nothing is read or written under them.

### Components

| component | files | state | operations | properties that make it correct |
|---|---|---|---|---|
| channel table | `channel.c` | list of channels, `next_channel_id`, state of each channel | register, unregister, process | ids of live channels are distinct; an answer finds its channel; the callback sees headers, data, one end; channels are given back |
| commands, handlers | `commands.c`, `handlers.c` | none of their own | one per request, one per packet type | a failed write leaves nothing behind |
| packets, session end | `packet.c`, `session.c` | socket, Shannon states, two nonces | write, read, disconnect | the server can decrypt what is sent; nothing wrongly decrypted is handled; the thread ends |
| login and life cycle | `despotify.c` 60-230, `keyexchange.c`, `auth.c` | the thread, `last_error`, `login_cond` | authenticate, exit, free | success means the server said welcome; both calls return; the thread is gone before the session is |
| playback | `sndqueue.c`, `despotify.c` 232-520 | FIFO, `totbytes`, `dlstate`, `dlabort`, `track`, `offset`, AES state, decoder | play, next, stop, get_pcm, key and substream callbacks | byte count exact and bounded; one substream at a time; the queue is a proper stream; the list is played to its end; calls return |
| requests | `despotify.c` 522-1500 | `response`, `list_of_lists`, `sync_cond` | search, browse, image, playlists, changes | an answer goes to the call that asked; it is not lost; no write after free; calls return |
| cache | `cache.c` | files | load, store, revision | only complete answers |
| XML, links, utilities | `xml.c`, `ezxml.c`, `link.c`, `buf.c`, `util.c` ... | none | pure conversions | result = reference definition |
| client despotify | `clients/despotify` | message queue, `g_session`, `play_state`, shown screen, focus, input line, cursors | event loop, keys and commands, connect, disconnect, PCM thread | keys reach what is on the screen; cursors on a track; no playback from a freed session; the screen tells the state; quitting works |
| client simple | `clients/simple` | `rootlist`, `search`, `searchlist`, `lastlist`, `playalbum`, `play_state` | one per command, the callback | lists freed once and not used after; what is queued is live; quitting works |
| gateway | `clients/gateway` | arrays of connections and sessions, their states, the output of a command | `rest_fsm`, `spotify_fsm`, the requests and their callbacks | the answer goes to who asked, once; no use of a freed session; one session per account; waiting ends |
| Python binding | `bindings/python` | Python objects with a pointer and an owner flag | constructors, attributes, deallocation, session calls | each struct freed once, never while reachable or played |

`PROJECT.json` has the complete list, with those that are left out (ciphers,
audio back ends, the GTK client, the Ruby binding, the Java implementation).

### What is hard

- *Locks that are not there.* The channel table, the send half of the cipher,
  `dlstate`, `track` and `offset` are read and written by two or three threads.
- *Conditions without a predicate.* The two waits that stand for "an answer is
  there" (`despotify.c:165`, `660`) look at nothing: an early signal is lost, a
  late one is taken for another, and so is a wake-up that nobody signalled.
- *Answers out of time.* A request that timed out stays alive; a key arrives for
  a track that was stopped; data arrives during `snd_stop`.
- *Errors that end nothing.* A failed write or a channel error leaves a state
  that only a normal end would have left.
- *Memory with two owners.* Search results, playlists and albums are trees
  freed as a whole, by a command, a garbage collector or a logout, while the
  library, another list, another object or another connection points into them.
- *The PCM thread.* It looks at `play_state` outside the lock and waits without
  looking again; its callbacks post messages, draw, take the interpreter lock and
  set `play_state` themselves. In the curses client both threads draw the footer,
  without a lock.
- *Boundaries.* The ids of the table are wider than those of the packet; a
  substream may be empty; the list may end with tracks that cannot be played.

The hazards of `PROJECT.json` list these line by line, with the property that
catches each.

## 2. The modules

| module | models | state ↔ code | actions ↔ code |
|---|---|---|---|
| `ChannelIds` | what the channel table promises | `ids`: the id of each registered channel | `Register`, `Unregister` |
| `Channel` | `channel.c`, the commands and handlers that use it; operations atomic | `live`, `channel_id`, `state`, `next_channel_id` as in the code; `open` is the server; `heard` is what the callback was told; `crowded` is a history: three channels were in the table at once, and since then it was never empty with nothing owed | `Command` = register and write; `CommandWriteFails`, `SubstreamWriteFails` = the error returns; `handle_channeldata`, `handle_channelerr`, `handle_aeskey`, `handle_aeskeyerr` |
| `ChannelThreads` | the list of the table, store by store, for any number of threads | `head`, `nxt`, `channel_id`, `next_channel_id`, and per thread a program counter and the C locals | one action per load or store of shared state in `channel_register` and `channel_unregister` |
| `Packet` | `packet_write`, `packet_read`, `session_disconnect` | the nonces, the send cipher as (nonce, key stream used), the socket `up`, what is on the `wire` | per thread: nonce, encrypt, MAC, `send`, `send`, increment; header, nonce, payload, increment; close, reset |
| `Login` | `despotify_authenticate`, `despotify_thread`, `despotify_exit`, `despotify_free` | `caller` and `thread` are the two threads, `connection` the socket, `inbox` the next packet | one per stage of the login, each with its error return; wait and wake on `login_cond`, `SpuriousWakeup`; cancel, join, destroy |
| `Request` | the synchronous calls and their two callbacks | `response`, `buffer`, `list_of_lists`, `cache`; `channel`/`sent` is the server; `early` and `late` are histories: the calls whose wait ended early, and those made while an earlier answer was owed | `Call`, `Send`, `SendFails`, `Wait`, `Timeout`, `SpuriousWakeup`, `Use`, `Free`; `Data`, `End`, `Error` |
| `Playback` | `sndqueue.c` and the playback half of `despotify.c` | the fields of `snd_fifo` and `despotify_session` by their names; `api`, `pcm`, `net` are the three threads; `requests` is the server | `Api*` for `despotify_play`/`next`/`stop`, `Pcm*` for `snd_get_pcm` down to `snd_consume_data`, `Net*` for the callbacks |
| `PcmThread` | the PCM thread of every client, and `thread_play`, `thread_pause`, `thread_exit` | `play_state`; `pcm` is where the thread is | one per section under `thread_mutex`, and one per turn of `thread_loop`; extended by the next three |
| `Client` | the curses client | `app`: screen, focus, input line, message queue, the footer and how far the PCM thread is in drawing it; `ses` = `g_session`; `list`: searches and cursors; `main`: where the main thread is | one per key and element, `cmd_cb_*` for the commands, the steps of `sess_connect` and `sess_disconnect`, of `event_loop`, the signal handlers at any time, the PCM thread's logging and callbacks, and one per access of `ui_update` and `footer_draw` |
| `Simple` | the command-line client | the variables of `command_loop` by their names; `heap`: each tree; `track`, `key`, `fifo`: the library | one per command, taken apart where lists are freed; the three callbacks; the key and the next track of the library |
| `Spytify` | the Python binding | `obj`: the objects, `held` the variables of the program, `heap` and `from` the trees, `gil` | one per method and attribute, deallocation of what became unreachable, callbacks under the interpreter lock; the program may drop any object at any time |
| `Gateway` | the gateway | `conn` and `ses`: the fields of `RESTSESSION` and `SPOTIFYSESSION`; `rest`, `client`: main's arrays, `pos` its place in them; `chan`, `wire`: the server | one per state of `rest_fsm` and `spotify_fsm` and branch of them, `gw_*` requests and callbacks, main's clean-up and `select` |
| `ChannelProofs`, `RequestProofs`, `PlaybackProofs`, `SimpleProofs`, `SpytifyProofs`, `ClientProofs`, `GatewayProofs` | theorems about the module they are named for | | |
| `SessionProofs` | theorems about `Packet`, `Login` and `ChannelThreads` | | |
| `MC*` | symmetry sets and track sizes for TLC | | |

`ChannelIds` is the contract of the table. `Channel` and `ChannelThreads`
each state, as `ImplementsContract`, that they implement it, with
`ids <- [r \in live |-> channel_id[r]]` and with the channels that can be reached
from `head` for `live`. Both are proved; for `ChannelThreads` as long as one
thread at a time is inside an operation (`OneInside`), which the code does not
see to. `UnregisterFindsChannel` adds that nothing allocated is missing from the
list while no thread is inside. `Request`
and `Playback` use the table as `Channel` promises it: every request is a
channel of its own, its answer reaches its callback, headers, data and one end.
`Login` and `Packet` share the network thread: `Packet` has its reads,
`Login` what it does with the packets. `Client`, `Simple` and `Spytify` compose
`PcmThread` with their own threads, and the last two with what the library keeps
of the track it plays.

### What is abstracted

- Payloads. A request is its number, a data packet its position in an answer,
  a track is a number and its `Size` in packets; a DATA buffer is one packet,
  and `totbytes` counts packets. Whether a buffer was decrypted with the right
  key at the right position is its field `good`.
- The Shannon cipher is a pair: the nonce of the stream, and how much of it is
  used. That is all two ends must agree on.
- The decoders (libvorbis, libmpg123) are where they are in their read
  callback and whether they are open: external code, modelled by how
  `sndqueue.c` calls it. So are pthreads and sockets.
- Structs. A pointer into a tree of structs that is freed as a whole is the
  tree; a Python object is its class, its tree, its owner flag and the objects
  it refers to; a line read by the gateway is what it asks for. An account of the
  gateway (a member of `User`) is a username together with a password: that pair is
  what `spotify_client_allocate` compares, so one name with two passwords is two
  accounts.
- Wake-ups without a signal are in the model of `Request`, of `Login` and of the
  wait in `snd_consume_data`. They are left out of `PcmThread`, whose loop goes
  round again and looks: they could only repair what its properties are about.
- In the curses client a key is handled in one step, up to where the main thread
  waits. Both threads draw the footer access by access: the flag, the kind of input,
  the state, the print. Two things of that race are left out: one thread's
  `flags |=` may undo the other's (read, change and write of a word), and what
  happens inside ncurses. So is the damage two overlapping `event_msg_post`s may do
  to the heap; that a message is lost is in the model.
- `spytify.c` is what Cython made of the `.pyx` files and is shipped (the
  binding's README). Its reference counting is one notion, reachability; its
  tracebacks and argument checks are left out.
- A critical section is one step. Outside it a step holds about one access to
  shared memory; compilers and memories weaker than that are left out.
- The size of the sound buffer and its watermark are constants: nothing in the
  repository calls `despotify_set_buffer_size` or `despotify_set_watermark`.
- Integers are unbounded, except the 16-bit id of a packet (`WireIds`): the
  truncation is in the model and ids do pass it. `MaxId`, the bound of the ids in
  `Channel`, is above all that its run reaches, so that its guard never decides. The
  other counters of the library (nonces, `totbytes`) cannot get near their width: the
  first is one per packet, the second is bounded by `BufferBounded`.

## 3. The runs

Bounds are chosen so that every action fires and the case a property is about
happens; each property of a passing run has a mutant of the code, listed in
`PROJECT.json`, that violates it under the same bounds. `CHECK_DEADLOCK FALSE` is in every
configuration: a client may make no further call or have ended, and the bounded
counters end every behaviour. `TypeOK` of `Channel` is a property of its own run; in
the other modules it is a conjunct of one of the invariants.

| run | bounds | shows |
|---|---|---|
| `channel_three` | 3 channels, an id field of 3 values, ids up to 5 (no more than 4 are reached) | ids are unique whatever happens, callbacks come in order, the contract is kept; unless three channels were in the table at once, answers find their channel and substream channels are given back. Three are the fewest with which ids drift, here past the field; then answers are lost or misdelivered, which `AnswersFindTheirChannel` does not deny |
| `channel_one_thread` | 1 thread, 3 nodes | the list, store by store, keeps the contract; with two threads it does not |
| `packet_one` | 1 writer, 3 packets each way | the server can read everything; nothing wrongly decrypted is handled, a concurrent disconnect included; the thread ends |
| `login_session` | 4 packets, a connection that may break at any time, wake-ups for nothing | the reason of a refusal is the one reported; the thread is gone before the session is freed; exit returns |
| `request_errors` | 3 requests of 3 kinds, 2 packets each; answers at any time or never, errors, failed writes, wake-ups for nothing | a call made when no earlier answer was owed has its own answer, whole unless its wait ended early, and caches that; what is inflated is cached whole; every call returns |
| `playback_listen` | 3 tracks (5, 1, 3 packets), the second unplayable, 2-packet substreams, buffer 4, watermark 2; failed writes, channel errors, refused keys; one track or the list | no crash, no overrun, one substream at a time, the queue is a proper stream |
| `playback_control` | 2 tracks, 2 calls of play, next, stop; nothing fails | the count stays exact and calls return, however the threads race |
| `spytify` | 3 objects, 2 trees, a program that drops what it likes | every struct is freed once and with its owner; a pointer dangles, and a freed struct is read, only where the search or the stored playlists that owned the tree have gone |
| `simple` | 3 trees, no key on its way while lists are replaced | lists are freed once and all of them at the end, a command reads live ones (but after a failed search), what is queued is live |
| `gateway_sessions` | 2 connections, 2 sessions, 2 accounts, one connection to a session at a time | no pointer to a freed session, answers and replies match commands, one session per account (name and password) |
| `gateway_waiting` | 1 connection, 2 sessions, all 6 kinds of request | a waiting connection is answered or loses its session |
| `client` | 2 searches with 0 or 2 tracks; signals at any time, a PCM thread that draws while the main thread does; states that differ only in the text of the footer are one (`VIEW`: no step depends on it) | keys go to what is on the screen, cursors stay on a track, the PCM thread plays from no freed session, the browser is shown only online, no footer is printed from a freed session |

Four trees would give `Simple` nothing new: it has at most a root list, a search
and an album at a time. Two trees and three objects are the fewest for one object
to own what a second shows while a third refers to both; four are in
`MCSpytifyWide.cfg`. Two connections and
two sessions are the fewest for a login to meet another's session, and for
a session to take a dropped one's place in the array.

In `playback_listen` the tracks end inside a substream and the playable ones are
longer than one (a substream is 200 KB; `MCPlaybackShort.cfg` shows why that matters),
the data does not fit the buffer, and a track in the middle is skipped: small
sizes with every branch of `snd_fill_fifo`, `despotify_substream_callback` and
`snd_consume_data`. Two racing calls are the fewest for `despotify_play` to meet
its own leftovers; that a play which races so is announced to the listener is not
among the properties, because it is not so (`MCPlaybackRace.cfg`). Both runs assume that the server answers requests in their
order (`InOrder`): otherwise the data of a track can overtake its key, and
`FifoIsStream` fails.

### Further configurations

These are not among the runs of `PROJECT.json`; they bound the passing runs from
outside, each showing why a run assumes what it does, or where the code does not
do what one of its comments says.

| configuration | result | shows |
|---|---|---|
| `MCChannelTwoThreads.cfg` | `UnregisterFindsChannel` fails | two threads in the table lose a channel, and `assert (tmp != NULL)` fails (`channel.c:81`) |
| `MCChannelLocked.cfg` | holds | two threads, one at a time inside the operations (`OneInside`, what a lock would give): the list keeps the contract |
| `MCPacketTwo.cfg` | `ServerDecrypts` fails | "everything is handled in despotify_thread()" (`despotify.c:449`), but three threads write; two at once send what the server cannot read |
| `MCPacketLocked.cfg` | holds | two writers, one at a time in `packet_write` and `session_disconnect` (`OneWriting`): the server can read everything |
| `MCLoginLost.cfg` | `LoginReturns` fails | a welcome handled before the wait is lost, and there is no timeout (`despotify.c:165`) |
| `MCRequestLate.cfg` | `ResponseIsAlwaysMine` fails | "timed wait until response is ready" (`despotify.c:657`): the late answer to a timed-out request wakes the next |
| `MCPlaybackRace.cfg` | `PlayIsAnswered` fails | a play that stops an earlier one may find the PCM thread on its way from an aborted fill to the wait for a second buffer, which nobody requests (`sndqueue.c:325`) |
| `MCPlaybackStall.cfg` | `ListIsPlayed` fails | an underrun inside a track requests nothing, and playback stops (`sndqueue.c:325`) |
| `MCPlaybackShort.cfg` | `NoCrash` fails | a last track shorter than a substream arrives whole while `snd_stop` is about to set DRAINING; its END is queued after that, and at that END data of no track is requested (`despotify.c:392`): "Don't request more data in pcm_read(), even if the buffer gets low" (`sndqueue.c:159`) |
| `MCSpytifyDangling.cfg` | `NoUseAfterFree` fails | a track outlives the search result it points into (`spytify.c:2086`) |
| `MCSpytifyWide.cfg` | holds | 4 objects: what `spytify` checks for 3 |
| `MCSimpleQuit.cfg` | `QuitEnds` fails | the signal of `thread_exit` is lost between the test and the wait of `thread_loop`, and the join never returns |
| `MCGatewayShared.cfg` | `ClientIsLive` fails | with two connections to a session, a logout frees it under the other (`gw-core.c:473`) |
| `MCClientQuit.cfg` | `QuitEnds` fails | as `MCSimpleQuit.cfg`, and also when a new track's `thread_play` overwrites EXIT (`session.c:332`) |

The modules state further properties, for which one line of such a configuration is
changed. Below, a configuration with other constants or another property:

| start from | change | result | shows |
|---|---|---|---|
| `MCLoginSession.cfg` | `ExitIsSafe` | fails | after a failed login a thread that was never created is cancelled and joined (`despotify.c:188`) |
| | `LoggedInIsWelcomed` | fails | a wake-up for nothing is taken for the welcome (`despotify.c:165`) |
| `MCRequestErrors.cfg` | `AnsweredInTime` | fails | an answer complete before the wait is not seen; the call times out (`despotify.c:658`) |
| `MCRequestLate.cfg` | `ListFlagIsRight` | fails | `list_of_lists` survives a timeout (`despotify.c:976`) |
| `MCPlaybackListen.cfg` | `EndOfPlaylistIsEnd` | fails | "Called after last track in playlist has finished playing" (`despotify.h:233`), but also whenever the queue is empty behind an END |
| `MCPlaybackStall.cfg` | `DecoderNotFreedInUse` | fails | at the last END the decoder is freed in its own read callback (`sndqueue.c:428`) |
| | `Faults = {"key"}`, `PlayIsAnswered` | fails | a refused key is not reported (`handlers.c:112`) |
| | 2 commands, `OffsetAligned` | fails | a second play at the end of a substream makes the offset unaligned (`despotify.c:351`) |
| | 2 commands, `Faults = {"channel"}`, `CallsReturn` | fails | after a channel error `dlstate` stays busy and `snd_stop` spins (`despotify.c:338`) |
| | 2 commands, play and stop, `StoppedIsQuiet` | fails | a key that arrives after the stop starts the track (`sndqueue.c:162`) |
| | 2 commands, play and next, `NextIsSafe` | fails | `despotify_next` on the last track follows NULL (`despotify.c:469`) |
| `MCSpytify.cfg` | `NoNullString` | fails | after a failed browse an attribute converts a NULL string |
| | `CloseReturns`, one object and one tree | fails | `close` joins the PCM thread with the interpreter lock that thread waits for |
| `MCSimple.cfg` | `NoUseAfterFree` | fails | a freed list or track is followed: after a failed search, or by `next` |
| | `KeysInTime = FALSE`, `QueuedIsLive` | fails | "since we replace the list" (`simple.c:364`): a key that arrives after the stop queues a track of the old list |
| `MCGateway.cfg` | `Shared = TRUE`, `AnswerIsMine` | fails | one connection is sent the answer to another's command |
| | `NewSessionIsStepped` | fails | a new session takes the place of a dropped one and is skipped; `select` reads its NULL session (`gw-core.c:201`, `215`) |
| | `NoAssert` | fails | `assert (0)` after a failed login whose peer is gone (`gw-core.c:740`) |
| `MCGatewayWaiting.cfg` | `KeyErrors = TRUE` | fails | a refused key is never answered |
| | `FailedIsFreed` | fails | a failed session nobody waits for is kept |
| `MCClientQuit.cfg` | `OneFocus` | fails | "Focus only first element in set" (`ui.c:244`): the track list keeps its flag when the browser is shown again |
| | `JoinedOnce` | fails | a second disconnect joins a thread again (`session.c:57`) |
| | `FooterTellsState` | fails | the PCM thread prints over what the main thread drew after it looked, and nothing is dirty (`ui.c:215`, `ui_footer.c:50`) |
| | `QuitIsHeard` | fails | the quit of a signal that comes between delivery and clearing is dropped (`event.c:373`-`385`) |
| | `PausedIsSilent` | fails | a new track undoes a pause (`session.c:332`) |
| | `DrawsWhileUp` | fails | the PCM thread draws after `ui_cleanup` (`main.c:74`) |
| | `OfflineIsTold` | fails | "Redraw status info." (`session.c:224`) marks the footer and asks for no update |

Read in the sources and not in a model: the gateway tests the offset of a
substream for 1024 (`gw-core.c:584`) where the library asserts 4096
(`commands.c:295`); `lookup` of an artist in Python always gives None;
`track_compare` of the curses client adds up string comparisons, so different
tracks may compare equal, and `tracklist_dedup` keeps two of three equal ones.

### Fairness

- `Playback`: weak fairness of each thread (`ApiStep`, `PcmStep`, `NetStep`).
  A thread that can run is scheduled; one that waits for data only once it was
  signalled, as wake-ups for nothing are possible but not to be relied on; the
  client's PCM thread calls `despotify_get_pcm` in a loop; `NetStep` includes the
  answers of the server, on which `CallsReturn` depends. The client
  is never forced to make a call.
- `Request`: weak fairness of the caller alone, in which `Timeout` is the
  `pthread_cond_timedwait` that the system clock ends. The server need not answer.
- `Login`: both threads, and a server that says welcome to a client that waits
  for it. A read on a closed or broken socket returns. A wake-up for nothing is
  never forced.
- `Packet`: the network thread.
- `Client`, `Simple`, `Spytify`: the PCM thread, and the main thread where it
  does not wait for the user. `select` returns after 200 ms at the latest, so
  the loop of the curses client never waits for a key. That it delivers a message
  that stays in the queue, however many others come, is strong fairness of
  `Deliver_quit`. No run's property depends on the fairness of `Client`, only
  those of `MCClientQuit.cfg`, which fail even so.
- `Gateway`: main's loop, and strong fairness of each session's server: an
  answer has to wait while other packets are read, so it is enabled again and
  again and not always. A server that never answers what it was asked makes a
  connection wait for ever; the code has no timeout for that.

## 4. The proofs

Checked by TLAPS, for every value of the constants that satisfies the named
assumptions of the module and, where one is given, the hypothesis of the theorem.
Such a hypothesis is the boundary the configurations of section 3 found: with
it the property holds for instances of any size, without it one of those
configurations violates it. Each invariant below was a TLC invariant of a run
before it was proved.

| theorem | property | hypothesis |
|---|---|---|
| `ChannelProofs!TypeCorrect` | `TypeOK` | |
| `ChannelProofs!IdsAreUnique` | `UniqueIds` | |
| `ChannelProofs!TableImplementsContract` | `ImplementsContract` | |
| `ChannelProofs!CallbacksInOrder` | `CallbackOrder` | |
| `ChannelProofs!AnswersReachTheirChannel` | `AnswersFindTheirChannel` | `WireIds >= 2` |
| `ChannelProofs!SubstreamChannelsAreFreed` | `SubstreamNeverLeaks` | `WireIds >= 2` |
| `SessionProofs!LockedListFindsChannels` | `UnregisterFindsChannel` | `[]OneInside`, `Threads # {}` |
| `SessionProofs!LockedListImplementsContract` | `ImplementsContract` | `[]OneInside` |
| `SessionProofs!OnlyIntactPacketsHandled` | `HandledIsIntact` | |
| `SessionProofs!LockedWritersAreDecrypted` | `ServerDecrypts` | `[]OneWriting`, `Writers # {}` |
| `SessionProofs!SessionOutlivesThread` | `ThreadGoneWhenFreed` | |
| `SessionProofs!RefusalsAreTold` | `RefusalIsTold` | |
| `RequestProofs!ResponseIsOwn` | `ResponseIsMine` | |
| `RequestProofs!CacheHoldsAnswers` | `CachedAsAnswered` | |
| `PlaybackProofs!TotbytesIsExact` | `TotbytesExact` | |
| `PlaybackProofs!OneSubstreamAtATime` | `BusyIsOneSubstream` | `OneCall` |
| `PlaybackProofs!NeverOverruns` | `BufferBounded` | `OneCall` |
| `PlaybackProofs!PlayingNeverCrashes` | `NoCrash` | `OneCall`, `LongTracks`, `InOrder = TRUE` |
| `PlaybackProofs!StreamIsProper` | `FifoIsStream` | `OneCall`, `LongTracks`, `InOrder = TRUE` |
| `SimpleProofs!EveryListFreedOnce` | `FreedExactlyOnce` | |
| `SimpleProofs!ReadListsAreLive` | `ListsAreLive` | |
| `SimpleProofs!QueuedTrackIsLive` | `QueuedIsLive` | `KeysInTime` |
| `SpytifyProofs!EveryTreeFreedOnce` | `FreedExactlyOnce` | |
| `SpytifyProofs!OnlyOwnerlessDangles` | `DanglesOnlyWithoutOwner` | |
| `ClientProofs!SessionAlwaysLive` | `SessionIsLive` | |
| `ClientProofs!FocusAlwaysVisible` | `FocusIsVisible` | |
| `ClientProofs!CursorsInRange` | `CursorInRange` | |
| `GatewayProofs!RepliesMatchLines` | `OneReplyEach` | |
| `GatewayProofs!AccountsAreSingle` | `OneSessionPerUser` | |
| `GatewayProofs!PointersAreLive` | `ClientIsLive` | `Shared = FALSE` |
| `GatewayProofs!AnswersAreOwn` | `AnswerIsMine` | `Shared = FALSE` |

### What the hypotheses leave out

- `WireIds >= 2`: the id field of a packet has two values or more; it has 65536.
  What bounds the ids is not assumed. The two properties themselves say when they
  hold: unless three channels were in the table at once since it was last empty
  with nothing owed (`crowded`). With three nothing in the code stops the ids from
  drifting past the field, and then an answer may go to another channel.
- `[]OneInside`: no two threads are in `channel_register` or
  `channel_unregister` at the same time. This is what a lock would give; the code
  has none, and overlapping threads lose a channel (`MCChannelTwoThreads.cfg`). A
  program in which one thread makes every request and the network thread only
  answers between two of them satisfies it; so does one thread alone, which the
  corollaries `OneThreadFindsChannels` and `OneThreadImplementsContract` state.
- `[]OneWriting`: likewise for `packet_write` and `session_disconnect`. The code
  has three writing threads; while they take turns (nobody browses while a track
  plays), the server can read everything; when they overlap, `MCPacketTwo.cfg`.
  `OneWriterIsDecrypted` is the corollary for one writer.
- None for `Request`: `ResponseIsMine` and `CachedAsAnswered` say themselves which
  calls they are about. One made while an earlier answer is owed may be given that
  one (`MCRequestLate.cfg`); one whose wait ended early, by a wake-up for nothing,
  may see a prefix of its own.
- `OneCall == Commands = {"play"} /\ MaxCommands = 1`: one call of
  `despotify_play`, on a track or a list of any length, played to its end with
  any failure. A second play, a next or a stop brings the races of
  section 3 (`OffsetAligned`, `CallsReturn`, `StoppedIsQuiet` and
  `NextIsSafe` fail).
- `LongTracks == \A t \in Playable : Size[t] >= SUBSTREAM_SIZE`: every track
  has at least 200 KB, some ten seconds of sound. This hypothesis was found by the
  proof: without it `NoCrash` is false (`MCPlaybackShort.cfg`). `StreamIsProper`
  asks for it because it rests on `SoundInv`: with short tracks TLC found
  `FifoIsStream` violated only where a track is empty, and not in the instances
  of three tracks with one packet or more that were tried.
- `InOrder = TRUE`: the server answers in the order of the requests. The client
  assumes it and cannot enforce it.
- `KeysInTime`: the user types no command while a key is on its way.
- `Shared = FALSE`: no connection logs in to a session that another one uses.
  The gateway allows it (`MCGatewayShared.cfg`).

### The inductive invariants

**Channel table.** `UniqueIds` alone is not inductive: a channel is registered
under `next_channel_id`, so one must know that this id is free.
`IdInv == UniqueIds /\ NextIdFree` is, on top of `TypeOK`.
`channel_register` moves `next_channel_id` to the next id and past every live
one that is not below it; `channel_unregister` lowers it to an id that was
just given back. Both keep `NextIdFree`, and that is the whole argument: one
lemma for each, cited by every action that registers or frees.

For the refinement, a step that registers maps to `Register` with the id
`next_channel_id`, which is free by `NextIdFree` and within `0 .. MaxId` by
the guard; a step that frees maps to `Unregister`; every other step leaves the ids
of the live channels alone.

`CallbackInv` relates what a callback has heard to the state of its channel: in
the table a channel has had no end, and no data while it still reads headers.
It needs no assumption on ids: a packet that goes to a wrong channel still
follows that channel's protocol. `AnswerInv` adds what the server knows: an open
request has its channel in the table. Then the lookup of an id finds the
channel that asked (ids are unique, and their own remainder), so an end or an
error closes the request of the channel that is freed, and no substream
channel is left without one. What this needs of the ids is that they fit the
field. `TwoInv`, for a table that never had three channels, says that every id below
`next_channel_id` is in use: then the next one is at most 2 and an id that is taken at
most 1. With three channels that is false after one of them skips a gap, which is
how ids drift, and a packet that is told to another channel breaks `AnswerInv` for
good: only when the table is empty and the server owes nothing does all start over.
`ZeroInv` says why it does: whatever happened, the id 0 is in use or the next one.
`CrowdInv` puts these together.

**Channel list.** The refinement of the table by the stores of `channel.c` rests
on one fact, `PlaceInv`: a sequence without repetitions follows the next fields
from `head` to NULL and meets every allocated struct but the one just being linked
or given back (`ListIs`, `InList`). Each store is then an operation on sequences:
`PushFront`, `PopFront`, `CutOut`; `Predecessor` is the search of
`channel_unregister`. What the model calls `Linked`, the structs a traversal of so
many steps meets, is shown to be the range of that sequence (`WalkMeetsList`), where
the recursive function of the traversal exists by a least-counterexample argument
from the well-foundedness of the naturals. `IdsInv` says where the id being chosen
is relative to those in the list, store by store. With more threads `LockedInv` says
this of every thread that is `Alone` inside, and `HoldInv` that no two threads
ever hold one struct, so that whoever comes next finds the list as the last left it.

**Packets.** The network thread reads `key_recv_IV` without a lock while
`session_disconnect` sets it to 0. `ReadInv` adds to `HandledIsIntact` the types of
the receiving side, `ResetIsClosed` (a thread about to reset the nonce has closed
the socket) and `ReaderCounts` (while the socket is open, nonce, packets got and
packets handled agree; a reader past the header has them one apart). What
saves the code is the order of `session_disconnect`: it closes first, and a reader
whose nonce was reset no longer gets its payload.

`SendInv` is the writer's side, by where the writer is in `packet_write`: the
cipher has the nonce of the packet in hand and nothing skipped
(`CipherIsMine`), and while the socket is up the nonce is the number of whole
packets on the wire, the half written one belonging to the packet in hand
(`WireCounts`). It is an invariant of each writer that is `Solo`. That a write may fail between its two `send`s does no harm:
no later write of that connection succeeds.

**Login.** `LifeInv`: the session is freed at the last label of
`despotify_exit`, which is reached through the join only; and an inbox that still
holds a packet is one reply the handlers have not made. `RefusalInv`: nothing is
refused nor reported before the call fails, and each status byte has its own message
in both switches (`EachStatusItsMessage`).

**Requests.** `IInv`: what can still deliver are the channels of calls that left
their wait early or timed out, and the one of a call that has not waited yet; none
of an earlier call if none could when this one was made (`OwedInv`, with the
histories `early` and `late`). Then the buffer holds what came for the
current request, in order (`ResponseInv`, by the lemma `AnswerGrows`), and so does
what is cached (`CacheInv`). A wait that ended early, or a request that was broken
off by an error, leaves a prefix; but an answer that inflates is as long as a whole
one (by `Inflates`, with `AnswerIsItsPrefix` and `PrefixLength`), so that artists, albums and tracks are cached whole or not at
all, while playlists and images, which nothing inflates, are so only if the wait
lasted until the end of the answer.

**Playback.** `TotbytesIsExact` needs that `totbytes` and the FIFO change
together in five actions only (`FifoQuiet`) and the arithmetic of
`Bytes`: it is defined as a cardinality, and lemmas say what it is for an
empty queue, after an append, without its first element and after a consumption.
The loop of `snd_consume_data` asks for the least number of buffers that hold
enough; that it exists is proved with well-foundedness of the naturals.

For one call, `OneInv` says: before the key is asked for nothing is under way
(`StartInv`); `dlabort` is set only inside `snd_stop` (`AbortInv`); `dlstate` is
busy from the decision to fetch a substream to its last packet, and the places of
the PCM and the network thread between which the request is handed over exclude
each other (`BusyInv`); and the room the request was checked for stays reserved:
`totbytes`, plus the packet in the callback's hands, plus what is left of the
substream, fits the buffer (`RoomInv`). The check of `sndqueue.c:131` is made
without the lock, and the proof shows why that is harmless: only the network
thread adds, it has nothing to add then, and the PCM thread only takes away.

`SoundInv` carries `NoCrash`. The requests are a few keys and at most one
substream, in last place (`OrderInv`); the offset is a multiple of the substream
between two of them (`OffsetInv`); a START is queued before the data
of its track (`KeyInv`) and data before the END (`FirstInv`), so that the PCM
thread stops between tracks with nothing of the next one over (`StopInv`), and
when there is no next track nothing is asked for (`NullInv`). `LongTracks`
enters in `FirstInv` and `StopInv`: while the PCM thread is in `snd_stop`, no more
than one substream of the next track can come, and that is not its end.

`StreamInv` carries `FifoIsStream`. Every buffer goes on with the one before it, and
the first one with what was played last (`QueueInv`). That the next buffer will
do so too is a fact about four places at once: the newest buffer, the offset with
the packets of the substream that have come (`Pos`), the key and IV counter
(`AesInv`) and the buffer in the callback's hands (`PendingInv`). Between packets
either the last track is over and nothing of the current one is queued (`Waits`),
or the newest buffer is the one before `Pos` (`Continues`); at the end of a channel
the newest buffer is the track's last (`AtEnd`). Two things break this, and
after both nothing more is queued: a channel error (`Failed`), and a `snd_stop` of the
PCM thread that throws away the first buffers of the next track (`Broken`).
`snd_consume_data` may empty the queue at any of these places; then what was heard
stands for the newest buffer (`QueueConsumed`), and the decoder waits in the middle of
a track only (`HungryInv`), so that it is never handed the next track's noise.

**Simple.** `HeapInv`: the pointers have the type of their tree
(`PointerInv`); `lastlist` and `searchlist` are aliases (`AliasInv`); every live
tree has exactly one owner among `rootlist`, `search` and `playalbum`, and an
owner of a freed tree is about to be overwritten (`OwnerInv`). `QueueInv`:
from the stop to the free of a list nothing is queued and no key is on its way.

**Python binding.** `MemoryInv` says that the memory is in good order (`Good`): which
class may refer to which (`WrapperInv`, `RefsInv`), that a tree has at most one object
that frees it, which keeps it alive, and a live tree of a search or of the stored
playlists exactly one (`OwnerInv`); and what a read hit or a pointer names is never
a tree that is still to be fetched (`TrackInv`, `FaultInv`). A tree that is freed was
freed by its owner, who went with it (`StillFreed`), or belongs to nobody: that gives
`DanglesOnlyWithoutOwner`. Every action ends by collecting what became
unreachable; `SettleKeeps` shows once for all of them that good order before
the collection is good order after it. It needs that what a live object refers to is
live (`RefsSurvive`): as an iterator refers to the stored playlists, and those to
playlists which refer to nothing, two references reach everything there is.

**Curses client.** `SessionInv`: only an online session plays or may come to
play, and it goes offline only when its thread was joined (`ThreadInv`). `FocusInv`:
after every key the focus is on a visible element, the browser is shown only
online, and the input line is open exactly with the focus on the footer; one
lemma for each handler. `FootInv`: the PCM thread draws only within its callback, out
of which no step of the main thread takes it; so whoever prints "ONLINE" has a
session that is live. `CursorInv`: the cursors are within lists of any length.

**Gateway.** `BaseInv` types the two arrays of main and says that they hold
exactly what is not closed or freed, each once, whatever is dropped while they
are walked; and for each connection, from its state, whether a line is being
answered. That alone gives `OneReplyEach`. `OneSessionPerUser` is inductive on
top of it: `spotify_client_allocate` looks through the whole array. `OwnerInv`
is for connections that do not share: no two point to one session
(`PointerInv`), a session with a request open, or busy, is waited for by the
connection whose output it holds (`OpenInv`, `BusyInv`), and nothing freed was
used so far (`UseInv`).

### Model-checked only

- Liveness (`CallsReturn` of `Request` and `Playback`, `ExitReturns`,
  `ThreadEnds`, `WaitingEnds`): fairness and ENABLED are out of TLAPS's reach. Every
  other property of a run is stated by a theorem.
- `FifoIsStream` of `Playback` for tracks shorter than a substream.
- The property of `MCSpytifyWide.cfg` at its size is the theorem's; what the `Locked`
  configurations show is proved for any number of threads.

## 5. Plan

Done: the library's core (`Channel`, `ChannelThreads`, `Packet`, `Login`,
`Request`, `Playback`), the contract of the channel table and its refinements, the
clients, the gateway and the Python binding; proofs about all of them. Next, in
this order:

1. **Theorems** — `StreamIsProper` for non-empty tracks of any length, which needs a
   `SoundInv` that allows for the short ones.
2. **Stored playlists and the cache** — the revision check of
   `despotify_get_stored_playlists`, `despotify_load_tracks` with duplicate
   tracks; the cache files. Property: a cached list is the list of its revision,
   unless fetching it failed.
3. **Pure algorithms** — base 62 links, `buf`, hex conversion: operators against
   a reference over bounded inputs.

## 6. Not modelled, and why

- Ciphers, hashes, `puzzle.c`, the contents of the handshake packets:
  computations on data no property here tells apart.
- `ezxml.c` and `xml.c`: string processing, sequential.
- Audio back ends, window layout and drawing: device and screen I/O.
- `maemify` and the Ruby binding: written for an earlier library (the number of
  arguments of `despotify_init_client`, callbacks that are gone), they do not
  compile against this one.
- The PHP clients: they forward to the gateway.
- `wrapper_listen` and the readers of command lines: terminal I/O. The gateway's
  base64 and HTTP parsing, and its error exit from `select`.
- The Java implementation and its releases: another implementation of the protocol.
- `handle_countrycode`, `handle_prodinfo`: they fill in `user_info` and change
  nothing else.
- `cmd_action`, `cmd_requestad`: no caller in the library.

## 7. Running

In this directory: `tlc -config MCChannelThree.cfg MCChannel` and so on for each
run of `PROJECT.json`; `tlapm ChannelProofs.tla` and so on for the proofs. The
longest runs (`spytify`, `gateway_sessions`, `client`) take about two minutes; so do the
proofs of the gateway and of playback, the others less.
