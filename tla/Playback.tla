------------------------------ MODULE Playback ------------------------------
(***************************************************************************)
(* Playback in libdespotify: the sound FIFO and its download state         *)
(* (src/src/lib/sndqueue.c) and the playback half of despotify.c.          *)
(*                                                                         *)
(* Three threads share the session:                                        *)
(*   - the caller of the library: despotify_play, despotify_next,          *)
(*     despotify_stop;                                                     *)
(*   - the PCM thread of the client, in a loop around despotify_get_pcm;   *)
(*   - the network thread, which runs the channel callbacks.               *)
(* Only the FIFO has a lock.  A section under the lock is one step; outside *)
(* it a step is about one load or store of shared state (dlstate, dlabort, *)
(* track, offset).                                                         *)
(*                                                                         *)
(* Audio data is counted in packets: a track is Size[t] packets long, a    *)
(* substream asks for SUBSTREAM_SIZE of them, a DATA buffer holds one.     *)
(***************************************************************************)
EXTENDS Integers, Sequences, FiniteSets

CONSTANTS
    Tracks,             \* number of tracks in the list: 1, 2 ... linked by next
    Playable,           \* the tracks whose playable flag is set
    Size,               \* Size[t]: length of track t
    SUBSTREAM_SIZE,
    maxbytes, watermark,
    Commands,           \* what the caller does: a subset of "play", "next", "stop"
    ListModes,          \* values of play_as_list it passes
    MaxCommands,        \* bound on the number of calls
    Faults,             \* what fails: a subset of "write", "channel", "key"
    InOrder             \* the server answers requests in the order they were sent

Track == 1 .. Tracks
NULL == 0

ASSUME TracksAssumption == Tracks \in Nat \ {0} /\ Playable \subseteq Track
ASSUME SizeAssumption == Size \in [Track -> Nat]
ASSUME BufferAssumption ==
    /\ SUBSTREAM_SIZE \in Nat \ {0}
    /\ maxbytes \in Nat /\ watermark \in Nat
    /\ watermark + SUBSTREAM_SIZE <= maxbytes     \* 200 KB + 200 KB <= 1 MB
ASSUME CallerAssumption ==
    /\ Commands \subseteq {"play", "next", "stop"}
    /\ ListModes \subseteq BOOLEAN
    /\ MaxCommands \in Nat
ASSUME EnvironmentAssumption ==
    Faults \subseteq {"write", "channel", "key"} /\ InOrder \in BOOLEAN

VARIABLES
    fifo,           \* the buffers from fifo->start to fifo->end
    totbytes,
    lastcmd,
    ready,          \* snd_init has been called: ds->fifo is not NULL
    dlstate, dlabort,
    track, offset, play_as_list,
    aes,            \* the track whose key is set up, and the IV counter
    errorcount,
    codec,          \* "open" while ds->vf or ds->mf is not NULL
    requests,       \* what the server still has to answer, oldest first
    api, call,      \* the caller: where it is, and in which call
    pcm, refill,    \* the PCM thread; refill: snd_fill_fifo returns to the client
    woken,          \* a thread waiting on fifo->cs has been signalled
    net, pending,   \* the network thread, and the buffer it is about to queue
    commands,       \* calls made so far
    heard,          \* the track announced last (NEW_TRACK) and the position in it
    callbacks,      \* client callbacks made: "END_OF_PLAYLIST", "TRACK_PLAY_ERROR"
    crashed         \* "" or what brought the process down

fifoVars == <<fifo, totbytes, lastcmd, ready>>
dlVars == <<dlstate, dlabort>>
trackVars == <<track, offset, play_as_list>>
netVars == <<net, pending, aes, errorcount>>
apiVars == <<api, call, commands>>
pcmVars == <<pcm, refill, woken, heard>>
vars == <<fifoVars, dlVars, trackVars, aes, errorcount, codec, requests, api, call,
          pcm, refill, woken, net, pending, commands, heard, callbacks, crashed>>

Buffer == [cmd : {"START", "DATA", "END"}, trk : 0 .. Tracks, off : Nat, good : BOOLEAN]
NoBuffer == [cmd |-> "END", trk |-> NULL, off |-> 0, good |-> TRUE]
Request == [kind : {"key", "substream"}, trk : Track, off : Nat, got : Nat]
Call == [cmd : {"play", "next", "stop"}, trk : 0 .. Tracks, list : BOOLEAN]

Init ==
    /\ fifo = <<>> /\ totbytes = 0 /\ lastcmd = "START" /\ ready = FALSE
    /\ dlstate = "FILLING" /\ dlabort = FALSE
    /\ track = NULL /\ offset = 0 /\ play_as_list = FALSE
    /\ aes = [trk |-> NULL, pos |-> 0] /\ errorcount = 0
    /\ codec = "none"
    /\ requests = <<>>
    /\ api = "idle" /\ call = [cmd |-> "stop", trk |-> NULL, list |-> FALSE]
    /\ pcm = "idle" /\ refill = FALSE /\ woken = FALSE
    /\ net = "idle" /\ pending = NoBuffer
    /\ commands = 0
    /\ heard = [trk |-> NULL, pos |-> 0]
    /\ callbacks = {}
    /\ crashed = ""

Running == crashed = ""

(* ds->track = ds->track->next until it is playable, or NULL *)
NextPlayable(t) ==
    LET after == {n \in Playable : n > t}
    IN  IF after = {} THEN NULL ELSE CHOOSE n \in after : \A m \in after : n <= m

Min(a, b) == IF a < b THEN a ELSE b
(* packets the server has for a substream of track t from off on *)
Available(t, off) == IF off >= Size[t] THEN 0 ELSE Min(SUBSTREAM_SIZE, Size[t] - off)

KeyRequest(t) == [kind |-> "key", trk |-> t, off |-> 0, got |-> 0]
SubstreamRequest(t, off) == [kind |-> "substream", trk |-> t, off |-> off, got |-> 0]

(* packet_write reaches the server, or fails and returns an error *)
WriteOk(r) == requests' = Append(requests, r)
WriteFails == "write" \in Faults /\ UNCHANGED requests

-----------------------------------------------------------------------------
(* snd_stop, run by the caller and, at the end of the last buffer, by the PCM *)
(* thread; here are its stores, and below the two threads that make them.     *)

StopAbort ==
    dlabort' = IF dlstate \in {"FILLING", "FILLING_BUSY"} THEN TRUE ELSE dlabort

(* mutant: the buffers are freed and totbytes is forgotten *)
StopKeepsTotbytes ==
    /\ fifo' = <<>>
    /\ dlstate' = "DRAINING"
    /\ codec' = "none"
    /\ dlabort' = FALSE
    /\ UNCHANGED <<totbytes, lastcmd, ready>>

(* the locked part: free the buffers, snd_reset, snd_reset_codec *)
StopReset ==
    /\ fifo' = <<>>
    /\ totbytes' = 0
    /\ dlstate' = "DRAINING"
    /\ codec' = "none"
    /\ dlabort' = FALSE
    /\ UNCHANGED <<lastcmd, ready>>

-----------------------------------------------------------------------------
(* The caller *)

ApiElse == UNCHANGED <<netVars, pcmVars>>

(* A call: despotify_play(t, list), despotify_next, despotify_stop.  Without  *)
(* a FIFO, despotify_stop returns false and the others call snd_init instead  *)
(* of snd_stop.                                                               *)
ApiCall ==
    /\ Running /\ api = "idle" /\ commands < MaxCommands
    /\ \E cmd \in Commands, t \in Playable, list \in ListModes :
          /\ cmd = "stop" => ready
          /\ call' = [cmd |-> cmd, trk |-> t, list |-> list]
          /\ api' = IF ready THEN "stop" ELSE IF cmd = "play" THEN "notify" ELSE "snd_next"
    /\ commands' = commands + 1
    /\ ready' = TRUE
    /\ dlstate' = IF ready THEN dlstate ELSE "FILLING"
    /\ UNCHANGED <<fifo, totbytes, lastcmd, dlabort, trackVars, codec, requests, callbacks, crashed>>
    /\ ApiElse

ApiStopAbort ==
    /\ Running /\ api = "stop"
    /\ StopAbort
    /\ api' = "spin"
    /\ UNCHANGED <<fifoVars, dlstate, trackVars, codec, requests, call, commands, callbacks, crashed>>
    /\ ApiElse

(* the loop around shortsleep() ends once dlstate is seen not to be busy *)
ApiStopSpin ==
    /\ Running /\ api = "spin"
    /\ dlstate # "FILLING_BUSY"
    /\ api' = "drain"
    /\ UNCHANGED <<fifoVars, dlVars, trackVars, codec, requests, call, commands, callbacks, crashed>>
    /\ ApiElse

ApiStopDrain ==
    /\ Running /\ api = "drain"
    /\ dlstate' = "DRAINING"
    /\ api' = "reset"
    /\ UNCHANGED <<fifoVars, dlabort, trackVars, codec, requests, call, commands, callbacks, crashed>>
    /\ ApiElse

ApiStopReset ==
    /\ Running /\ api = "reset"
    /\ StopReset
    /\ api' = "offset"
    /\ UNCHANGED <<trackVars, requests, call, commands, callbacks, crashed>>
    /\ ApiElse

ApiOffset ==
    /\ Running /\ api = "offset"
    /\ offset' = 0
    /\ api' = CASE call.cmd = "stop" -> "idle"
                [] call.cmd = "play" -> "notify"
                [] call.cmd = "next" -> "snd_next"
    /\ UNCHANGED <<fifoVars, dlVars, track, play_as_list, codec, requests, call, commands,
                   callbacks, crashed>>
    /\ ApiElse

(* despotify_play: CMD_TOKENNOTIFY, which the server does not answer *)
ApiNotify ==
    /\ Running /\ api = "notify"
    /\ \/ api' = "track"
       \/ WriteFails /\ api' = "idle"
    /\ UNCHANGED <<fifoVars, dlVars, trackVars, codec, requests, call, commands, callbacks, crashed>>
    /\ ApiElse

ApiTrack ==
    /\ Running /\ api = "track"
    /\ track' = call.trk
    /\ play_as_list' = call.list
    /\ api' = "key"
    /\ UNCHANGED <<fifoVars, dlVars, offset, codec, requests, call, commands, callbacks, crashed>>
    /\ ApiElse

ApiKey ==
    /\ Running /\ api = "key"
    /\ WriteOk(KeyRequest(call.trk)) \/ WriteFails
    /\ api' = "idle"
    /\ UNCHANGED <<fifoVars, dlVars, trackVars, codec, call, commands, callbacks, crashed>>
    /\ ApiElse

(* snd_next: drop the buffers before the next START.  If there is one the      *)
(* client is told and the decoder starts over; if not, the next track is asked *)
(* for.                                                                        *)
Starts == {i \in 1 .. Len(fifo) : fifo[i].cmd = "START"}
FirstStart == CHOOSE i \in Starts : \A j \in Starts : i <= j
Bytes(q) == Cardinality({i \in 1 .. Len(q) : q[i].cmd = "DATA"})

ApiSndNext ==
    /\ Running /\ api = "snd_next"
    /\ \/ /\ Starts = {}
          /\ fifo' = <<>>
          /\ api' = "advance"
          /\ UNCHANGED codec
       \/ /\ Starts # {}
          /\ fifo' = SubSeq(fifo, FirstStart, Len(fifo))
          /\ codec' = "none"
          /\ api' = "idle"
    /\ totbytes' = totbytes - (Bytes(fifo) - Bytes(fifo'))
    /\ UNCHANGED <<lastcmd, ready, dlVars, trackVars, requests, call, commands, callbacks, crashed>>
    /\ ApiElse

(* despotify_next: the loop looks at ds->track->playable without a test for  *)
(* NULL; the track it stops at is played with despotify_play.                *)
ApiAdvance ==
    /\ Running /\ api = "advance"
    /\ LET t == IF track = NULL THEN NULL ELSE NextPlayable(track)
       IN  /\ crashed' = IF track # NULL /\ t = NULL THEN "despotify_next" ELSE crashed
           /\ track' = t
           /\ call' = [cmd |-> "play", trk |-> t, list |-> play_as_list]
           /\ api' = IF t = NULL THEN "idle" ELSE "stop"
    /\ UNCHANGED <<fifoVars, dlVars, offset, play_as_list, codec, requests, commands, callbacks>>
    /\ ApiElse

ApiStep ==
    \/ ApiStopAbort \/ ApiStopSpin \/ ApiStopDrain \/ ApiStopReset \/ ApiOffset
    \/ ApiNotify \/ ApiTrack \/ ApiKey \/ ApiSndNext \/ ApiAdvance

-----------------------------------------------------------------------------
(* The PCM thread: despotify_get_pcm, over and over *)

PcmElse == UNCHANGED <<netVars, apiVars>>

(* snd_get_pcm: without a buffer it sleeps and returns no data *)
PcmEnter ==
    /\ Running /\ pcm = "idle"
    /\ fifo # <<>>
    /\ pcm' = "fill"
    /\ refill' = FALSE
    /\ UNCHANGED <<fifoVars, dlVars, trackVars, codec, requests, woken, heard, callbacks, crashed>>
    /\ PcmElse

(* where snd_fill_fifo returns to: the decoder, or (topping up) the client *)
AfterFill == IF refill THEN "idle" ELSE "codec"

PcmFill ==
    /\ Running /\ pcm = "fill"
    /\ pcm' = IF dlabort THEN "abort_wait" ELSE "switch"
    /\ UNCHANGED <<fifoVars, dlVars, trackVars, codec, requests, refill, woken, heard, callbacks, crashed>>
    /\ PcmElse

PcmAbortWait ==
    /\ Running /\ pcm = "abort_wait"
    /\ dlstate # "FILLING_BUSY"
    /\ dlstate' = "DRAINING"
    /\ pcm' = AfterFill
    /\ UNCHANGED <<fifoVars, dlabort, trackVars, codec, requests, refill, woken, heard, callbacks, crashed>>
    /\ PcmElse

(* mutants: room for the substream is not kept; a busy state is not looked at *)
WantsDataWithoutRoom ==
    \/ dlstate = "DRAINING" /\ totbytes < watermark
    \/ dlstate = "FILLING" /\ totbytes < maxbytes
WantsDataWhenBusy == dlstate # "END_OF_LIST" /\ totbytes < watermark

(* the switch of snd_fill_fifo: fetch another substream, or fall into draining *)
WantsData ==
    \/ dlstate = "DRAINING" /\ totbytes < watermark
    \/ dlstate = "FILLING" /\ totbytes < maxbytes - SUBSTREAM_SIZE

PcmSwitch ==
    /\ Running /\ pcm = "switch"
    /\ pcm' = IF WantsData THEN "busy" ELSE AfterFill
    /\ dlstate' = IF ~WantsData /\ dlstate = "FILLING" THEN "DRAINING" ELSE dlstate
    /\ UNCHANGED <<fifoVars, dlabort, trackVars, codec, requests, refill, woken, heard, callbacks, crashed>>
    /\ PcmElse

PcmBusy ==
    /\ Running /\ pcm = "busy"
    /\ dlstate' = "FILLING_BUSY"
    /\ pcm' = "send"
    /\ UNCHANGED <<fifoVars, dlabort, trackVars, codec, requests, refill, woken, heard, callbacks, crashed>>
    /\ PcmElse

(* despotify_snd_read_stream and cmd_getsubstreams, whose result is ignored; *)
(* the offset has to be aligned (assert (offset % 4096 == 0))                *)
PcmSend ==
    /\ Running /\ pcm = "send"
    /\ pcm' = AfterFill
    /\ \/ /\ track = NULL
          /\ crashed' = "despotify_snd_read_stream"
          /\ UNCHANGED requests
       \/ /\ track # NULL /\ offset % SUBSTREAM_SIZE # 0
          /\ crashed' = "cmd_getsubstreams"
          /\ UNCHANGED requests
       \/ /\ track # NULL /\ offset % SUBSTREAM_SIZE = 0
          /\ WriteOk(SubstreamRequest(track, offset)) \/ WriteFails
          /\ UNCHANGED crashed
    /\ UNCHANGED <<fifoVars, dlVars, trackVars, codec, refill, woken, heard, callbacks>>
    /\ PcmElse

(* snd_get_pcm picks the decoder; a new stream is sniffed with                *)
(* snd_stream_is_vorbis, which waits for two buffers and wants START first.   *)
(* Its second buffer is never an END, which has no data to look at: snd_ioctl *)
(* has already stumbled over an END behind a START (see NetAppend).           *)
PcmCodec ==
    /\ Running /\ pcm = "codec"
    /\ pcm' = IF codec = "none" THEN "sniff" ELSE "decode"
    /\ UNCHANGED <<fifoVars, dlVars, trackVars, codec, requests, refill, woken, heard, callbacks, crashed>>
    /\ PcmElse

PcmSniff ==
    /\ Running /\ pcm = "sniff"
    /\ Len(fifo) >= 2
    /\ \/ /\ fifo[1].cmd = "START"
          /\ codec' = "open"
          /\ pcm' = "decode"
       \/ /\ fifo[1].cmd # "START"
          /\ pcm' = "idle"
          /\ UNCHANGED codec
    /\ UNCHANGED <<fifoVars, dlVars, trackVars, requests, refill, woken, heard, callbacks, crashed>>
    /\ PcmElse

(* snd_consume_data, called by the decoder: it announces a START and goes on; *)
(* a DATA buffer is handed to the decoder, which then returns samples to      *)
(* snd_do_vorbis or snd_do_mpeg (and the FIFO is topped up) or reads again;   *)
(* an END is the end of the file for the decoder, and of the playlist if      *)
(* nothing is queued behind it; without a buffer it waits.                    *)
LeadingStarts ==
    CHOOSE k \in 0 .. Len(fifo) :
        /\ \A i \in 1 .. k : fifo[i].cmd = "START"
        /\ k < Len(fifo) => fifo[k + 1].cmd # "START"

PcmConsume ==
    /\ Running /\ pcm = "decode"
    /\ LET k == LeadingStarts
           rest == SubSeq(fifo, k + 1, Len(fifo))
           now == IF k = 0 THEN heard ELSE [trk |-> fifo[k].trk, pos |-> 0]
       IN  \/ /\ rest = <<>>
              /\ fifo' = <<>>
              /\ pcm' = "wait"
              /\ woken' = FALSE
              /\ heard' = now
              /\ UNCHANGED <<totbytes, refill>>
           \/ /\ rest # <<>> /\ Head(rest).cmd = "DATA"
              /\ fifo' = Tail(rest)
              /\ totbytes' = totbytes - 1
              /\ heard' = [now EXCEPT !.pos = @ + 1]
              /\ \/ pcm' = "fill" /\ refill' = TRUE
                 \/ pcm' = "decode" /\ UNCHANGED refill
              /\ UNCHANGED woken
           \/ /\ rest # <<>> /\ Head(rest).cmd = "END"
              /\ fifo' = Tail(rest)
              /\ pcm' = IF Tail(rest) = <<>> THEN "stop" ELSE "eof"
              /\ heard' = now
              /\ UNCHANGED <<totbytes, refill, woken>>
    /\ UNCHANGED <<lastcmd, ready, dlVars, trackVars, codec, requests, callbacks, crashed>>
    /\ PcmElse

(* pthread_cond_wait returned, and what for is not looked at: it was signalled, *)
(* or woke up for no reason.  With nothing queued, 0 bytes are returned.        *)
PcmWake ==
    /\ Running /\ pcm = "wait"
    /\ pcm' = IF fifo = <<>> THEN "eof" ELSE "decode"
    /\ woken' = FALSE
    /\ UNCHANGED <<fifoVars, dlVars, trackVars, codec, requests, refill, heard, callbacks, crashed>>
    /\ PcmElse

(* the decoder reached the end of its file and is closed *)
PcmEof ==
    /\ Running /\ pcm = "eof"
    /\ codec' = "none"
    /\ pcm' = "idle"
    /\ UNCHANGED <<fifoVars, dlVars, trackVars, requests, refill, woken, heard, callbacks, crashed>>
    /\ PcmElse

PcmStopAbort ==
    /\ Running /\ pcm = "stop"
    /\ StopAbort
    /\ pcm' = "spin"
    /\ UNCHANGED <<fifoVars, dlstate, trackVars, codec, requests, refill, woken, heard, callbacks, crashed>>
    /\ PcmElse

PcmStopSpin ==
    /\ Running /\ pcm = "spin"
    /\ dlstate # "FILLING_BUSY"
    /\ pcm' = "drain"
    /\ UNCHANGED <<fifoVars, dlVars, trackVars, codec, requests, refill, woken, heard, callbacks, crashed>>
    /\ PcmElse

PcmStopDrain ==
    /\ Running /\ pcm = "drain"
    /\ dlstate' = "DRAINING"
    /\ pcm' = "reset"
    /\ UNCHANGED <<fifoVars, dlabort, trackVars, codec, requests, refill, woken, heard, callbacks, crashed>>
    /\ PcmElse

PcmStopReset ==
    /\ Running /\ pcm = "reset"
    /\ StopReset
    /\ pcm' = "end_of_playlist"
    /\ UNCHANGED <<trackVars, requests, refill, woken, heard, callbacks, crashed>>
    /\ PcmElse

(* client_callback(DESPOTIFY_END_OF_PLAYLIST) *)
PcmEndOfPlaylist ==
    /\ Running /\ pcm = "end_of_playlist"
    /\ callbacks' = callbacks \union {"END_OF_PLAYLIST"}
    /\ pcm' = "eof"
    /\ UNCHANGED <<fifoVars, dlVars, trackVars, codec, requests, refill, woken, heard, crashed>>
    /\ PcmElse

PcmStep ==
    \/ PcmEnter \/ PcmFill \/ PcmAbortWait \/ PcmSwitch \/ PcmBusy \/ PcmSend
    \/ PcmCodec \/ PcmSniff \/ PcmConsume \/ PcmWake \/ PcmEof
    \/ PcmStopAbort \/ PcmStopSpin \/ PcmStopDrain \/ PcmStopReset \/ PcmEndOfPlaylist

-----------------------------------------------------------------------------
(* The network thread: one packet of the server after the other *)

NetElse == UNCHANGED <<apiVars, pcm, refill, heard>>

(* the requests the server may send its next packet for *)
Answerable == IF InOrder THEN {1} \intersect 1 .. Len(requests) ELSE 1 .. Len(requests)

Remove(q, i) == SubSeq(q, 1, i - 1) \o SubSeq(q, i + 1, Len(q))

(* snd_ioctl, up to the lock: while dlabort is set the data is freed *)
Offer(buffer, label) ==
    /\ pending' = buffer
    /\ net' = IF dlabort THEN (IF label = "append" THEN "idle" ELSE "zero_offset") ELSE label

(* mutant: the IV is not set back for a new key *)
NetKeyKeepsIV ==
    /\ Running /\ net = "idle"
    /\ \E i \in Answerable :
          /\ requests[i].kind = "key"
          /\ requests' = Remove(requests, i)
          /\ track # NULL
          /\ aes' = [aes EXCEPT !.trk = requests[i].trk]
          /\ Offer([cmd |-> "START", trk |-> track, off |-> 0, good |-> TRUE], "append")
    /\ UNCHANGED <<fifoVars, dlVars, trackVars, codec, woken, errorcount, callbacks, crashed>>
    /\ NetElse

(* handle_aeskey, despotify_aes_callback: the key is that of the track asked *)
(* for, the START carries whatever ds->track is now                          *)
NetKey ==
    /\ Running /\ net = "idle"
    /\ \E i \in Answerable :
          /\ requests[i].kind = "key"
          /\ requests' = Remove(requests, i)
          /\ \/ /\ track = NULL
                /\ crashed' = "despotify_aes_callback"
                /\ UNCHANGED <<aes, pending, net>>
             \/ /\ track # NULL
                /\ aes' = [trk |-> requests[i].trk, pos |-> 0]
                /\ Offer([cmd |-> "START", trk |-> track, off |-> 0, good |-> TRUE], "append")
                /\ UNCHANGED crashed
    /\ UNCHANGED <<fifoVars, dlVars, trackVars, codec, woken, errorcount, callbacks>>
    /\ NetElse

(* handle_aeskeyerr does nothing *)
NetKeyError ==
    /\ Running /\ net = "idle" /\ "key" \in Faults
    /\ \E i \in Answerable :
          /\ requests[i].kind = "key"
          /\ requests' = Remove(requests, i)
    /\ UNCHANGED <<fifoVars, dlVars, trackVars, codec, netVars, woken, callbacks, crashed>>
    /\ NetElse

(* despotify_substream_callback, CHANNEL_DATA: decrypt with the key and the *)
(* counter as they are, and queue                                           *)
NetData ==
    /\ Running /\ net = "idle"
    /\ \E i \in Answerable :
          LET r == requests[i]
              at == r.off + r.got
          IN  /\ r.kind = "substream"
              /\ r.got < Available(r.trk, r.off)
              /\ requests' = [requests EXCEPT ![i].got = @ + 1]
              /\ aes' = [aes EXCEPT !.pos = @ + 1]
              /\ Offer([cmd |-> "DATA", trk |-> r.trk, off |-> at,
                        good |-> aes = [trk |-> r.trk, pos |-> at]], "append")
    /\ UNCHANGED <<fifoVars, dlVars, trackVars, codec, woken, errorcount, callbacks, crashed>>
    /\ NetElse

(* CHANNEL_ERROR, the fourth in a row ends the process *)
NetError ==
    /\ Running /\ net = "idle" /\ "channel" \in Faults
    /\ \E i \in Answerable :
          /\ requests[i].kind = "substream"
          /\ requests' = Remove(requests, i)
    /\ errorcount' = errorcount + 1
    /\ crashed' = IF errorcount + 1 > 3 THEN "exit" ELSE crashed
    /\ UNCHANGED <<fifoVars, dlVars, trackVars, codec, net, pending, aes, woken, callbacks>>
    /\ NetElse

(* snd_ioctl under the lock: link the buffer and signal.  A buffer behind a  *)
(* START is looked at (is it Spotify's own first page?) even if it is an END *)
(* without data.                                                             *)
NetAppend ==
    /\ Running /\ net \in {"append", "append_end"}
    /\ \/ /\ lastcmd = "START" /\ pending.cmd = "END"
          /\ crashed' = "snd_ioctl"
          /\ UNCHANGED <<fifo, totbytes, lastcmd, woken, net>>
       \/ /\ ~(lastcmd = "START" /\ pending.cmd = "END")
          /\ fifo' = Append(fifo, pending)
          /\ totbytes' = totbytes + (IF pending.cmd = "DATA" THEN 1 ELSE 0)
          /\ lastcmd' = pending.cmd
          /\ woken' = (woken \/ pcm = "wait")
          /\ net' = IF net = "append" THEN "idle" ELSE "zero_offset"
          /\ UNCHANGED crashed
    /\ UNCHANGED <<ready, dlVars, trackVars, codec, requests, pending, aes, errorcount, callbacks>>
    /\ NetElse

(* CHANNEL_END: the offset moves on; a short count is the end of the track *)
NetEnd ==
    /\ Running /\ net = "idle"
    /\ \E i \in Answerable :
          LET r == requests[i]
          IN  /\ r.kind = "substream"
              /\ r.got = Available(r.trk, r.off)
              /\ requests' = Remove(requests, i)
              /\ offset' = offset + r.got
              /\ net' = IF r.got < SUBSTREAM_SIZE THEN "advance" ELSE "channel_end"
    /\ errorcount' = 0
    /\ UNCHANGED <<fifoVars, dlVars, track, play_as_list, codec, pending, aes, woken, callbacks, crashed>>
    /\ NetElse

NetAdvance ==
    /\ Running /\ net = "advance"
    /\ \/ /\ track = NULL
          /\ crashed' = "despotify_substream_callback"
          /\ UNCHANGED <<track, net>>
       \/ /\ track # NULL
          /\ track' = NextPlayable(track)
          /\ net' = "end_of_track"
          /\ UNCHANGED crashed
    /\ UNCHANGED <<fifoVars, dlVars, offset, play_as_list, codec, requests, pending, aes, errorcount,
                   woken, callbacks>>
    /\ NetElse

(* snd_ioctl(SND_CMD_END) *)
NetEndOfTrack ==
    /\ Running /\ net = "end_of_track"
    /\ dlstate' = IF track = NULL THEN "END_OF_LIST" ELSE dlstate
    /\ Offer(NoBuffer, "append_end")
    /\ UNCHANGED <<fifoVars, dlabort, trackVars, codec, requests, aes, errorcount, woken, callbacks, crashed>>
    /\ NetElse

(* mutant: the offset of the old track is kept *)
NetKeepOffset ==
    /\ Running /\ net = "zero_offset"
    /\ net' = "next_key"
    /\ UNCHANGED <<fifoVars, dlVars, trackVars, codec, requests, pending, aes, errorcount,
                   woken, callbacks, crashed>>
    /\ NetElse

NetZeroOffset ==
    /\ Running /\ net = "zero_offset"
    /\ offset' = 0
    /\ net' = "next_key"
    /\ UNCHANGED <<fifoVars, dlVars, track, play_as_list, codec, requests, pending, aes, errorcount,
                   woken, callbacks, crashed>>
    /\ NetElse

(* the key of the next track, if the list is played; an error is ignored *)
NetNextKey ==
    /\ Running /\ net = "next_key"
    /\ \/ /\ track # NULL /\ play_as_list
          /\ WriteOk(KeyRequest(track)) \/ WriteFails
       \/ /\ track = NULL \/ ~play_as_list
          /\ UNCHANGED requests
    /\ net' = "channel_end"
    /\ UNCHANGED <<fifoVars, dlVars, trackVars, codec, pending, aes, errorcount, woken, callbacks, crashed>>
    /\ NetElse

(* mutant: an aborted download stays busy *)
NetChannelEndStaysBusy ==
    /\ Running /\ net = "channel_end"
    /\ dlstate' = IF ~dlabort /\ dlstate # "END_OF_LIST" THEN "FILLING" ELSE dlstate
    /\ net' = "idle"
    /\ UNCHANGED <<fifoVars, dlabort, trackVars, codec, requests, pending, aes, errorcount, woken,
                   callbacks, crashed>>
    /\ NetElse

(* snd_ioctl(SND_CMD_CHANNEL_END) *)
NetChannelEnd ==
    /\ Running /\ net = "channel_end"
    /\ dlstate' = IF dlabort THEN "DRAINING"
                  ELSE IF dlstate # "END_OF_LIST" THEN "FILLING" ELSE dlstate
    /\ net' = "idle"
    /\ UNCHANGED <<fifoVars, dlabort, trackVars, codec, requests, pending, aes, errorcount, woken,
                   callbacks, crashed>>
    /\ NetElse

NetStep ==
    \/ NetKey \/ NetKeyError \/ NetData \/ NetError \/ NetAppend \/ NetEnd \/ NetAdvance
    \/ NetEndOfTrack \/ NetZeroOffset \/ NetNextKey \/ NetChannelEnd

-----------------------------------------------------------------------------
Next == ApiCall \/ ApiStep \/ PcmStep \/ NetStep

(* Every thread is scheduled, one that sleeps once it was signalled, and the   *)
(* server answers what it was asked; the caller need not call again.           *)
Fairness ==
    WF_vars(ApiStep) /\ WF_vars(PcmStep /\ (pcm = "wait" => woken)) /\ WF_vars(NetStep)

Spec == Init /\ [][Next]_vars /\ Fairness

-----------------------------------------------------------------------------
(* Every variable has its type. *)
TypeOK ==
    /\ fifo \in Seq(Buffer) /\ totbytes \in Int
    /\ lastcmd \in {"START", "DATA", "END"} /\ ready \in BOOLEAN
    /\ dlstate \in {"FILLING", "FILLING_BUSY", "DRAINING", "END_OF_LIST"}
    /\ dlabort \in BOOLEAN
    /\ track \in 0 .. Tracks /\ offset \in Nat /\ play_as_list \in BOOLEAN
    /\ aes \in [trk : 0 .. Tracks, pos : Nat] /\ errorcount \in Nat
    /\ codec \in {"none", "open"}
    /\ requests \in Seq(Request)
    /\ api \in {"idle", "stop", "spin", "drain", "reset", "offset", "notify", "track", "key",
                "snd_next", "advance"}
    /\ call \in Call
    /\ pcm \in {"idle", "fill", "abort_wait", "switch", "busy", "send", "codec", "sniff",
                "decode", "wait", "eof", "stop", "spin", "drain", "reset", "end_of_playlist"}
    /\ refill \in BOOLEAN /\ woken \in BOOLEAN
    /\ net \in {"idle", "append", "append_end", "advance", "end_of_track", "zero_offset",
                "next_key", "channel_end"}
    /\ pending \in Buffer
    /\ commands \in 0 .. MaxCommands
    /\ heard \in [trk : 0 .. Tracks, pos : Nat]
    /\ callbacks \subseteq {"END_OF_PLAYLIST", "TRACK_PLAY_ERROR"}
    /\ crashed \in {"", "despotify_next", "despotify_snd_read_stream", "cmd_getsubstreams",
                    "despotify_aes_callback", "exit", "snd_ioctl", "despotify_substream_callback"}

(* fifo->totbytes is the amount of data queued, whoever queued, consumed or  *)
(* dropped it last.  (With every type.)                                      *)
TotbytesExact == TypeOK /\ totbytes = Bytes(fifo)

(* Data is never queued beyond the size of the buffer. *)
BufferBounded == totbytes <= maxbytes

(* No thread follows a NULL track or NULL data, and no assertion fails. *)
NoCrash == crashed = ""

(* despotify_next finds the next playable track, or that there is none. *)
NextIsSafe == crashed # "despotify_next"

(* The assertion of cmd_getsubstreams: a substream starts at an aligned offset. *)
OffsetAligned == crashed # "cmd_getsubstreams"

Substreams == {i \in 1 .. Len(requests) : requests[i].kind = "substream"}

(* DL_FILLING_BUSY stands for the one substream that is being fetched: there is  *)
(* never a second one, and dlstate is busy from the request until its last       *)
(* packet is handled (or the end of the list is known).                          *)
BusyIsOneSubstream ==
    /\ Cardinality(Substreams) <= 1
    /\ Substreams # {} => dlstate = "FILLING_BUSY"

(* What is queued, read after what was played last, is a proper stream: START of  *)
(* a track, its data from the first packet to the last, decrypted with its own    *)
(* key at its own position, END, and then START of the next.  The one exception:  *)
(* a track whose key was refused, or could not be requested, or was not requested *)
(* because play_as_list is false, is fetched all the same; its data follows       *)
(* without a START and is noise.                                                  *)
KeyMayBeMissing == ~play_as_list \/ Faults \intersect {"write", "key"} # {}

FifoIsStream ==
    \A i \in 1 .. Len(fifo) :
        LET b == fifo[i]
            p == IF i > 1 THEN fifo[i - 1]
                 ELSE [cmd |-> IF heard.trk = NULL THEN "END" ELSE "DATA", trk |-> heard.trk,
                       off |-> heard.pos - 1, good |-> TRUE]
            played == i = 1 /\ p.cmd = "DATA" /\ p.off + 1 = Size[p.trk]
        IN  CASE b.cmd = "START" -> p.cmd = "END" \/ played
              [] b.cmd = "DATA"  ->
                    \/ p.cmd = "START" /\ p.trk = b.trk /\ b.off = 0 /\ b.good
                    \/ p.cmd = "DATA" /\ p.trk = b.trk /\ b.off = p.off + 1 /\ b.good = p.good
                    \/ KeyMayBeMissing /\ (p.cmd = "END" \/ played) /\ b.off = 0 /\ ~b.good
              [] b.cmd = "END"   -> p.cmd = "DATA" /\ p.off + 1 = Size[p.trk]

(* DESPOTIFY_END_OF_PLAYLIST is for the end of the last track of the list. *)
EndOfPlaylistIsEnd ==
    pcm = "end_of_playlist" =>
        /\ play_as_list => NextPlayable(heard.trk) = NULL
        /\ heard.pos = Size[heard.trk]

(* The decoder exists as long as the PCM thread is inside it: until snd_do_vorbis *)
(* or snd_do_mpeg has seen the end of file and closes it.                         *)
DecoderNotFreedInUse ==
    pcm \in {"decode", "wait", "eof", "end_of_playlist"} => codec = "open"

(* Once despotify_stop has returned nothing is fetched or queued. *)
StoppedIsQuiet ==
    (api = "idle" /\ ready /\ call.cmd = "stop") => fifo = <<>> /\ Substreams = {}

(* A call of the library returns: snd_stop does not wait for ever. *)
CallsReturn == (api # "idle") ~> (api = "idle" \/ crashed # "")

(* Not so of two calls: a play call that no other call follows is answered by   *)
(* the announcement of its track.  (snd_stop may find the PCM thread on its way   *)
(* from an aborted snd_fill_fifo to snd_stream_is_vorbis, which then waits for a   *)
(* second buffer that nobody requests.)                                           *)
PlayIsAnswered ==
    \A t \in Playable :
        (call.cmd = "play" /\ call.trk = t /\ api = "key" /\ commands = MaxCommands)
            ~> heard.trk = t

(* Playback of a list goes on to the last packet of the last playable track. *)
ListIsPlayed ==
    (call.cmd = "play" /\ call.list /\ api = "key") ~>
        \/ commands > 1
        \/ NextPlayable(heard.trk) = NULL /\ heard.trk # NULL /\ heard.pos = Size[heard.trk]
==============================================================================
