------------------------------ MODULE PcmThread ------------------------------
(***************************************************************************)
(* The thread that plays PCM data, and the calls that pause, resume and    *)
(* end it.  Every client has its own copy of this code, all alike:         *)
(* clients/simple/simple.c, clients/despotify/session.c and                *)
(* bindings/python/src/audio_thread.c.  The modules of those clients       *)
(* extend this one.                                                        *)
(*                                                                         *)
(* A section under thread_mutex is one step.  The loop reads play_state    *)
(* outside the mutex, and its pthread_cond_wait tests nothing: a signal    *)
(* sent while the thread is between the two is lost.                       *)
(***************************************************************************)
VARIABLES
    play_state,
    pcm         \* where the thread is

pcmVars == <<play_state, pcm>>

PcmStates == {"none", "start", "switch", "pause", "wait", "get_pcm", "callback", "ended"}

PcmTypeOK ==
    /\ play_state \in {"PAUSE", "PLAY", "EXIT"}
    /\ pcm \in PcmStates

(* A mutex of its own, a state of PAUSE, and the thread not created yet *)
PcmInit ==
    /\ play_state = "PAUSE"
    /\ pcm = "none"

(* thread_init: pthread_create *)
thread_init ==
    /\ pcm' = "start"
    /\ play_state' = "PAUSE"

(* pthread_cond_signal wakes the thread if it waits *)
Signalled == IF pcm = "wait" THEN "switch" ELSE pcm

thread_play ==
    /\ play_state' = "PLAY"
    /\ pcm' = Signalled

thread_pause ==
    /\ play_state' = "PAUSE"
    /\ UNCHANGED pcm

(* thread_exit up to pthread_join, and pthread_join *)
thread_exit ==
    /\ play_state' = "EXIT"
    /\ pcm' = Signalled

pthread_join == pcm = "ended"

-----------------------------------------------------------------------------
(* thread_loop *)

(* the mutex and the condition are initialised by the thread itself *)
LoopStart ==
    /\ pcm = "start"
    /\ pcm' = "switch"
    /\ UNCHANGED play_state

LoopSwitch ==
    /\ pcm = "switch"
    /\ pcm' = CASE play_state = "PAUSE" -> "pause"
                [] play_state = "PLAY"  -> "get_pcm"
                [] play_state = "EXIT"  -> "ended"
    /\ UNCHANGED play_state

LoopWait ==
    /\ pcm = "pause"
    /\ pcm' = "wait"
    /\ UNCHANGED play_state

(* despotify_get_pcm returned data or nothing, without a callback *)
LoopPlay ==
    /\ pcm = "get_pcm"
    /\ pcm' = "switch"
    /\ UNCHANGED play_state

(* despotify_get_pcm calls the client back: a new track, the time, the end *)
LoopCallback ==
    /\ pcm = "get_pcm"
    /\ pcm' = "callback"
    /\ UNCHANGED play_state

PcmLoop == LoopStart \/ LoopSwitch \/ LoopWait \/ LoopPlay \/ LoopCallback
==============================================================================
