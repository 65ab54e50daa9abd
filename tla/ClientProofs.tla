---------------------------- MODULE ClientProofs ----------------------------
(***************************************************************************)
(* Proofs about the curses client, for any number of searches and tracks   *)
(* and with signals at any time: the focus is on an element that is shown,  *)
(* the cursors are on a search and a track, and neither thread uses a       *)
(* session that is freed, to play, to show the browser or for the footer.   *)
(***************************************************************************)
EXTENDS Client, SequenceTheorems, TLAPS

(* The larger and the smaller of two numbers. *)
LEMMA MaxOfTwo ==
    ASSUME NEW a \in Int, NEW b \in Int
    PROVE  Max({a, b}) \in {a, b} /\ Max({a, b}) >= a /\ Max({a, b}) >= b
<1>1. \E x \in {a, b} : \A y \in {a, b} : x >= y
  OBVIOUS
<1> QED BY <1>1 DEF Max

LEMMA MinOfTwo ==
    ASSUME NEW a \in Int, NEW b \in Int
    PROVE  Min({a, b}) \in {a, b} /\ Min({a, b}) <= a /\ Min({a, b}) <= b
<1>1. \E x \in {a, b} : \A y \in {a, b} : x =< y
  OBVIOUS
<1> QED BY <1>1 DEF Min

-----------------------------------------------------------------------------
(* The user interface: what ui.c and ui_footer.c do to focus and input line. *)

App == [shown : Sets, focus : Elements, flagged : SUBSET Elements,
        input : Inputs, prev : Elements, dirty : BOOLEAN,
        drawn : States \union Inputs,
        foot : [at : {"none", "dirty", "update", "input", "state", "print"},
                text : States \union Inputs],
        msgs : SUBSET Messages, done : BOOLEAN]

(* The focus is shown, and on the footer exactly while a line is asked for; the *)
(* element to go back to is shown, too.                                        *)
Focused(a) ==
    /\ a.focus \in a.flagged
    /\ Visible(a, a.focus)
    /\ a.input = "NONE" => a.focus # "FOOTER"
    /\ a.input # "NONE" => /\ a.focus = "FOOTER"
                           /\ a.prev # "FOOTER" /\ Visible(a, a.prev)

(* Posting, and marking and drawing the footer, leave the focus alone. *)
Same(a, b) ==
    /\ b.shown = a.shown /\ b.focus = a.focus /\ b.flagged = a.flagged
    /\ b.input = a.input /\ b.prev = a.prev

LEMMA SameFocused ==
    ASSUME NEW a, NEW b, Same(a, b), Focused(a)
    PROVE  Focused(b)
BY DEF Same, Focused, Visible

LEMMA PostKeeps ==
    ASSUME NEW a \in App, NEW m \in Messages
    PROVE  /\ event_msg_post(a, m) \in App /\ Same(a, event_msg_post(a, m))
           /\ event_msg_post(a, m).foot = a.foot
BY DEF event_msg_post, App, Same

LEMMA LogKeeps ==
    ASSUME NEW a \in App
    PROVE  log_append(a) \in App /\ Same(a, log_append(a)) /\ log_append(a).foot = a.foot
BY PostKeeps DEF log_append, Messages

LEMMA DirtyKeeps ==
    ASSUME NEW a \in App
    PROVE  ui_dirty(a) \in App /\ Same(a, ui_dirty(a)) /\ ui_dirty(a).foot = a.foot
BY DEF ui_dirty, App, Same

LEMMA UpdateKeeps ==
    ASSUME NEW a \in App
    PROVE  ui_update(a) \in App /\ Same(a, ui_update(a)) /\ ui_update(a).foot = a.foot
BY DEF ui_update, App, Same

LEMMA ShowResult ==
    ASSUME NEW a \in App, NEW state, NEW show \in Sets
    PROVE  LET b == ui_show(a, state, show)
           IN  /\ b \in App
               /\ b.input = a.input /\ b.foot = a.foot
               /\ b.shown \in {show, "SPLASH"}
               /\ b.shown = "BROWSER" => state = "ONLINE"
               /\ a.input = "NONE" => Focused(b)
<1> DEFINE set == IF show = "BROWSER" /\ state # "ONLINE" THEN "SPLASH" ELSE show
           c == [a EXCEPT !.shown = set, !.focus = FirstOf(set),
                    !.flagged = {e \in @ : SetOf(e) \in {set, "NONE"}} \union {FirstOf(set)}]
<1>1. set \in Sets /\ set \in {show, "SPLASH"} /\ (set = "BROWSER" => state = "ONLINE")
  BY DEF Sets
<1>2. FirstOf(set) \in Elements \ {"FOOTER"} /\ SetOf(FirstOf(set)) = set
  BY <1>1 DEF FirstOf, SetOf, Sets, Elements
<1> HIDE DEF set
<1>3. c \in App
  BY <1>1, <1>2 DEF App
<1>4. /\ c.shown = set /\ c.focus = FirstOf(set) /\ FirstOf(set) \in c.flagged
      /\ c.input = a.input /\ c.foot = a.foot
  BY DEF App
<1>5. a.input = "NONE" => Focused(c)
  BY <1>2, <1>4 DEF Focused, Visible
<1> HIDE DEF c
<1>6. ui_show(a, state, show) = event_msg_post(c, "UPDATE")
  BY DEF ui_show, c, set
<1>7. /\ ui_show(a, state, show) \in App /\ Same(c, ui_show(a, state, show))
      /\ ui_show(a, state, show).foot = c.foot
  BY <1>3, <1>6, PostKeeps DEF Messages
<1> QED BY <1>1, <1>4, <1>5, <1>7, SameFocused DEF Same

LEMMA FocusResult ==
    ASSUME NEW a \in App, NEW e \in Elements
    PROVE  LET b == ui_focus(a, e)
           IN  /\ b \in App
               /\ b.shown = a.shown /\ b.input = a.input /\ b.prev = a.prev
               /\ b.foot = a.foot
               /\ Visible(a, e) => b.focus = e /\ e \in b.flagged
               /\ ~Visible(a, e) => b = a
<1> DEFINE c == [a EXCEPT !.focus = e, !.flagged = {e},
                          !.dirty = @ \/ "FOOTER" \in a.flagged \union {e}]
<1>1. CASE Visible(a, e)
  <2>1. (a.dirty \/ "FOOTER" \in a.flagged \union {e}) \in BOOLEAN
    BY Zenon
  <2>2. c \in App
    BY <2>1 DEF App
  <2>3. /\ c.shown = a.shown /\ c.input = a.input /\ c.prev = a.prev /\ c.foot = a.foot
        /\ c.focus = e /\ e \in c.flagged
    BY DEF App
  <2> HIDE DEF c
  <2>4. ui_focus(a, e) = event_msg_post(c, "UPDATE")
    BY <1>1 DEF ui_focus, c
  <2>5. ui_focus(a, e) \in App /\ Same(c, ui_focus(a, e)) /\ ui_focus(a, e).foot = c.foot
    BY <2>2, <2>4, PostKeeps DEF Messages
  <2> QED BY <1>1, <2>3, <2>5 DEF Same
<1>2. CASE ~Visible(a, e)
  BY <1>2 DEF ui_focus
<1> QED BY <1>1, <1>2

(* The footer asks for a line. *)
LEMMA InputResult ==
    ASSUME NEW a \in App, NEW type \in Inputs \ {"NONE"}, a.input = "NONE", Focused(a)
    PROVE  LET b == footer_input(a, type)
           IN  b \in App /\ b.shown = a.shown /\ b.foot = a.foot /\ Focused(b)
<1> DEFINE c == [a EXCEPT !.input = type, !.prev = a.focus]
<1>1. c \in App
  BY DEF App
<1>2. c.input = type /\ c.prev = a.focus /\ c.shown = a.shown /\ c.foot = a.foot
  BY DEF App
<1>3. Visible(c, "FOOTER")
  BY DEF Visible, SetOf
<1> HIDE DEF c
<1>4. footer_input(a, type) = ui_focus(c, "FOOTER")
  BY DEF footer_input, c
<1>5. LET b == footer_input(a, type)
      IN  /\ b \in App /\ b.shown = a.shown /\ b.input = type /\ b.prev = a.focus
          /\ b.foot = a.foot
          /\ b.focus = "FOOTER" /\ "FOOTER" \in b.flagged
  BY <1>1, <1>2, <1>3, <1>4, FocusResult DEF Elements
<1> QED BY <1>5 DEF Focused, Visible, SetOf

(* The line is entered or cancelled. *)
LEMMA InputEndResult ==
    ASSUME NEW a \in App, a.input # "NONE", Focused(a)
    PROVE  LET b == footer_input_end(a)
           IN  /\ b \in App /\ b.shown = a.shown /\ b.foot = a.foot
               /\ b.input = "NONE" /\ Focused(b)
<1> DEFINE c == [a EXCEPT !.input = "NONE"]
           d == ui_focus(c, a.prev)
<1>1. c \in App /\ c.input = "NONE" /\ c.shown = a.shown /\ c.foot = a.foot
  BY DEF App, Inputs
<1>2. a.prev \in Elements /\ a.prev # "FOOTER" /\ Visible(a, a.prev) /\ Visible(c, a.prev)
  BY <1>1 DEF App, Focused, Visible
<1> HIDE DEF c
<1>3. /\ d \in App /\ d.shown = a.shown /\ d.input = "NONE" /\ d.foot = a.foot
      /\ d.focus = a.prev /\ a.prev \in d.flagged
  BY <1>1, <1>2, FocusResult
<1>4. Focused(d)
  BY <1>2, <1>3 DEF Focused, Visible
<1> HIDE DEF d
<1>5. footer_input_end(a) = ui_dirty(d)
  BY DEF footer_input_end, d, c
<1>6. /\ footer_input_end(a) \in App /\ Same(d, footer_input_end(a))
      /\ footer_input_end(a).foot = d.foot
  BY <1>3, <1>5, DirtyKeeps
<1> QED BY <1>3, <1>4, <1>6, SameFocused DEF Same

-----------------------------------------------------------------------------
(* The session and its PCM thread. *)

Ses == [state : States, dsfy : {"none", "live", "freed"},
        playing : BOOLEAN, paused : BOOLEAN]

Mains == {"select", "deliver", "draw", "clear", "join", "disconnect", "disconnected",
          "connect", "authenticate", "cleanup", "free", "exit"}

SessionTypes ==
    /\ ses \in Ses
    /\ thread \in {"0", "running", "joined"}
    /\ main \in Mains
    /\ after \in {"none", "disconnected", "connect", "free"}
    /\ main \in {"join", "disconnect"} => after # "none"
    /\ PcmTypeOK

(* Only a session that is online plays or may come to play: a refused login    *)
(* leaves a thread behind, but one that is paused.  And a session is taken     *)
(* offline, and freed, only when its thread has ended.                         *)
ThreadInv ==
    /\ play_state = "PLAY" \/ pcm \in {"get_pcm", "callback"} => ses.state = "ONLINE"
    /\ ses.state = "ONLINE" => ses.dsfy = "live"
    /\ ses.playing = TRUE => ses.state = "ONLINE"
    /\ thread = "joined" => pcm = "ended"
    /\ thread = "0" => pcm = "none"
    /\ main = "disconnect" => thread # "running"
    /\ main \in {"connect", "authenticate"} => ses.state # "ONLINE"
    /\ main = "authenticate" => ses.dsfy = "live"

SessionInv == SessionTypes /\ ThreadInv

(* What a key may do to the session: nothing, or one of the commands of *)
(* session.c.                                                           *)
KeyKeepsSession ==
    /\ main = "select" /\ main' \in {"select", "deliver"}
    /\ UNCHANGED <<ses, thread, after, pcmVars>>

KeyOnSession ==
    \/ KeyKeepsSession
    \/ main = "select" /\ \E a : sess_stop(a) \/ sess_pause(a)
    \/ main = "select" /\ sess_play
    \/ main = "select" /\ \E a : \E to \in {"disconnected", "connect"} : sess_disconnect(a, to)

LEMMA ShowsKeepsSession ==
    ASSUME main = "select", NEW a, Shows(a)
    PROVE  KeyKeepsSession
BY DEF Shows, Handled, KeyKeepsSession

LEMMA TracklistKeepsSession ==
    ASSUME main = "select", NEW a, NEW l, NEW p, NEW focus, tracklist_set(a, l, p, focus)
    PROVE  KeyKeepsSession
BY DEF tracklist_set, KeyKeepsSession

LEMMA BoundOnSession ==
    ASSUME main = "select", NEW a, Bound(a) \/ command_process(a)
    PROVE  KeyOnSession
<1>1. ASSUME Bound(a) PROVE KeyOnSession
  BY <1>1, ShowsKeepsSession
  DEF Bound, cmd_cb_connect, cmd_cb_disconnect, cmd_cb_search, cmd_cb_stop, cmd_cb_pause,
      cmd_cb_log, cmd_cb_help, KeyOnSession
<1>2. ASSUME command_process(a), ~Bound(a) PROVE KeyOnSession
  BY <1>2, ShowsKeepsSession
  DEF command_process, cmd_cb_main, cmd_cb_redraw, cmd_cb_quit, KeyOnSession
<1> QED BY <1>1, <1>2

LEMMA KeysOnSession == ASSUME Keys PROVE KeyOnSession
<1>1. CASE ui_keypress_special
  BY <1>1, ShowsKeepsSession
  DEF ui_keypress_special, Pressed, cmd_cb_quit, cmd_cb_redraw, KeyOnSession
<1>2. CASE ui_keypress_bound
  BY <1>2, ShowsKeepsSession, BoundOnSession DEF ui_keypress_bound, Pressed, KeyOnSession
<1>3. CASE footer_edit \/ footer_cancel
  BY <1>3, ShowsKeepsSession DEF footer_edit, footer_cancel, Pressed, KeyOnSession
<1>4. CASE footer_enter
  <2> DEFINE a == footer_input_end(app)
  <2>1. main = "select" /\ \/ command_process(a)
                           \/ sess_search(a)
                           \/ Shows(footer_input(a, "PASSWORD"))
                           \/ sess_disconnect(a, "connect")
    BY <1>4 DEF footer_enter, Pressed
  <2> HIDE DEF a
  <2>2. CASE command_process(a)
    BY <2>1, <2>2, BoundOnSession
  <2>3. CASE sess_search(a)
    BY <2>1, <2>3, ShowsKeepsSession, TracklistKeepsSession DEF sess_search, KeyOnSession
  <2>4. CASE Shows(footer_input(a, "PASSWORD"))
    BY <2>1, <2>4, ShowsKeepsSession DEF KeyOnSession
  <2>5. CASE sess_disconnect(a, "connect")
    BY <2>1, <2>5 DEF KeyOnSession
  <2> QED BY <2>1, <2>2, <2>3, <2>4, <2>5
<1>5. CASE log_keypress \/ tracklist_left
  BY <1>5, ShowsKeepsSession DEF log_keypress, tracklist_left, Pressed, KeyOnSession
<1>6. CASE sidebar_keypress
  BY <1>6, TracklistKeepsSession DEF sidebar_keypress, Pressed, KeyOnSession
<1>7. CASE tracklist_play
  BY <1>7 DEF tracklist_play, InTracklist, Pressed, KeyOnSession
<1>8. CASE tracklist_keypress
  BY <1>8 DEF tracklist_keypress, InTracklist, Pressed, Handled, KeyOnSession, KeyKeepsSession
<1> QED BY <1>1, <1>2, <1>3, <1>4, <1>5, <1>6, <1>7, <1>8 DEF Keys

(* A step that leaves session and thread alone, but for where the main thread is. *)
LEMMA MainMoves ==
    ASSUME SessionInv, UNCHANGED <<ses, thread, after, pcmVars>>,
           \/ main' = main
           \/ main' \in Mains \ {"join", "disconnect", "connect", "authenticate"}
    PROVE  SessionInv'
BY DEF SessionInv, SessionTypes, ThreadInv, PcmTypeOK, pcmVars

(* sess_disconnect tells the thread to exit; when there is none, it goes on. *)
LEMMA DisconnectKeepsSession ==
    ASSUME SessionInv, NEW a, NEW to \in {"disconnected", "connect", "free"},
           sess_disconnect(a, to)
    PROVE  SessionInv'
<1>1. after' = to /\ UNCHANGED <<ses, thread>>
  BY DEF sess_disconnect
<1>2. CASE thread = "0"
  BY <1>1, <1>2 DEF sess_disconnect, SessionInv, SessionTypes, ThreadInv, PcmTypeOK, pcmVars, Mains
<1>3. CASE thread # "0"
  <2>1. main' = "join" /\ play_state' = "EXIT" /\ pcm' = Signalled
    BY <1>3 DEF sess_disconnect, thread_exit
  <2> QED BY <1>1, <1>3, <2>1
      DEF SessionInv, SessionTypes, ThreadInv, PcmTypeOK, PcmStates, Signalled, Mains
<1> QED BY <1>2, <1>3

LEMMA SessionStep == SessionInv /\ [Next]_vars => SessionInv'
<1> SUFFICES ASSUME SessionInv, [Next]_vars PROVE SessionInv'
  OBVIOUS
<1>1. CASE Keys
  <2>1. CASE KeyKeepsSession
    BY <2>1, MainMoves DEF KeyKeepsSession, Mains
  <2>2. ASSUME main = "select", NEW a, sess_stop(a) PROVE SessionInv'
    <3>1. /\ main' = "deliver" /\ UNCHANGED <<thread, after>>
          /\ ses' = ses \/ ses' = [ses EXCEPT !.playing = FALSE]
          /\ play_state' = "PAUSE" /\ pcm' = pcm
      BY <2>2 DEF sess_stop, Handled, thread_pause
    <3> QED BY <2>2, <3>1
        DEF SessionInv, SessionTypes, ThreadInv, PcmTypeOK, Ses, Mains
  <2>3. ASSUME main = "select", NEW a, sess_pause(a) PROVE SessionInv'
    <3>1. main' = "deliver" /\ UNCHANGED <<thread, after>>
      BY <2>3 DEF sess_pause, Handled
    <3>2. CASE UNCHANGED <<ses, pcmVars>>
      BY <3>1, <3>2, MainMoves DEF Mains
    <3>3. CASE ~UNCHANGED <<ses, pcmVars>>
      <4>1. ses.playing
        BY <2>3, <3>3 DEF sess_pause
      <4>2. ses.playing = TRUE
        BY <4>1, Zenon DEF SessionInv, SessionTypes, Ses
      <4>3. ses' = [ses EXCEPT !.paused = ~@] /\ (thread_play \/ thread_pause)
        BY <2>3, <3>3 DEF sess_pause
      <4>4. ses' \in Ses /\ ses'.state = ses.state /\ ses'.dsfy = ses.dsfy
        BY <4>3 DEF SessionInv, SessionTypes, Ses
      <4>5. ses.state = "ONLINE" /\ ses.dsfy = "live"
        BY <4>2 DEF SessionInv, ThreadInv
      <4>6. /\ PcmTypeOK' /\ pcm' \in {pcm, "switch"}
            /\ pcm = "ended" => pcm' = "ended"
            /\ thread = "0" => pcm' = "none"
        BY <4>3, <4>5 DEF SessionInv, SessionTypes, ThreadInv, PcmTypeOK, PcmStates,
                     thread_play, thread_pause, Signalled
      <4> QED BY <2>3, <3>1, <4>4, <4>5, <4>6
          DEF SessionInv, SessionTypes, ThreadInv, Mains
    <3> QED BY <3>2, <3>3
  <2>4. ASSUME main = "select", sess_play PROVE SessionInv'
    <3>1. main' = "deliver" /\ UNCHANGED <<thread, after>>
      BY <2>4 DEF sess_play, Handled
    <3>2. CASE UNCHANGED <<ses, pcmVars>>
      BY <3>1, <3>2, MainMoves DEF Mains
    <3>3. CASE ses.state = "ONLINE" /\ ses' = [ses EXCEPT !.playing = TRUE, !.paused = FALSE]
               /\ thread_play
      <4>1. ses' \in Ses /\ ses'.state = "ONLINE" /\ ses'.dsfy = "live"
        BY <3>3 DEF SessionInv, SessionTypes, ThreadInv, Ses
      <4>2. /\ PcmTypeOK' /\ pcm' \in {pcm, "switch"}
            /\ pcm = "ended" => pcm' = "ended"
            /\ pcm = "none" => pcm' = "none"
        BY <3>3 DEF SessionInv, SessionTypes, PcmTypeOK, PcmStates, thread_play, Signalled
      <4> QED BY <2>4, <3>1, <4>1, <4>2 DEF SessionInv, SessionTypes, ThreadInv, Mains
    <3> QED BY <2>4, <3>2, <3>3 DEF sess_play
  <2>5. ASSUME main = "select", NEW a, NEW to \in {"disconnected", "connect"},
               sess_disconnect(a, to)
        PROVE  SessionInv'
    BY <2>5, DisconnectKeepsSession
  <2> QED BY <1>1, <2>1, <2>2, <2>3, <2>4, <2>5, KeysOnSession DEF KeyOnSession
<1>2. CASE JoinThread
  <2>1. /\ main' = "disconnect" /\ main = "join" /\ thread' = "joined" /\ pcm = "ended"
        /\ UNCHANGED <<ses, after, pcmVars>>
    BY <1>2 DEF JoinThread, pthread_join, uiVars, SessionInv, ThreadInv
  <2> QED BY <2>1 DEF SessionInv, SessionTypes, ThreadInv, PcmTypeOK, pcmVars, Mains
<1>3. CASE Disconnect
  <2>1. main = "disconnect" /\ main' = after /\ UNCHANGED <<thread, after>>
    BY <1>3 DEF Disconnect
  <2>2. after \in {"disconnected", "connect", "free"} /\ pcm \in {"none", "ended"}
    BY <2>1 DEF SessionInv, SessionTypes, ThreadInv
  <2>3. CASE ses.state = "ONLINE"
    <3>1. /\ ses' = [ses EXCEPT !.state = "OFFLINE", !.dsfy = "freed", !.playing = FALSE]
          /\ play_state' = "PAUSE" /\ pcm' = pcm
      BY <1>3, <2>3 DEF Disconnect, thread_pause
    <3>2. ses' \in Ses /\ ses'.state = "OFFLINE" /\ ses'.playing = FALSE
      BY <3>1 DEF SessionInv, SessionTypes, Ses, States
    <3>3. ThreadInv'
      BY <2>1, <2>2, <3>1, <3>2 DEF SessionInv, ThreadInv
    <3> QED BY <2>1, <2>2, <3>1, <3>2, <3>3 DEF SessionInv, SessionTypes, PcmTypeOK, Mains
  <2>4. CASE ses.state # "ONLINE"
    <3>1. ses' = [ses EXCEPT !.state = "OFFLINE"] /\ UNCHANGED pcmVars
      BY <1>3, <2>4 DEF Disconnect
    <3>2. /\ ses' \in Ses /\ ses'.state = "OFFLINE" /\ ses'.dsfy = ses.dsfy
          /\ ses'.playing = ses.playing
      BY <3>1 DEF SessionInv, SessionTypes, Ses, States
    <3>3. ThreadInv'
      BY <2>1, <2>2, <2>4, <3>1, <3>2 DEF SessionInv, ThreadInv, pcmVars
    <3> QED BY <2>1, <2>2, <3>1, <3>2, <3>3
        DEF SessionInv, SessionTypes, PcmTypeOK, pcmVars, Mains
  <2> QED BY <2>3, <2>4
<1>4. CASE ConnectCreate
  <2>1. main = "connect" /\ UNCHANGED after
    BY <1>4 DEF ConnectCreate, uiVars
  <2>2. CASE main' = "exit" /\ UNCHANGED <<ses, thread, pcmVars>>
    BY <2>1, <2>2, MainMoves DEF Mains
  <2>3. CASE ses' = [ses EXCEPT !.dsfy = "live"] /\ thread_init /\ thread' = "running"
             /\ main' = "authenticate"
    <3>1. ses' \in Ses /\ ses'.state = ses.state /\ ses'.playing = ses.playing
          /\ ses'.dsfy = "live"
      BY <2>3 DEF SessionInv, SessionTypes, Ses, States
    <3> QED BY <2>1, <2>3, <3>1
        DEF SessionInv, SessionTypes, ThreadInv, PcmTypeOK, PcmStates, thread_init, Mains
  <2> QED BY <1>4, <2>2, <2>3 DEF ConnectCreate
<1>5. CASE ConnectAuthenticate
  <2>1. /\ main = "authenticate" /\ main' = "deliver" /\ UNCHANGED <<thread, after, pcmVars>>
        /\ \/ ses' = [ses EXCEPT !.state = "ONLINE"]
           \/ ses' = [ses EXCEPT !.state = "ERROR", !.dsfy = "freed"]
    BY <1>5 DEF ConnectAuthenticate, ConnectRefused
  <2>2. /\ ses' \in Ses /\ ses'.playing = ses.playing
        /\ ses'.state = "ONLINE" => ses'.dsfy = "live"
    BY <2>1 DEF SessionInv, SessionTypes, ThreadInv, Ses, States
  <2> QED BY <2>1, <2>2 DEF SessionInv, SessionTypes, ThreadInv, PcmTypeOK, pcmVars, Mains
<1>6. CASE Disconnected \/ SelectTimeout \/ DeliverEnds
  BY <1>6, MainMoves DEF Disconnected, SelectTimeout, DeliverEnds, uiVars, Mains
<1>7. CASE Deliver_quit \/ Deliver_update \/ footer_draw
  BY <1>7, MainMoves DEF Deliver_quit, Deliver_update, footer_draw, Mains
<1>8. CASE Clear \/ FreeSearches
  BY <1>8, MainMoves DEF Clear, FreeSearches, Mains
<1>9. CASE sess_cleanup
  BY <1>9, DisconnectKeepsSession DEF sess_cleanup
<1>10. CASE sig_int \/ sig_winch
  BY <1>10, MainMoves DEF sig_int, sig_winch, Signal
<1>11. CASE Pcm
  <2>1. UNCHANGED <<ses, thread, main, after>>
    BY <1>11
    DEF Pcm, thread_loop_logs, thread_loop, NEW_TRACK, TIME_TELL, uiVars, PcmDraw,
        footer_update_track, pcm_ui_update, footer_draw_input, footer_draw_state, footer_draw_print, InCallback, Returns
  <2>2. /\ PcmTypeOK'
        /\ play_state' = "PLAY" \/ pcm' \in {"get_pcm", "callback"} =>
              play_state = "PLAY" \/ pcm \in {"get_pcm", "callback"}
        /\ pcm \notin {"none", "ended"}
    BY <1>11
    DEF Pcm, thread_loop_logs, thread_loop, NEW_TRACK, TIME_TELL, LoopStart, LoopWait,
        LoopSwitch, LoopPlay, LoopCallback, SessionInv, SessionTypes, PcmTypeOK, PcmStates, pcmVars,
        PcmDraw, footer_update_track,
        pcm_ui_update, footer_draw_input, footer_draw_state, footer_draw_print, InCallback, Returns
  <2> QED BY <2>1, <2>2 DEF SessionInv, SessionTypes, ThreadInv
<1>12. CASE UNCHANGED vars
  BY <1>12, MainMoves DEF vars, pcmVars
<1> QED
  BY <1>1, <1>2, <1>3, <1>4, <1>5, <1>6, <1>7, <1>8, <1>9, <1>10, <1>11, <1>12 DEF Next, Loop

-----------------------------------------------------------------------------
(* The focus.  Until the client closes, it is where Focused says; and while    *)
(* the main thread disconnects or connects nothing is asked for, so that the   *)
(* set shown at the end of it may take the focus.                              *)

Closing ==
    \/ main \in {"free", "exit"}
    \/ main \in {"join", "disconnect"} /\ after = "free"

Reconnecting == main \in {"join", "disconnect", "disconnected", "connect", "authenticate"}

BrowserIsOnline(a) == a.shown = "BROWSER" => ses.state = "ONLINE"

FocusInv ==
    /\ app \in App
    /\ BrowserIsOnline(app)
    /\ ~Closing => Focused(app) /\ (Reconnecting => app.input = "NONE")

(* A handler may leave the user interface so: it has no business with what the *)
(* PCM thread draws.                                                           *)
Good(a) == a \in App /\ Focused(a) /\ BrowserIsOnline(a) /\ a.foot = app.foot

LEMMA GoodSame ==
    ASSUME NEW a, NEW b \in App, Good(a), Same(a, b), b.foot = a.foot
    PROVE  Good(b)
BY SameFocused DEF Good, BrowserIsOnline, Same

LEMMA GoodLog == ASSUME NEW a, Good(a) PROVE Good(log_append(a))
<1>1. log_append(a) \in App /\ Same(a, log_append(a)) /\ log_append(a).foot = a.foot
  BY LogKeeps DEF Good
<1> QED BY <1>1, GoodSame

LEMMA GoodPost == ASSUME NEW a, Good(a), NEW m \in Messages PROVE Good(event_msg_post(a, m))
<1>1. /\ event_msg_post(a, m) \in App /\ Same(a, event_msg_post(a, m))
      /\ event_msg_post(a, m).foot = a.foot
  BY PostKeeps DEF Good
<1> QED BY <1>1, GoodSame

LEMMA GoodDirty == ASSUME NEW a, Good(a) PROVE Good(ui_dirty(a))
<1>1. ui_dirty(a) \in App /\ Same(a, ui_dirty(a)) /\ ui_dirty(a).foot = a.foot
  BY DirtyKeeps DEF Good
<1> QED BY <1>1, GoodSame

LEMMA GoodInput ==
    ASSUME NEW a, Good(a), a.input = "NONE", NEW type \in Inputs \ {"NONE"}
    PROVE  Good(footer_input(a, type))
BY InputResult DEF Good, BrowserIsOnline

LEMMA GoodShow ==
    ASSUME NEW a, Good(a), a.input = "NONE", NEW show \in Sets
    PROVE  Good(ui_show(a, ses.state, show))
BY ShowResult DEF Good, BrowserIsOnline

LEMMA GoodFocus ==
    ASSUME NEW a, Good(a), a.input = "NONE", NEW e \in Elements \ {"FOOTER"}
    PROVE  Good(ui_focus(a, e))
<1>1. CASE Visible(a, e)
  <2>1. LET b == ui_focus(a, e)
        IN  /\ b \in App /\ b.shown = a.shown /\ b.input = "NONE" /\ b.foot = a.foot
            /\ b.focus = e /\ e \in b.flagged
    BY <1>1, FocusResult DEF Good
  <2> QED BY <1>1, <2>1 DEF Good, BrowserIsOnline, Focused, Visible
<1>2. CASE ~Visible(a, e)
  BY <1>2, FocusResult DEF Good
<1> QED BY <1>1, <1>2

(* A key leaves the user interface good, and a disconnect only when nothing is *)
(* asked for.                                                                  *)
KeyKeepsFocus ==
    /\ ses'.state = ses.state
    /\ Good(app')
    /\ \/ main' \in {"deliver", "select"}
       \/ main' \in {"join", "disconnect"} /\ app'.input = "NONE"

LEMMA ShowsKeepsFocus ==
    ASSUME NEW a, Good(a), Shows(a)
    PROVE  KeyKeepsFocus
BY DEF Shows, Handled, KeyKeepsFocus

LEMMA SessionKeepsFocus ==
    ASSUME SessionInv, NEW a, Good(a),
           sess_stop(a) \/ sess_pause(a) \/ (a = app /\ sess_play)
    PROVE  KeyKeepsFocus
<1>1. main' = "deliver" /\ app' \in {a, log_append(a)}
  BY DEF sess_stop, sess_pause, sess_play, Handled
<1>2. ses'.state = ses.state
  BY DEF sess_stop, sess_pause, sess_play, SessionInv, SessionTypes, Ses
<1> QED BY <1>1, <1>2, GoodLog DEF KeyKeepsFocus

LEMMA TracklistKeepsFocus ==
    ASSUME main = "select", NEW a, Good(a), Good(app), a.input = "NONE", NEW l, NEW p,
           NEW focus \in BOOLEAN, tracklist_set(a, l, p, focus)
    PROVE  KeyKeepsFocus
<1> DEFINE b == IF focus THEN ui_focus(a, "TRACKLIST") ELSE a
<1>1. Good(b)
  BY GoodFocus DEF Elements
<1> HIDE DEF b
<1>2. Good(event_msg_post(b, "UPDATE"))
  BY <1>1, GoodPost DEF Messages
<1>3. /\ ses' = ses
      /\ \/ app' = app /\ main' = "select"
         \/ app' = event_msg_post(b, "UPDATE") /\ main' = "deliver"
  BY DEF tracklist_set, b
<1> QED BY <1>2, <1>3 DEF KeyKeepsFocus

LEMMA CommandKeepsFocus ==
    ASSUME SessionInv, NEW a, Good(a), a.input = "NONE", Bound(a) \/ command_process(a)
    PROVE  KeyKeepsFocus
<1>1. \A type \in {"USERNAME", "SEARCH"} : Good(footer_input(a, type))
  BY GoodInput DEF Inputs
<1>2. \A show \in {"LOG", "HELP", "BROWSER"} : Good(ui_show(a, ses.state, show))
  BY GoodShow DEF Sets
<1>3. \A m \in {"REDRAW", "QUIT"} : Good(event_msg_post(a, m))
  BY GoodPost DEF Messages
<1>4. ASSUME sess_disconnect(a, "disconnected") PROVE KeyKeepsFocus
  BY <1>4 DEF sess_disconnect, KeyKeepsFocus
<1>5. ASSUME Bound(a) PROVE KeyKeepsFocus
  BY <1>1, <1>2, <1>4, <1>5, ShowsKeepsFocus, SessionKeepsFocus
  DEF Bound, cmd_cb_connect, cmd_cb_disconnect, cmd_cb_search, cmd_cb_stop, cmd_cb_pause,
      cmd_cb_log, cmd_cb_help
<1>6. ASSUME command_process(a), ~Bound(a) PROVE KeyKeepsFocus
  BY <1>2, <1>3, <1>6, ShowsKeepsFocus, GoodLog
  DEF command_process, cmd_cb_main, cmd_cb_redraw, cmd_cb_quit
<1> QED BY <1>5, <1>6

LEMMA KeysKeepFocus ==
    ASSUME SessionInv, FocusInv, Keys
    PROVE  KeyKeepsFocus
<1>0. main = "select" /\ Good(app)
  BY DEF Keys, ui_keypress_special, ui_keypress_bound, footer_edit, footer_cancel, footer_enter,
         log_keypress, sidebar_keypress, tracklist_left, tracklist_play, tracklist_keypress,
         InTracklist, Pressed, FocusInv, Closing, Good
<1>1. CASE ui_keypress_special
  <2>1. \A m \in {"REDRAW", "QUIT"} : Good(event_msg_post(app, m))
    BY <1>0, GoodPost DEF Messages
  <2> QED BY <1>1, <2>1, ShowsKeepsFocus DEF ui_keypress_special, cmd_cb_quit, cmd_cb_redraw
<1>2. CASE ui_keypress_bound
  <2>1. app.input = "NONE"
    BY <1>0, <1>2 DEF ui_keypress_bound, Typing, Good, Focused
  <2>2. Good(footer_input(app, "COMMAND"))
    BY <1>0, <2>1, GoodInput DEF Inputs
  <2> QED BY <1>0, <1>2, <2>1, <2>2, ShowsKeepsFocus, CommandKeepsFocus DEF ui_keypress_bound
<1>3. CASE footer_edit
  <2>1. Good(event_msg_post(ui_dirty(app), "UPDATE"))
    BY <1>0, GoodDirty, GoodPost DEF Messages
  <2> QED BY <1>0, <1>3, <2>1, ShowsKeepsFocus DEF footer_edit
<1>4. CASE footer_cancel \/ footer_enter
  <2> DEFINE a == footer_input_end(app)
  <2>1. Good(a) /\ a.input = "NONE"
    BY <1>0, <1>4, InputEndResult DEF footer_cancel, footer_enter, Typing, Good, BrowserIsOnline
  <2>2. \/ Shows(a)
        \/ command_process(a)
        \/ sess_search(a)
        \/ Shows(footer_input(a, "PASSWORD"))
        \/ sess_disconnect(a, "connect")
    BY <1>4 DEF footer_cancel, footer_enter
  <2> HIDE DEF a
  <2>3. Good(footer_input(a, "PASSWORD"))
    BY <2>1, GoodInput DEF Inputs
  <2>4. CASE sess_search(a)
    <3>1. Good(log_append(a)) /\ log_append(a).input = "NONE"
      BY <2>1, GoodLog, LogKeeps DEF Good, Same
    <3> QED BY <1>0, <2>4, <3>1, ShowsKeepsFocus, TracklistKeepsFocus DEF sess_search
  <2>5. CASE sess_disconnect(a, "connect")
    BY <2>1, <2>5 DEF sess_disconnect, KeyKeepsFocus
  <2> QED BY <2>1, <2>2, <2>3, <2>4, <2>5, ShowsKeepsFocus, CommandKeepsFocus
<1>5. CASE log_keypress
  <2>1. app.input = "NONE"
    BY <1>0, <1>5 DEF log_keypress, Good, Focused
  <2>2. Good(ui_show(app, ses.state, "BROWSER"))
    BY <1>0, <2>1, GoodShow DEF Sets
  <2> QED BY <1>5, <2>2, ShowsKeepsFocus DEF log_keypress
<1>6. CASE sidebar_keypress
  <2>1. app.input = "NONE"
    BY <1>0, <1>6 DEF sidebar_keypress, Good, Focused
  <2> QED BY <1>0, <1>6, <2>1, TracklistKeepsFocus DEF sidebar_keypress
<1>7. CASE tracklist_left
  <2>1. app.input = "NONE"
    BY <1>0, <1>7 DEF tracklist_left, Good, Focused
  <2>2. Good(ui_focus(app, "SIDEBAR"))
    BY <1>0, <2>1, GoodFocus DEF Elements
  <2> QED BY <1>7, <2>2, ShowsKeepsFocus DEF tracklist_left
<1>8. CASE tracklist_play
  BY <1>0, <1>8, SessionKeepsFocus DEF tracklist_play
<1>9. CASE tracklist_keypress
  <2>1. Good(event_msg_post(app, "UPDATE"))
    BY <1>0, GoodPost DEF Messages
  <2> QED BY <1>9, <2>1 DEF tracklist_keypress, Handled, KeyKeepsFocus
<1> QED BY <1>1, <1>2, <1>3, <1>4, <1>5, <1>6, <1>7, <1>8, <1>9 DEF Keys

(* A step that leaves the focus alone. *)
LEMMA FocusUntouched ==
    ASSUME FocusInv, app' \in App, Same(app, app'), ses'.state = ses.state,
           Closing => Closing', Reconnecting' => Reconnecting \/ Closing'
    PROVE  FocusInv'
<1>1. Focused(app) => Focused(app')
  BY SameFocused
<1>2. BrowserIsOnline(app)'
  BY DEF FocusInv, BrowserIsOnline, Same
<1> QED BY <1>1, <1>2 DEF FocusInv, Same

LEMMA SameItself == app' = app => Same(app, app')
BY DEF Same

(* The result of a login or of a disconnect is shown. *)
LEMMA ResultShown ==
    ASSUME app \in App, NEW state, NEW show \in Sets
    PROVE  LET b == ui_dirty(ui_show(log_append(app), state, show))
           IN  /\ b \in App
               /\ b.input = app.input /\ b.foot = app.foot
               /\ b.shown \in {show, "SPLASH"}
               /\ app.input = "NONE" => Focused(b)
<1> DEFINE c == ui_show(log_append(app), state, show)
<1>1. /\ log_append(app) \in App /\ log_append(app).input = app.input
      /\ log_append(app).foot = app.foot
  BY LogKeeps DEF Same
<1>2. c \in App /\ c.input = app.input /\ c.foot = app.foot /\ c.shown \in {show, "SPLASH"}
      /\ (app.input = "NONE" => Focused(c))
  BY <1>1, ShowResult
<1> HIDE DEF c
<1>3. ui_dirty(c) \in App /\ Same(c, ui_dirty(c)) /\ ui_dirty(c).foot = c.foot
  BY <1>2, DirtyKeeps
<1>4. app.input = "NONE" => Focused(ui_dirty(c))
  BY <1>2, <1>3, SameFocused
<1> QED BY <1>2, <1>3, <1>4 DEF Same, c

(* The PCM thread changes no more than the footer and the messages. *)
LEMMA PcmKeepsFocus ==
    ASSUME app \in App, ses.state \in States, Pcm
    PROVE  app' \in App /\ Same(app, app')
<1> DEFINE Draws(at, text) == app' = [app EXCEPT !.foot = [at |-> at, text |-> text]]
<1>1. ASSUME NEW at \in {"none", "dirty", "update", "input", "state", "print"},
             NEW text \in States \union Inputs, Draws(at, text)
      PROVE  app' \in App /\ Same(app, app')
  BY <1>1 DEF App, Same
<1>2. "OFFLINE" \in States \union Inputs /\ app.input \in States \union Inputs
      /\ ses.state \in States \union Inputs
  BY DEF States, App
<1>3. CASE thread_loop_logs
  BY <1>3, LogKeeps DEF thread_loop_logs
<1>4. CASE thread_loop
  BY <1>4, SameItself DEF thread_loop, uiVars
<1>5. CASE NEW_TRACK \/ TIME_TELL
  <2>1. app' = app \/ Draws("dirty", "OFFLINE")
    BY <1>5 DEF NEW_TRACK, TIME_TELL, Foot
  <2> HIDE DEF Draws
  <2> QED BY <1>1, <1>2, <2>1, SameItself
<1>6. CASE footer_update_track
  <2>1. ui_dirty(app) \in App /\ Same(app, ui_dirty(app))
    BY DirtyKeeps
  <2> QED BY <1>6, <2>1 DEF footer_update_track, App, Same
<1>7. CASE pcm_ui_update
  <2>1. ui_update(app) \in App /\ Same(app, ui_update(app))
    BY UpdateKeeps
  <2>2. CASE app' = [ui_update(app) EXCEPT !.foot.at = "input"]
    BY <2>1, <2>2 DEF App, Same
  <2>3. CASE app' = [app EXCEPT !.foot = NoDraw]
    <3>1. Draws("none", "OFFLINE")
      BY <2>3 DEF NoDraw
    <3> HIDE DEF Draws
    <3> QED BY <1>1, <1>2, <3>1
  <2> QED BY <1>7, <2>2, <2>3 DEF pcm_ui_update
<1>8. CASE footer_draw_input \/ footer_draw_state
  <2>1. Draws("state", "OFFLINE") \/ Draws("print", app.input) \/ Draws("print", ses.state)
    BY <1>8 DEF footer_draw_input, footer_draw_state, Foot
  <2> HIDE DEF Draws
  <2> QED BY <1>1, <1>2, <2>1
<1>9. CASE footer_draw_print
  <2>1. app' = [app EXCEPT !.drawn = app.foot.text, !.foot = [at |-> "none", text |-> "OFFLINE"]]
    BY <1>9 DEF footer_draw_print, NoDraw
  <2> QED BY <1>2, <2>1 DEF App, Same
<1> QED BY <1>3, <1>4, <1>5, <1>6, <1>7, <1>8, <1>9 DEF Pcm, PcmDraw

LEMMA FocusStep == SessionInv /\ FocusInv /\ [Next]_vars => FocusInv'
<1> SUFFICES ASSUME SessionInv, FocusInv, [Next]_vars PROVE FocusInv'
  OBVIOUS
<1>0. app \in App /\ ses.state \in States
  BY DEF FocusInv, SessionInv, SessionTypes, Ses
<1>1. CASE Keys
  <2>1. KeyKeepsFocus
    BY <1>1, KeysKeepFocus
  <2> QED BY <2>1 DEF KeyKeepsFocus, Good, FocusInv, BrowserIsOnline, Closing, Reconnecting
<1>2. CASE JoinThread
  BY <1>0, <1>2, FocusUntouched, SameItself DEF JoinThread, uiVars, Closing, Reconnecting
<1>3. CASE Disconnect
  <2>1. main = "disconnect" /\ main' = after /\ after' = after
        /\ after \in {"disconnected", "connect", "free"}
    BY <1>3 DEF Disconnect, SessionInv, SessionTypes
  <2>2. Closing <=> Closing'
    BY <2>1 DEF Closing
  <2>3. CASE ses.state = "ONLINE"
    <3>1. app' = ui_dirty(ui_show(log_append(app), "ONLINE", "SPLASH"))
      BY <1>3, <2>3 DEF Disconnect
    <3>2. /\ app' \in App /\ app'.shown = "SPLASH" /\ app'.input = app.input
          /\ app.input = "NONE" => Focused(app')
      BY <1>0, <3>1, ResultShown DEF Sets
    <3> QED BY <2>1, <2>2, <3>2 DEF FocusInv, BrowserIsOnline, Reconnecting
  <2>4. CASE ses.state # "ONLINE"
    <3>1. app' = ui_dirty(app)
      BY <1>3, <2>4 DEF Disconnect
    <3>2. app' \in App /\ Same(app, app')
      BY <1>0, <3>1, DirtyKeeps
    <3>3. Focused(app) => Focused(app')
      BY <3>2, SameFocused
    <3> QED BY <2>1, <2>2, <2>4, <3>2, <3>3 DEF FocusInv, BrowserIsOnline, Reconnecting, Same
  <2> QED BY <2>3, <2>4
<1>4. CASE ConnectCreate
  <2>1. ses'.state = ses.state
    BY <1>4 DEF ConnectCreate, SessionInv, SessionTypes, Ses
  <2> QED BY <1>0, <1>4, <2>1, FocusUntouched, SameItself
      DEF ConnectCreate, uiVars, Closing, Reconnecting
<1>5. CASE ConnectAuthenticate
  <2>1. main = "authenticate" /\ main' = "deliver" /\ app.input = "NONE"
    BY <1>5 DEF ConnectAuthenticate, FocusInv, Closing, Reconnecting
  <2>2. CASE /\ ses' = [ses EXCEPT !.state = "ONLINE"]
             /\ app' = ui_dirty(ui_show(log_append(app), "ONLINE", "BROWSER"))
    <3>1. app' \in App /\ Focused(app')
      BY <1>0, <2>1, <2>2, ResultShown DEF Sets
    <3>2. ses'.state = "ONLINE"
      BY <2>2 DEF SessionInv, SessionTypes, Ses
    <3> QED BY <2>1, <3>1, <3>2 DEF FocusInv, BrowserIsOnline, Reconnecting
  <2>3. CASE ConnectRefused
    <3>1. app' \in App /\ Focused(app') /\ app'.shown \in {"LOG", "SPLASH"}
      BY <1>0, <2>1, <2>3, ResultShown DEF ConnectRefused, Sets
    <3> QED BY <2>1, <3>1 DEF FocusInv, BrowserIsOnline, Reconnecting
  <2> QED BY <1>5, <2>2, <2>3 DEF ConnectAuthenticate
<1>6. CASE Disconnected \/ SelectTimeout \/ DeliverEnds
  BY <1>0, <1>6, FocusUntouched, SameItself
  DEF Disconnected, SelectTimeout, DeliverEnds, uiVars, Closing, Reconnecting
<1>7. CASE Deliver_quit \/ Clear
  <2>1. ASSUME Deliver_quit PROVE app' \in App /\ Same(app, app')
    BY <1>0, <2>1 DEF Deliver_quit, App, Same
  <2>2. ASSUME Clear PROVE app' \in App /\ Same(app, app')
    BY <1>0, <2>2 DEF Clear, App, Same
  <2>3. app' \in App /\ Same(app, app')
    BY <1>7, <2>1, <2>2
  <2> QED BY <1>7, <2>3, FocusUntouched DEF Deliver_quit, Clear, Closing, Reconnecting
<1>8. CASE Deliver_update \/ footer_draw
  <2>1. ASSUME Deliver_update PROVE app' \in App /\ Same(app, app')
    <3>1. PICK m \in {"UPDATE", "REDRAW"} : app' = [ui_update(app) EXCEPT !.msgs = @ \ {m}]
      BY <2>1 DEF Deliver_update
    <3>2. ui_update(app) \in App /\ Same(app, ui_update(app))
      BY <1>0, UpdateKeeps
    <3> QED BY <3>1, <3>2 DEF App, Same
  <2>2. ASSUME footer_draw PROVE app' \in App /\ Same(app, app')
    <3>1. footer_text(app.input) \in States \union Inputs
      BY <1>0 DEF footer_text, App
    <3> QED BY <1>0, <2>2, <3>1 DEF footer_draw, App, Same
  <2>3. app' \in App /\ Same(app, app')
    BY <1>8, <2>1, <2>2
  <2> QED BY <1>8, <2>3, FocusUntouched DEF Deliver_update, footer_draw, Closing, Reconnecting
<1>9. CASE sess_cleanup
  BY <1>0, <1>9, FocusUntouched, SameItself
  DEF sess_cleanup, sess_disconnect, Closing, Reconnecting
<1>10. CASE FreeSearches
  BY <1>0, <1>10, FocusUntouched, SameItself DEF FreeSearches, Closing, Reconnecting
<1>11. CASE sig_int \/ sig_winch
  <2>1. app' \in App /\ Same(app, app')
    BY <1>0, <1>11, PostKeeps DEF sig_int, sig_winch, Signal, Messages
  <2> QED BY <1>11, <2>1, FocusUntouched DEF sig_int, sig_winch, Signal, Closing, Reconnecting
<1>12. CASE Pcm
  <2>1. UNCHANGED <<ses, main, after>>
    BY <1>12
    DEF Pcm, thread_loop_logs, thread_loop, NEW_TRACK, TIME_TELL, uiVars, PcmDraw,
        footer_update_track,
       pcm_ui_update, footer_draw_input, footer_draw_state, footer_draw_print, InCallback, Returns
  <2>2. app' \in App /\ Same(app, app')
    BY <1>0, <1>12, PcmKeepsFocus
  <2> QED BY <2>1, <2>2, FocusUntouched DEF Closing, Reconnecting
<1>13. CASE UNCHANGED vars
  BY <1>0, <1>13, FocusUntouched, SameItself DEF vars, Closing, Reconnecting
<1> QED
  BY <1>1, <1>2, <1>3, <1>4, <1>5, <1>6, <1>7, <1>8, <1>9, <1>10, <1>11, <1>12, <1>13
  DEF Next, Loop

-----------------------------------------------------------------------------
(* The PCM thread draws in its callback, and is not taken out of it. *)

FootInv == app.foot.at # "none" => pcm = "callback"

LEMMA KeysKeepFoot ==
    ASSUME SessionInv, FocusInv, Keys
    PROVE  app'.foot = app.foot /\ (pcm = "callback" => pcm' = "callback")
<1>1. app'.foot = app.foot
  BY KeysKeepFocus DEF KeyKeepsFocus, Good
<1>2. ASSUME pcm = "callback" PROVE pcm' = "callback"
  BY <1>2, KeysOnSession
  DEF KeyOnSession, KeyKeepsSession, sess_stop, sess_pause, sess_play, sess_disconnect,
      thread_pause, thread_play, thread_exit, Signalled, pcmVars
<1> QED BY <1>1, <1>2

LEMMA LoopKeepsFoot ==
    ASSUME SessionInv, FocusInv, Loop \/ sig_int \/ sig_winch
    PROVE  app'.foot = app.foot /\ (pcm = "callback" => pcm' = "callback")
<1>0. app \in App
  BY DEF FocusInv
<1>1. CASE JoinThread \/ Disconnected \/ SelectTimeout \/ DeliverEnds \/ FreeSearches
  BY <1>1 DEF JoinThread, Disconnected, SelectTimeout, DeliverEnds, FreeSearches, uiVars, pcmVars
<1>2. CASE Disconnect
  <2>1. ui_dirty(ui_show(log_append(app), "ONLINE", "SPLASH")).foot = app.foot
        /\ ui_dirty(app).foot = app.foot
    BY <1>0, ResultShown, DirtyKeeps DEF Sets
  <2> QED BY <1>2, <2>1 DEF Disconnect, thread_pause, pcmVars
<1>3. CASE ConnectCreate
  BY <1>3 DEF ConnectCreate, uiVars, pcmVars, SessionInv, ThreadInv
<1>4. CASE ConnectAuthenticate
  <2>1. \A state, show : show \in {"LOG", "BROWSER"} =>
          ui_dirty(ui_show(log_append(app), state, show)).foot = app.foot
    BY <1>0, ResultShown DEF Sets
  <2> QED BY <1>4, <2>1 DEF ConnectAuthenticate, ConnectRefused, pcmVars
<1>5. CASE Deliver_quit \/ footer_draw \/ Clear
  BY <1>0, <1>5 DEF Deliver_quit, footer_draw, Clear, App, pcmVars
<1>6. CASE Deliver_update
  <2>1. PICK m \in {"UPDATE", "REDRAW"} : app' = [ui_update(app) EXCEPT !.msgs = @ \ {m}]
    BY <1>6 DEF Deliver_update
  <2>2. ui_update(app) \in App /\ ui_update(app).foot = app.foot
    BY <1>0, UpdateKeeps
  <2>3. app'.foot = app.foot
    BY <2>1, <2>2 DEF App
  <2> QED BY <1>6, <2>3 DEF Deliver_update, pcmVars
<1>7. CASE sess_cleanup
  BY <1>7 DEF sess_cleanup, sess_disconnect, thread_exit, Signalled, pcmVars
<1>8. CASE sig_int \/ sig_winch
  <2>1. \A m \in Messages : event_msg_post(app, m).foot = app.foot
    BY <1>0, PostKeeps
  <2> QED BY <1>8, <2>1 DEF sig_int, sig_winch, Signal, Messages, pcmVars
<1> QED BY <1>1, <1>2, <1>3, <1>4, <1>5, <1>6, <1>7, <1>8 DEF Loop

LEMMA FootStep == SessionInv /\ FocusInv /\ FootInv /\ [Next]_vars => FootInv'
<1> SUFFICES ASSUME SessionInv, FocusInv, FootInv, [Next]_vars PROVE FootInv'
  OBVIOUS
<1>0. app \in App
  BY DEF FocusInv
<1>1. CASE Keys
  BY <1>1, KeysKeepFoot DEF FootInv
<1>2. CASE Loop \/ sig_int \/ sig_winch
  BY <1>2, LoopKeepsFoot DEF FootInv
<1>3. CASE thread_loop_logs
  <2>1. app'.foot = app.foot
    BY <1>0, <1>3, LogKeeps DEF thread_loop_logs
  <2>2. pcm # "callback"
    BY <1>3 DEF thread_loop_logs, LoopWait, LoopSwitch, LoopPlay
  <2> QED BY <2>1, <2>2 DEF FootInv
<1>4. CASE thread_loop
  BY <1>4 DEF thread_loop, uiVars, FootInv
<1>5. CASE NEW_TRACK \/ TIME_TELL
  BY <1>0, <1>5 DEF NEW_TRACK, TIME_TELL, InCallback, Returns, pcmVars, FootInv
<1>6. CASE footer_update_track \/ footer_draw_input \/ footer_draw_state
  BY <1>6
  DEF footer_update_track, footer_draw_input, footer_draw_state, InCallback, pcmVars, FootInv
<1>7. CASE pcm_ui_update
  <2>1. pcm' = "callback" \/ app' = [app EXCEPT !.foot = NoDraw]
    BY <1>7 DEF pcm_ui_update, InCallback, pcmVars
  <2> QED BY <1>0, <2>1 DEF FootInv, NoDraw, App
<1>8. CASE footer_draw_print
  BY <1>0, <1>8 DEF footer_draw_print, NoDraw, FootInv, App
<1>9. CASE UNCHANGED vars
  BY <1>9 DEF vars, FootInv, pcmVars
<1> QED BY <1>1, <1>2, <1>3, <1>4, <1>5, <1>6, <1>7, <1>8, <1>9 DEF Next, Pcm, PcmDraw

-----------------------------------------------------------------------------
(* The cursors. *)

ListTypes(l) == l \in [search : Seq({0, MaxTracks}), pos : Nat, res : Nat, row : Nat]

(* Both cursors are in range as soon as there is a search, and nothing is      *)
(* followed that is not there.                                                 *)
CursorInv ==
    /\ ListTypes(list)
    /\ fault \in {"none", "joined"}
    /\ main # "exit" /\ list.search = <<>> => list.res = 0
    /\ list.search # <<>> =>
          /\ list.pos < Len(list.search)
          /\ list.res \in 1 .. Len(list.search)
          /\ list.row < Max({list.search[list.res], 1})

(* tracklist_set with a cursor in range: the result that it shows is there. *)
LEMMA TracklistInRange ==
    ASSUME NEW a, NEW l, NEW p \in Nat, NEW focus, tracklist_set(a, l, p, focus),
           ListTypes(l), l.search # <<>>, p < Len(l.search),
           l.res \in 1 .. Len(l.search) => l.row < Max({l.search[l.res], 1}),
           fault \in {"none", "joined"}
    PROVE  CursorInv'
<1> DEFINE id == Len(l.search) - p
<1>1. l.search \in Seq({0, MaxTracks}) /\ Len(l.search) \in Nat
  BY DEF ListTypes
<1>2. id \in 1 .. Len(l.search) /\ id \in DOMAIN l.search
  BY <1>1
<1>3. /\ list' = [l EXCEPT !.res = id, !.row = IF l.res = id THEN @ ELSE 0, !.pos = p]
      /\ fault' = fault /\ main' = "deliver"
  BY <1>2 DEF tracklist_set
<1>4. ListTypes(list)'
  <2>1. (IF l.res = id THEN l.row ELSE 0) \in Nat /\ id \in Nat
    BY <1>2 DEF ListTypes
  <2> HIDE DEF id
  <2> QED BY <1>3, <2>1 DEF ListTypes
<1>5. list'.search = l.search /\ list'.res = id /\ list'.pos = p
      /\ list'.row = IF l.res = id THEN l.row ELSE 0
  BY <1>3 DEF ListTypes
<1>6. l.search[id] \in Nat
  BY <1>1, <1>2, BoundsAssumption
<1>7. list'.row < Max({l.search[id], 1})
  <2>1. CASE l.res = id
    BY <1>2, <1>5, <2>1
  <2>2. CASE l.res # id
    <3>1. Max({l.search[id], 1}) \in Int /\ Max({l.search[id], 1}) >= 1
      <4>1. l.search[id] \in Int /\ 1 \in Int
        BY <1>6
      <4> HIDE DEF id
      <4>2. Max({l.search[id], 1}) \in {l.search[id], 1} /\ Max({l.search[id], 1}) >= 1
        BY <4>1, MaxOfTwo
      <4> QED BY <4>1, <4>2
    <3> QED BY <1>5, <2>2, <3>1
  <2> QED BY <2>1, <2>2
<1> QED BY <1>2, <1>3, <1>4, <1>5, <1>7 DEF CursorInv

LEMMA ListUntouched ==
    ASSUME CursorInv, UNCHANGED list, fault' \in {fault, "joined"}, main = "exit" => main' = "exit"
    PROVE  CursorInv'
BY DEF CursorInv, ListTypes

LEMMA SearchKeepsCursor ==
    ASSUME CursorInv, main = "select", NEW a, sess_search(a)
    PROVE  CursorInv'
<1>1. CASE Shows(log_append(a))
  BY <1>1, ListUntouched DEF Shows, Handled
<1>2. ASSUME NEW n \in {0, MaxTracks}, Len(list.search) < MaxSearches,
             tracklist_set(log_append(a), [list EXCEPT !.search = Append(@, n)], 0, TRUE)
      PROVE  CursorInv'
  <2> DEFINE l == [list EXCEPT !.search = Append(@, n)]
  <2>1. list.search \in Seq({0, MaxTracks})
    BY DEF CursorInv, ListTypes
  <2>2. l.search = Append(list.search, n) /\ l.res = list.res /\ l.row = list.row
    BY DEF CursorInv, ListTypes
  <2>3. /\ l.search \in Seq({0, MaxTracks}) /\ Len(l.search) = Len(list.search) + 1
        /\ l.search # <<>>
        /\ \A i \in 1 .. Len(list.search) : l.search[i] = list.search[i]
        /\ l.search[Len(list.search) + 1] = n
    <3> HIDE DEF l
    <3>1. Append(list.search, n) # <<>>
      BY <2>1
    <3> QED BY <2>1, <2>2, <3>1, AppendProperties
  <2>4. ListTypes(l)
    BY <2>3 DEF CursorInv, ListTypes
  <2>5. list.search = <<>> \/ list.res \in 1 .. Len(list.search)
    BY DEF CursorInv
  <2>6. l.res \in 1 .. Len(l.search) => l.row < Max({l.search[l.res], 1})
    <3>1. CASE list.search = <<>>
      BY <2>2, <3>1 DEF CursorInv
    <3>2. CASE list.search # <<>>
      BY <2>2, <2>3, <3>2 DEF CursorInv
    <3> QED BY <3>1, <3>2
  <2>7. 0 < Len(l.search)
    BY <2>1, <2>3
  <2> HIDE DEF l
  <2>8. tracklist_set(log_append(a), l, 0, TRUE)
    BY <1>2 DEF l
  <2> QED BY <2>3, <2>4, <2>6, <2>7, <2>8, TracklistInRange DEF CursorInv
<1> QED BY <1>1, <1>2 DEF sess_search

LEMMA SidebarKeepsCursor == ASSUME CursorInv, sidebar_keypress PROVE CursorInv'
<1>1. /\ list.search # <<>> /\ list.search \in Seq({0, MaxTracks})
      /\ list.pos \in Nat /\ list.pos < Len(list.search) /\ Len(list.search) \in Nat
  BY DEF sidebar_keypress, CursorInv, ListTypes
<1>2. SidebarUp \in Nat /\ SidebarUp < Len(list.search)
  <2>1. list.pos - 1 \in Int /\ 0 \in Int
    BY <1>1
  <2>2. SidebarUp \in {list.pos - 1, 0} /\ SidebarUp >= 0
    BY <2>1, MaxOfTwo DEF SidebarUp
  <2> QED BY <1>1, <2>2
<1>3. SidebarDown \in Nat /\ SidebarDown < Len(list.search)
  <2>1. list.pos + 1 \in Int /\ Len(list.search) - 1 \in Int
    BY <1>1
  <2>2. SidebarDown \in {list.pos + 1, Len(list.search) - 1} /\ SidebarDown <= Len(list.search) - 1
    BY <2>1, MinOfTwo DEF SidebarDown
  <2> QED BY <1>1, <2>2
<1>4. PICK p \in {list.pos, SidebarUp, SidebarDown, 0, Len(list.search) - 1}, focus \in BOOLEAN :
          tracklist_set(app, list, p, focus)
  BY DEF sidebar_keypress
<1>5. p \in Nat /\ p < Len(list.search)
  BY <1>1, <1>2, <1>3, <1>4
<1> QED BY <1>1, <1>4, <1>5, TracklistInRange DEF CursorInv

LEMMA TrackKeepsCursor == ASSUME CursorInv, tracklist_keypress PROVE CursorInv'
<1> DEFINE n == list.search[list.res]
<1>1. PICK row \in {TrackUp, TrackDown, 0, n - 1} : list' = [list EXCEPT !.row = row]
  BY DEF tracklist_keypress
<1>2. main = "select" /\ main' = "deliver" /\ fault' = fault /\ list.res # 0 /\ n > 0
  BY DEF tracklist_keypress, Handled, InTracklist, Pressed
<1>3. /\ list.search # <<>> /\ list.search \in Seq({0, MaxTracks})
      /\ list.res \in 1 .. Len(list.search) /\ list.row \in Nat
      /\ list.row < Max({n, 1})
  BY <1>2 DEF CursorInv, ListTypes
<1>4. n \in Nat
  BY <1>3, BoundsAssumption
<1> HIDE DEF n
<1>5. Max({n, 1}) = n
  <2>1. n \in Int /\ 1 \in Int
    BY <1>4
  <2>2. Max({n, 1}) \in {n, 1} /\ Max({n, 1}) >= n
    BY <2>1, MaxOfTwo
  <2> QED BY <1>2, <1>4, <2>2
<1>6. row \in Nat /\ row < n
  <2>1. TrackUp \in {list.row - 1, 0} /\ TrackUp >= 0
    <3>1. list.row - 1 \in Int /\ 0 \in Int
      BY <1>3
    <3> QED BY <3>1, MaxOfTwo DEF TrackUp
  <2>2. TrackDown \in {list.row + 1, n - 1} /\ TrackDown <= n - 1
    <3>1. list.row + 1 \in Int /\ n - 1 \in Int
      BY <1>3, <1>4
    <3> QED BY <3>1, MinOfTwo DEF TrackDown, n
  <2> QED BY <1>1, <1>2, <1>3, <1>4, <1>5, <2>1, <2>2
<1>7. ListTypes(list)' /\ list'.search = list.search /\ list'.res = list.res
      /\ list'.pos = list.pos /\ list'.row = row
  BY <1>1, <1>6 DEF CursorInv, ListTypes
<1> QED BY <1>2, <1>3, <1>5, <1>6, <1>7 DEF CursorInv, n

(* The commands leave the lists alone. *)
LEMMA CommandKeepsList ==
    ASSUME NEW a, Bound(a) \/ command_process(a)
    PROVE  UNCHANGED <<list, fault>>
<1>1. ASSUME Bound(a) PROVE UNCHANGED <<list, fault>>
  BY <1>1
  DEF Bound, cmd_cb_connect, cmd_cb_disconnect, cmd_cb_search, cmd_cb_stop, cmd_cb_pause,
      cmd_cb_log, cmd_cb_help, Shows, Handled, sess_disconnect, sess_stop, sess_pause
<1>2. ASSUME command_process(a), ~Bound(a) PROVE UNCHANGED <<list, fault>>
  BY <1>2 DEF command_process, cmd_cb_main, cmd_cb_redraw, cmd_cb_quit, Shows, Handled
<1> QED BY <1>1, <1>2

LEMMA CursorStep == CursorInv /\ [Next]_vars => CursorInv'
<1> SUFFICES ASSUME CursorInv, [Next]_vars PROVE CursorInv'
  OBVIOUS
<1>1. CASE ui_keypress_special \/ footer_edit \/ footer_cancel \/ log_keypress \/ tracklist_left
  BY <1>1, ListUntouched
  DEF ui_keypress_special, footer_edit, footer_cancel, log_keypress, tracklist_left, Pressed,
      cmd_cb_quit, cmd_cb_redraw, Shows, Handled
<1>2. CASE ui_keypress_bound
  BY <1>2, ListUntouched, CommandKeepsList DEF ui_keypress_bound, Pressed, Shows, Handled
<1>3. CASE footer_enter
  <2> DEFINE a == footer_input_end(app)
  <2>1. main = "select" /\ \/ command_process(a)
                           \/ sess_search(a)
                           \/ Shows(footer_input(a, "PASSWORD"))
                           \/ sess_disconnect(a, "connect")
    BY <1>3 DEF footer_enter, Pressed
  <2> HIDE DEF a
  <2>2. CASE sess_search(a)
    BY <2>1, <2>2, SearchKeepsCursor
  <2>3. CASE ~sess_search(a)
    <3>1. UNCHANGED <<list, fault>>
      BY <2>1, <2>3, CommandKeepsList DEF Shows, Handled, sess_disconnect
    <3> QED BY <2>1, <3>1, ListUntouched
  <2> QED BY <2>2, <2>3
<1>4. CASE sidebar_keypress
  BY <1>4, SidebarKeepsCursor
<1>5. CASE tracklist_play
  BY <1>5, ListUntouched DEF tracklist_play, InTracklist, Pressed, sess_play, Handled
<1>6. CASE tracklist_keypress
  BY <1>6, TrackKeepsCursor
<1>7. CASE JoinThread \/ Disconnect \/ ConnectCreate \/ ConnectAuthenticate \/ Disconnected
  BY <1>7, ListUntouched
  DEF JoinThread, Disconnect, ConnectCreate, ConnectAuthenticate, Disconnected, uiVars
<1>8. CASE SelectTimeout \/ Deliver_quit \/ Deliver_update \/ footer_draw \/ DeliverEnds \/ Clear
  BY <1>8, ListUntouched
  DEF SelectTimeout, Deliver_quit, Deliver_update, footer_draw, DeliverEnds, Clear, uiVars
<1>9. CASE sess_cleanup
  BY <1>9, ListUntouched DEF sess_cleanup, sess_disconnect
<1>10. CASE FreeSearches
  <2>1. list' = [list EXCEPT !.search = <<>>] /\ main' = "exit" /\ fault' = fault
    BY <1>10 DEF FreeSearches
  <2>2. <<>> \in Seq({0, MaxTracks})
    OBVIOUS
  <2>3. ListTypes(list)' /\ list'.search = <<>>
    BY <2>1, <2>2 DEF CursorInv, ListTypes
  <2> QED BY <2>1, <2>3 DEF CursorInv
<1>11. CASE sig_int \/ sig_winch
  BY <1>11, ListUntouched DEF sig_int, sig_winch, Signal
<1>12. CASE Pcm
  BY <1>12, ListUntouched
  DEF Pcm, thread_loop_logs, thread_loop, NEW_TRACK, TIME_TELL, uiVars, PcmDraw,
      footer_update_track, pcm_ui_update, footer_draw_input, footer_draw_state,
      footer_draw_print, InCallback
<1>13. CASE UNCHANGED vars
  BY <1>13, ListUntouched DEF vars
<1> QED
  BY <1>1, <1>2, <1>3, <1>4, <1>5, <1>6, <1>7, <1>8, <1>9, <1>10, <1>11, <1>12, <1>13
  DEF Next, Keys, Loop

-----------------------------------------------------------------------------
LEMMA InitSession == Init => SessionInv
<1> SUFFICES ASSUME Init PROVE SessionInv
  OBVIOUS
<1>1. ses \in Ses /\ ses.state = "OFFLINE" /\ ses.playing = FALSE
  BY DEF Init, Ses, States
<1> QED BY <1>1
    DEF Init, SessionInv, SessionTypes, ThreadInv, PcmInit, PcmTypeOK, PcmStates, Mains

LEMMA InitFocus == Init => FocusInv
<1> SUFFICES ASSUME Init PROVE FocusInv
  OBVIOUS
<1>1. /\ app.shown = "SPLASH" /\ app.focus = "SPLASH" /\ app.flagged = {"SPLASH"}
      /\ app.input = "NONE" /\ app.prev = "SPLASH" /\ main = "select"
  BY DEF Init
<1>2. app \in App
  BY DEF Init, App, Sets, Elements, Inputs, Messages, States, NoDraw
<1> QED BY <1>1, <1>2
    DEF FocusInv, BrowserIsOnline, Focused, Visible, SetOf, Closing, Reconnecting

LEMMA InitFoot == Init => FootInv
BY DEF Init, NoDraw, FootInv

LEMMA InitCursor == Init => CursorInv
<1> SUFFICES ASSUME Init PROVE CursorInv
  OBVIOUS
<1>1. list = [search |-> <<>>, pos |-> 0, res |-> 0, row |-> 0] /\ fault = "none"
  BY DEF Init
<1>2. list.search = <<>> /\ list.res = 0 /\ ListTypes(list)
  BY <1>1 DEF ListTypes
<1> QED BY <1>1, <1>2 DEF CursorInv

LEMMA ClientInvariant == Spec => [](SessionInv /\ FocusInv /\ FootInv /\ CursorInv)
BY InitSession, InitFocus, InitFoot, InitCursor, SessionStep, FocusStep, FootStep, CursorStep, PTL
   DEF Spec

(* The PCM thread asks only a live session for data, the browser is shown only *)
(* while the session it reads is there, and neither thread draws the footer    *)
(* with the server of a session that is freed: although a refused login frees  *)
(* the session and leaves its thread, and a disconnect waits for a thread that *)
(* may be in the middle of drawing.  With every type.                          *)
THEOREM SessionAlwaysLive == Spec => []SessionIsLive
<1>1. SessionInv /\ FocusInv /\ FootInv /\ CursorInv => SessionIsLive
  <2> SUFFICES ASSUME SessionInv, FocusInv, FootInv, CursorInv PROVE SessionIsLive
    OBVIOUS
  <2>1. TypeOK
    BY DEF TypeOK, SessionInv, SessionTypes, FocusInv, CursorInv, ListTypes, App, Ses, Mains
  <2>2. pcm \in {"get_pcm", "callback"} => ses.dsfy = "live"
    BY DEF SessionInv, ThreadInv
  <2>3. /\ app.shown = "BROWSER" => ses.state = "ONLINE"
        /\ ses.state = "ONLINE" => ses.dsfy = "live"
    BY DEF SessionInv, ThreadInv, FocusInv, BrowserIsOnline
  <2>4. app.foot = [at |-> "print", text |-> "ONLINE"] => ses.dsfy = "live"
    BY <2>2 DEF FootInv
  <2> QED BY <2>1, <2>2, <2>3, <2>4 DEF SessionIsLive
<1> QED BY <1>1, ClientInvariant, PTL

(* A key always goes to an element that is on the screen, and to the footer    *)
(* exactly while it asks for a line, whatever was entered, shown or cut off.   *)
THEOREM FocusAlwaysVisible == Spec => []FocusIsVisible
<1>1. FocusInv => FocusIsVisible
  BY DEF FocusInv, FocusIsVisible, Focused, Closing
<1> QED BY <1>1, ClientInvariant, PTL

(* The sidebar's cursor is on a search, the track list's on a track of the     *)
(* result that is shown, and NULL is never followed for a list.                *)
THEOREM CursorsInRange == Spec => []CursorInRange
<1>1. CursorInv => CursorInRange
  BY DEF CursorInv, CursorInRange, ListTypes
<1> QED BY <1>1, ClientInvariant, PTL
=============================================================================
