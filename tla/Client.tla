-------------------------------- MODULE Client --------------------------------
(***************************************************************************)
(* The curses client (clients/despotify): the event loop of event.c, the    *)
(* session of session.c with its PCM thread (module PcmThread), and what    *)
(* the keys do to focus, input line and lists (ui*.c, commands.c).          *)
(*                                                                          *)
(* The main thread handles a key, delivers the messages that were posted    *)
(* and clears their queue.  Messages are also posted by signal handlers and *)
(* by the PCM thread, which logs and draws too; nothing is locked, and each *)
(* thread may find what the other has half done.  The messages say no more  *)
(* than what is to be done, so the queue is a set.                          *)
(***************************************************************************)
EXTENDS PcmThread, Naturals, Sequences, FiniteSetsExt

CONSTANTS
    MaxSearches,    \* searches made in a run
    MaxTracks       \* tracks of a search result that is not empty

ASSUME BoundsAssumption == MaxSearches \in Nat /\ MaxTracks \in Nat \ {0}

VARIABLES
    app,        \* the user interface, the message queue, and how far the
                \* PCM thread is with the footer
    ses,        \* g_session: state, dsfy, playing, paused
    list,       \* the searches and the two cursors
    thread,     \* the variable thread: 0, the running thread, or a joined one
    main,       \* where the main thread is
    after,      \* what sess_disconnect returns to
    fault       \* the undefined behaviour that ended the process

uiVars == <<app, list, after>>
vars == <<app, ses, list, thread, main, after, fault, play_state, pcm>>

Elements == {"SPLASH", "SIDEBAR", "TRACKLIST", "LOG", "HELP", "FOOTER"}
Sets == {"SPLASH", "BROWSER", "LOG", "HELP"}
Inputs == {"NONE", "COMMAND", "SEARCH", "USERNAME", "PASSWORD"}
Messages == {"QUIT", "UPDATE", "REDRAW"}
States == {"OFFLINE", "ONLINE", "ERROR"}

(* the set an element is shown with; the footer is always there *)
SetOf(e) == IF e \in {"SIDEBAR", "TRACKLIST"} THEN "BROWSER"
            ELSE IF e = "FOOTER" THEN "NONE" ELSE e
FirstOf(set) == IF set = "BROWSER" THEN "SIDEBAR" ELSE set

(* The PCM thread in footer_draw: where, and what it is about to print *)
NoDraw == [at |-> "none", text |-> "OFFLINE"]

(* ui_init has shown the browser, or the splash screen when not online, and *)
(* drawn everything.  sess_init's load_config may have connected before:    *)
(* that is the same as the user's first connect.                            *)
Init ==
    /\ app = [shown |-> "SPLASH", focus |-> "SPLASH", flagged |-> {"SPLASH"},
              input |-> "NONE", prev |-> "SPLASH",
              dirty |-> FALSE, drawn |-> "OFFLINE", foot |-> NoDraw,
              msgs |-> {}, done |-> FALSE]
    /\ ses = [state |-> "OFFLINE", dsfy |-> "none", playing |-> FALSE, paused |-> FALSE]
    /\ list = [search |-> <<>>, pos |-> 0, res |-> 0, row |-> 0]
    /\ thread = "0"
    /\ main = "select"
    /\ after = "none"
    /\ fault = "none"
    /\ PcmInit

-----------------------------------------------------------------------------
(* ui.c *)

event_msg_post(a, m) == [a EXCEPT !.msgs = @ \union {m}]
log_append(a) == event_msg_post(a, "UPDATE")

(* only the footer's flag is kept: it tells the state of the session *)
ui_dirty(a) == [a EXCEPT !.dirty = TRUE]

(* A set is shown; its first element is focused.  The focus flag is taken   *)
(* from the elements of the other sets only.                                *)
ui_show(a, state, show) ==
    LET set == IF show = "BROWSER" /\ state # "ONLINE" THEN "SPLASH" ELSE show
    IN  event_msg_post(
          [a EXCEPT !.shown = set, !.focus = FirstOf(set),
                    !.flagged = {e \in @ : SetOf(e) \in {set, "NONE"}} \union {FirstOf(set)}],
          "UPDATE")

Visible(a, e) == SetOf(e) \in {a.shown, "NONE"}

ui_focus(a, e) ==
    IF ~Visible(a, e) THEN a
    ELSE event_msg_post([a EXCEPT !.focus = e, !.flagged = {e},
                                  !.dirty = @ \/ "FOOTER" \in a.flagged \union {e}],
                        "UPDATE")

(* The footer is drawn when it is dirty, or always; it is marked clean first *)
ui_update_draws(a, redraw) == a.dirty \/ redraw
ui_update(a) == [a EXCEPT !.dirty = FALSE]

(* the state of the session, unless a line is asked for *)
footer_text(type) == IF type = "NONE" THEN ses.state ELSE type

(* as footer_input, but the element to go back to is not remembered *)
footer_input_forgets(a, type) == ui_focus([a EXCEPT !.input = type], "FOOTER")

(* the footer asks for a line, and gets one or is cancelled *)
footer_input(a, type) ==
    ui_focus([a EXCEPT !.input = type, !.prev = a.focus], "FOOTER")
footer_input_end(a) ==
    ui_dirty(ui_focus([a EXCEPT !.input = "NONE"], a.prev))

-----------------------------------------------------------------------------
(* A key is handled in one step, up to where the main thread waits *)

Running == fault = "none"
Pressed == Running /\ main = "select"

(* the handler has left the user interface as a *)
Handled(a) ==
    /\ app' = a
    /\ main' = "deliver"
    /\ UNCHANGED <<after, fault, thread>>

Shows(a) == Handled(a) /\ UNCHANGED <<ses, list, pcmVars>>

(* as sess_disconnect, but the PCM thread is not ended *)
sess_disconnect_keeps(a, next) ==
    /\ app' = a
    /\ after' = next
    /\ main' = "disconnect"
    /\ UNCHANGED <<ses, list, thread, fault, pcmVars>>

(* sess_disconnect, up to pthread_join *)
sess_disconnect(a, next) ==
    /\ app' = a
    /\ after' = next
    /\ IF thread = "0" THEN main' = "disconnect" /\ UNCHANGED pcmVars
       ELSE main' = "join" /\ thread_exit
    /\ UNCHANGED <<ses, list, thread, fault>>

sess_stop(a) ==
    /\ thread_pause
    /\ IF ses.state = "ONLINE"
       THEN ses' = [ses EXCEPT !.playing = FALSE] /\ Handled(log_append(a))
       ELSE Handled(a) /\ UNCHANGED ses
    /\ UNCHANGED list

sess_pause(a) ==
    /\ IF ~ses.playing THEN UNCHANGED <<ses, pcmVars>>
       ELSE /\ ses' = [ses EXCEPT !.paused = ~@]
            /\ IF ses.paused THEN thread_play ELSE thread_pause
    /\ Handled(log_append(a))
    /\ UNCHANGED list

sess_play ==
    /\ \/ /\ ses.state = "ONLINE"
          /\ ses' = [ses EXCEPT !.playing = TRUE, !.paused = FALSE]
          /\ thread_play
       \/ UNCHANGED <<ses, pcmVars>>
    /\ Handled(log_append(app))
    /\ UNCHANGED list

(* the result p places below the newest; past the last there is none, and   *)
(* the code follows NULL                                                    *)
tracklist_set(a, l, p, focus) ==
    LET id == Len(l.search) - p
    IN  IF id \notin DOMAIN l.search
        THEN /\ fault' = "null"
             /\ UNCHANGED <<app, ses, list, thread, main, after, pcmVars>>
        ELSE /\ list' = [l EXCEPT !.res = id, !.row = IF l.res = id THEN @ ELSE 0, !.pos = p]
             /\ app' = event_msg_post(IF focus THEN ui_focus(a, "TRACKLIST") ELSE a, "UPDATE")
             /\ main' = "deliver"
             /\ UNCHANGED <<ses, thread, after, fault, pcmVars>>

(* A new result is the first of the sidebar (sidebar_reset).  The search    *)
(* may fail.                                                                *)
sess_search(a) ==
    \/ Shows(log_append(a))
    \/ /\ ses.state = "ONLINE" /\ Len(list.search) < MaxSearches
       /\ \E n \in {0, MaxTracks} :
            tracklist_set(log_append(a), [list EXCEPT !.search = Append(@, n)], 0, TRUE)

-----------------------------------------------------------------------------
(* commands.c, each bound to a key as well *)

cmd_cb_connect(a) == Shows(footer_input(a, "USERNAME"))
cmd_cb_disconnect(a) == sess_disconnect(a, "disconnected")
cmd_cb_search(a) == Shows(footer_input(a, "SEARCH"))
cmd_cb_stop(a) == sess_stop(a)
cmd_cb_pause(a) == sess_pause(a)
cmd_cb_log(a) == Shows(ui_show(a, ses.state, "LOG"))
cmd_cb_help(a) == Shows(ui_show(a, ses.state, "HELP"))
cmd_cb_main(a) == Shows(ui_show(a, ses.state, "BROWSER"))
cmd_cb_redraw(a) == Shows(event_msg_post(a, "REDRAW"))
cmd_cb_quit(a) == Shows(event_msg_post(a, "QUIT"))

Bound(a) ==
    \/ cmd_cb_connect(a) \/ cmd_cb_disconnect(a) \/ cmd_cb_search(a)
    \/ cmd_cb_stop(a) \/ cmd_cb_pause(a) \/ cmd_cb_log(a) \/ cmd_cb_help(a)

(* or the command is unknown, or the line is blank *)
command_process(a) ==
    \/ Bound(a)
    \/ cmd_cb_main(a) \/ cmd_cb_redraw(a) \/ cmd_cb_quit(a)
    \/ Shows(log_append(a)) \/ Shows(a)

-----------------------------------------------------------------------------
(* Keys.  Control-Q and control-L go first, then the focused element, and   *)
(* what that does not take is bound to a command.                           *)

Typing == app.focus = "FOOTER" /\ app.input # "NONE"

ui_keypress_special == Pressed /\ (cmd_cb_quit(app) \/ cmd_cb_redraw(app))

ui_keypress_bound ==
    /\ Pressed /\ ~Typing
    /\ Bound(app) \/ Shows(footer_input(app, "COMMAND")) \/ Shows(app)

(* the line is edited; a control character is dropped *)
footer_edit ==
    /\ Pressed /\ Typing
    /\ Shows(event_msg_post(ui_dirty(app), "UPDATE")) \/ Shows(app)
footer_cancel == Pressed /\ Typing /\ Shows(footer_input_end(app))

footer_enter ==
    /\ Pressed /\ Typing
    /\ LET a == footer_input_end(app)
       IN  \/ app.input = "COMMAND" /\ command_process(a)
           \/ app.input = "SEARCH" /\ sess_search(a)
           \/ app.input = "USERNAME" /\ Shows(footer_input(a, "PASSWORD"))
           \/ app.input = "PASSWORD" /\ sess_disconnect(a, "connect")

log_keypress ==
    /\ Pressed /\ app.focus \in {"LOG", "HELP"}
    /\ Shows(ui_show(app, ses.state, "BROWSER"))

(* as SidebarDown, but not stopped at the last search *)
SidebarDownPastEnd == list.pos + 1

SidebarDown == Min({list.pos + 1, Len(list.search) - 1})
SidebarUp == Max({list.pos - 1, 0})

sidebar_keypress ==
    /\ Pressed /\ app.focus = "SIDEBAR" /\ list.search # <<>>
    /\ \/ tracklist_set(app, list, list.pos, TRUE)
       \/ \E p \in {SidebarUp, SidebarDown, 0, Len(list.search) - 1} :
            tracklist_set(app, list, p, FALSE)

tracklist_left == Pressed /\ app.focus = "TRACKLIST" /\ Shows(ui_focus(app, "SIDEBAR"))

InTracklist == Pressed /\ app.focus = "TRACKLIST" /\ list.res # 0 /\ list.search[list.res] > 0

tracklist_play == InTracklist /\ sess_play

TrackUp == Max({list.row - 1, 0})
TrackDown == Min({list.row + 1, list.search[list.res] - 1})

(* up and down, to an end, or a page, which is as many rows as there are    *)
tracklist_keypress ==
    /\ InTracklist
    /\ \E row \in {TrackUp, TrackDown, 0, list.search[list.res] - 1} :
         list' = [list EXCEPT !.row = row]
    /\ Handled(event_msg_post(app, "UPDATE"))
    /\ UNCHANGED <<ses, pcmVars>>

-----------------------------------------------------------------------------
(* The rest of sess_disconnect and sess_connect *)

(* joining a thread that was joined before is undefined: an error, or worse *)
JoinThread ==
    /\ Running /\ main = "join"
    /\ IF thread = "joined" THEN fault' \in {fault, "joined"}
       ELSE pthread_join /\ UNCHANGED fault
    /\ thread' = "joined"
    /\ main' = "disconnect"
    /\ UNCHANGED <<uiVars, ses, pcmVars>>

Disconnect ==
    /\ Running /\ main = "disconnect"
    /\ IF ses.state = "ONLINE"
       THEN /\ thread_pause
            /\ ses' = [ses EXCEPT !.state = "OFFLINE", !.dsfy = "freed", !.playing = FALSE]
            /\ app' = ui_dirty(ui_show(log_append(app), "ONLINE", "SPLASH"))
       ELSE /\ ses' = [ses EXCEPT !.state = "OFFLINE"]
            /\ app' = ui_dirty(app)
            /\ UNCHANGED pcmVars
    /\ main' = after
    /\ UNCHANGED <<list, thread, after, fault>>

(* despotify_init_client (panic when it fails) and pthread_create *)
ConnectCreate ==
    /\ Running /\ main = "connect"
    /\ \/ /\ ses' = [ses EXCEPT !.dsfy = "live"]
          /\ thread_init
          /\ thread' = "running"
          /\ main' = "authenticate"
       \/ main' = "exit" /\ UNCHANGED <<ses, thread, pcmVars>>
    /\ UNCHANGED <<uiVars, fault>>

(* the session is freed; its PCM thread is left *)
ConnectRefused ==
    /\ ses' = [ses EXCEPT !.state = "ERROR", !.dsfy = "freed"]
    /\ app' = ui_dirty(ui_show(log_append(app), "ERROR", "LOG"))

ConnectAuthenticate ==
    /\ Running /\ main = "authenticate"
    /\ \/ /\ ses' = [ses EXCEPT !.state = "ONLINE"]
          /\ app' = ui_dirty(ui_show(log_append(app), "ONLINE", "BROWSER"))
       \/ ConnectRefused
    /\ main' = "deliver"
    /\ UNCHANGED <<list, thread, after, fault, pcmVars>>

Disconnected ==
    /\ Running /\ main = "disconnected"
    /\ main' = "deliver"
    /\ UNCHANGED <<uiVars, ses, thread, fault, pcmVars>>

-----------------------------------------------------------------------------
(* event_loop *)

(* select returns without a key *)
SelectTimeout ==
    /\ Running /\ main = "select"
    /\ main' = "deliver"
    /\ UNCHANGED <<uiVars, ses, thread, fault, pcmVars>>

Deliver_quit ==
    /\ Running /\ main = "deliver" /\ "QUIT" \in app.msgs
    /\ app' = [app EXCEPT !.msgs = @ \ {"QUIT"}, !.done = TRUE]
    /\ UNCHANGED <<ses, list, thread, main, after, fault, pcmVars>>

Deliver_update ==
    /\ Running /\ main = "deliver"
    /\ \E m \in {"UPDATE", "REDRAW"} \intersect app.msgs :
         /\ app' = [ui_update(app) EXCEPT !.msgs = @ \ {m}]
         /\ main' = IF ui_update_draws(app, m = "REDRAW") THEN "draw" ELSE "deliver"
    /\ UNCHANGED <<ses, list, thread, after, fault, pcmVars>>

(* only the main thread writes what it reads here *)
footer_draw ==
    /\ Running /\ main = "draw"
    /\ app' = [app EXCEPT !.drawn = footer_text(app.input)]
    /\ main' = "deliver"
    /\ UNCHANGED <<ses, list, thread, after, fault, pcmVars>>

(* the loop over the messages has ended *)
DeliverEnds ==
    /\ Running /\ main = "deliver" /\ app.msgs = {}
    /\ main' = "clear"
    /\ UNCHANGED <<uiVars, ses, thread, fault, pcmVars>>

(* The queue is emptied, whatever came into it; an event that is done is    *)
(* removed, and without one the loop returns.                               *)
Clear ==
    /\ Running /\ main = "clear"
    /\ app' = [app EXCEPT !.msgs = {}]
    /\ main' = IF app.done THEN "cleanup" ELSE "select"
    /\ UNCHANGED <<ses, list, thread, after, fault, pcmVars>>

(* ui_cleanup, then sess_cleanup, which frees the searches at its end *)
sess_cleanup == Running /\ main = "cleanup" /\ sess_disconnect(app, "free")

FreeSearches ==
    /\ Running /\ main = "free"
    /\ main' = "exit"
    /\ list' = [list EXCEPT !.search = <<>>]
    /\ UNCHANGED <<app, after, ses, thread, fault, pcmVars>>

-----------------------------------------------------------------------------
(* Signals and the PCM thread *)

(* A signal comes at any time: while the main thread waits, works on the   *)
(* queue, draws, connects or joins                                         *)
Signal(m) ==
    /\ Running /\ main # "exit"
    /\ app' = event_msg_post(app, m)
    /\ UNCHANGED <<ses, list, thread, main, after, fault, pcmVars>>

sig_int == Signal("QUIT")
sig_winch == Signal("REDRAW")

(* the thread logs before it waits, and after, and when there is no data *)
thread_loop_logs ==
    /\ Running /\ main # "exit"
    /\ LoopWait \/ LoopSwitch \/ LoopPlay
    /\ app' = log_append(app)
    /\ UNCHANGED <<ses, list, thread, main, after, fault>>

thread_loop ==
    /\ Running /\ main # "exit" /\ app.foot.at = "none"
    /\ LoopStart \/ LoopSwitch \/ LoopPlay \/ LoopCallback
    /\ UNCHANGED <<uiVars, ses, thread, main, fault>>

(* sess_callback: the PCM thread draws the footer, with the state and the   *)
(* input as they were when it looked                                        *)
InCallback(at) == Running /\ main # "exit" /\ pcm = "callback" /\ app.foot.at = at

Foot(at, text) == app' = [app EXCEPT !.foot = [at |-> at, text |-> text]]
Returns == pcm' = "switch" /\ UNCHANGED play_state

NEW_TRACK ==
    /\ InCallback("none")
    /\ play_state' = "PLAY"
    /\ Foot("dirty", "OFFLINE")
    /\ UNCHANGED <<ses, list, thread, main, after, fault, pcm>>

(* nothing is drawn for less than half a second *)
TIME_TELL ==
    /\ InCallback("none")
    /\ \/ Returns /\ UNCHANGED app
       \/ Foot("dirty", "OFFLINE") /\ UNCHANGED pcmVars
    /\ UNCHANGED <<ses, list, thread, main, after, fault>>

footer_update_track ==
    /\ InCallback("dirty")
    /\ app' = [ui_dirty(app) EXCEPT !.foot.at = "update"]
    /\ UNCHANGED <<ses, list, thread, main, after, fault, pcmVars>>

(* the main thread may have drawn it meanwhile *)
pcm_ui_update ==
    /\ InCallback("update")
    /\ IF ui_update_draws(app, FALSE)
       THEN app' = [ui_update(app) EXCEPT !.foot.at = "input"] /\ UNCHANGED pcmVars
       ELSE app' = [app EXCEPT !.foot = NoDraw] /\ Returns
    /\ UNCHANGED <<ses, list, thread, main, after, fault>>

footer_draw_input ==
    /\ InCallback("input")
    /\ IF app.input = "NONE" THEN Foot("state", "OFFLINE") ELSE Foot("print", app.input)
    /\ UNCHANGED <<ses, list, thread, main, after, fault, pcmVars>>

footer_draw_state ==
    /\ InCallback("state")
    /\ Foot("print", ses.state)
    /\ UNCHANGED <<ses, list, thread, main, after, fault, pcmVars>>

footer_draw_print ==
    /\ InCallback("print")
    /\ app' = [app EXCEPT !.drawn = app.foot.text, !.foot = NoDraw]
    /\ Returns
    /\ UNCHANGED <<ses, list, thread, main, after, fault>>

-----------------------------------------------------------------------------
Keys ==
    \/ ui_keypress_special
    \/ ui_keypress_bound
    \/ footer_edit
    \/ footer_cancel
    \/ footer_enter
    \/ log_keypress
    \/ sidebar_keypress
    \/ tracklist_left
    \/ tracklist_play
    \/ tracklist_keypress

Loop ==
    \/ JoinThread
    \/ Disconnect
    \/ ConnectCreate
    \/ ConnectAuthenticate
    \/ Disconnected
    \/ SelectTimeout
    \/ Deliver_quit
    \/ Deliver_update
    \/ footer_draw
    \/ DeliverEnds
    \/ Clear
    \/ sess_cleanup
    \/ FreeSearches

PcmDraw ==
    \/ footer_update_track \/ pcm_ui_update
    \/ footer_draw_input \/ footer_draw_state \/ footer_draw_print

Pcm == thread_loop_logs \/ thread_loop \/ NEW_TRACK \/ TIME_TELL \/ PcmDraw

Next == Keys \/ Loop \/ sig_int \/ sig_winch \/ Pcm

(* The main thread never waits for a key, and delivers the messages in the *)
(* order they came in; the PCM thread is scheduled                         *)
Spec ==
    /\ Init /\ [][Next]_vars
    /\ WF_vars(Loop)
    /\ SF_vars(Deliver_quit)
    /\ WF_vars(Pcm)

-----------------------------------------------------------------------------
(* Properties *)

(* Every variable keeps its type. *)
TypeOK ==
    /\ app \in [shown : Sets, focus : Elements, flagged : SUBSET Elements,
                input : Inputs, prev : Elements, dirty : BOOLEAN,
                drawn : States \union Inputs,
                foot : [at : {"none", "dirty", "update", "input", "state", "print"},
                        text : States \union Inputs],
                msgs : SUBSET Messages, done : BOOLEAN]
    /\ ses \in [state : States, dsfy : {"none", "live", "freed"},
                playing : BOOLEAN, paused : BOOLEAN]
    /\ list.search \in Seq({0, MaxTracks})
    /\ list.pos \in Nat /\ list.res \in Nat /\ list.row \in Nat
    /\ thread \in {"0", "running", "joined"}
    /\ main \in {"select", "deliver", "draw", "clear", "join", "disconnect", "disconnected",
                 "connect", "authenticate", "cleanup", "free", "exit"}
    /\ after \in {"none", "disconnected", "connect", "free"}
    /\ fault \in {"none", "null", "joined"}
    /\ PcmTypeOK

(* A key goes to an element that is on the screen, and to the footer        *)
(* exactly while it asks for a line: otherwise the text would be taken for  *)
(* commands, or the input line be left behind (ui.c 270-295, ui_footer.c    *)
(* 199-254).                                                                *)
FocusIsVisible ==
    main = "select" =>
        /\ Visible(app, app.focus)
        /\ app.focus \in app.flagged
        /\ app.input # "NONE" <=> app.focus = "FOOTER"

(* The cursors are on a search and on a track of its result, so that        *)
(* neither tracklist_set nor Enter follows NULL (ui_sidebar.c 45-91,        *)
(* ui_tracklist.c 95-178).                                                  *)
CursorInRange ==
    /\ fault # "null"
    /\ main = "select" /\ list.search # <<>> =>
         /\ list.pos < Len(list.search)
         /\ list.res \in DOMAIN list.search
         /\ list.row < Max({list.search[list.res], 1})

(* The PCM thread asks only a session that is there for data, although a    *)
(* refused login frees the session and leaves the thread (session.c         *)
(* 188-191, 210-226).  The browser is on the screen only while there is a   *)
(* session to read; and neither thread reads the name of the server for the *)
(* footer (ui_footer.c 57-64) once that is freed, although the state it     *)
(* goes by is looked at without a lock.  (With every type.)                 *)
SessionIsLive ==
    /\ TypeOK
    /\ pcm \in {"get_pcm", "callback"} => ses.dsfy = "live"
    /\ app.foot = [at |-> "print", text |-> "ONLINE"] => ses.dsfy = "live"
    /\ main \in {"select", "deliver", "draw", "clear"} =>
         /\ app.shown = "BROWSER" => ses.state = "ONLINE"
         /\ ses.state = "ONLINE" => ses.dsfy = "live"

(* Not so: a footer that is not to be drawn again comes to say the state of *)
(* the session, or the line that is asked for, unless the main thread waits  *)
(* for the PCM thread (ui_footer.c 50-101, ui.c 208-231).  The PCM thread    *)
(* prints what it read before the main thread changed and drew it.           *)
FooterTellsState ==
    []<>(app.drawn = footer_text(app.input) \/ app.dirty \/ main \in {"join", "exit"} \/ ~Running)

(* Not so: a request to quit, by key, command or signal, is heard.  A signal *)
(* between the last delivery and the clearing of the queue is lost (event.c  *)
(* 373-385).                                                                 *)
QuitIsHeard == "QUIT" \in app.msgs ~> app.done \/ main \in {"join", "exit"} \/ ~Running

(* Not so: sess_disconnect's "Redraw status info." (session.c 224) has the  *)
(* footer drawn.  It only marks it, and asks for no update.                 *)
OfflineIsTold == []<>(~app.dirty \/ main \in {"join", "exit"} \/ ~Running)

(* One element has the focus flag: "Focus only first element in set"        *)
(* (ui.c 244).                                                              *)
OneFocus == main = "select" => app.flagged = {app.focus}

(* The PCM thread is joined once for each time it was created. *)
JoinedOnce == fault # "joined"

(* Quitting comes to an end. *)
QuitEnds == main = "cleanup" ~> main = "exit" \/ ~Running

(* While playback is paused, no data is asked for next time round. *)
PausedIsSilent == main = "select" /\ ses.playing /\ ses.paused => play_state = "PAUSE"

(* No thread draws once the windows are deleted (main.c 74). *)
DrawsWhileUp == main = "join" /\ after = "free" => pcm # "callback"
================================================================================
