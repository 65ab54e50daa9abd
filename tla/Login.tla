-------------------------------- MODULE Login --------------------------------
(***************************************************************************)
(* The life of a session: despotify_authenticate, the network thread it    *)
(* starts (despotify_thread, handlers.c) and despotify_exit, as the clients *)
(* use them: a client whose login fails calls despotify_exit, too.         *)
(*                                                                         *)
(* The server is external: it refuses or accepts, then sends packets in    *)
(* any order, one of them CMD_WELCOME; the connection may break.           *)
(***************************************************************************)
EXTENDS Integers

CONSTANTS
    Breaks,         \* the connection may break
    MaxPackets      \* bound: packets the server sends

ASSUME BreaksAssumption == Breaks \in BOOLEAN
ASSUME MaxPacketsAssumption == MaxPackets \in Nat

VARIABLES
    caller,         \* where the client's thread is
    last_error,
    refused,        \* history: the status the server answered with, 0 for none
    thread,         \* ds->thread: "none" until pthread_create
    cancelled,      \* pthread_cancel was called
    connection,     \* ap_sock: "none", "open", "broken", "closed"
    packets,        \* packets the server has sent
    inbox,          \* the packet the network thread reads next, or "nothing"
    welcomed,       \* the network thread has handled CMD_WELCOME
    replies,        \* packets the handlers wrote: cache hash and pong
    freed           \* session_free, free(ds)

loginVars == <<caller, last_error, refused, thread, cancelled, connection, packets, inbox,
          welcomed, replies, freed>>

(* The status byte of the server's first packet: 1 upgrade, 3 no such user, *)
(* 4 disabled, 6 incomplete, 9 wrong country, 7 stands for any other.       *)
Statuses == {1, 3, 4, 6, 9, 7}

CallerLabels == {"idle", "connect", "send_initial", "read_initial", "key_init", "auth", "create",
           "lock", "wait", "woken", "in", "failed", "cancel", "join", "destroy", "done", "crashed"}

LoginInit ==
    /\ caller = "idle" /\ last_error = "" /\ refused = 0
    /\ thread = "none" /\ cancelled = FALSE
    /\ connection = "none" /\ packets = 0 /\ inbox = "nothing"
    /\ welcomed = FALSE /\ replies = 0 /\ freed = FALSE

netVars == <<thread, packets, inbox, welcomed, replies>>

-----------------------------------------------------------------------------
(* despotify_authenticate *)

Step(from, to) ==
    /\ caller = from
    /\ caller' = to
    /\ UNCHANGED <<last_error, refused, cancelled, connection, netVars, freed>>

(* return false, with ds->last_error set; the socket stays open *)
Fail(from, error) ==
    /\ caller = from
    /\ caller' = "failed"
    /\ last_error' = error
    /\ UNCHANGED <<refused, cancelled, connection, netVars, freed>>

Authenticate == Step("idle", "connect")

session_connect ==
    \/ /\ caller = "connect"
       /\ connection' = "open"
       /\ caller' = "send_initial"
       /\ UNCHANGED <<last_error, refused, cancelled, netVars, freed>>
    \/ Fail("connect", "Could not connect")

(* do_key_exchange: send_client_initial_packet *)
send_client_initial_packet ==
    \/ connection = "open" /\ Step("send_initial", "read_initial")
    \/ connection = "broken" /\ Fail("send_initial", "Key exchange failed")

(* read_server_initial_packet: the code for each status byte *)
InitialError(status) ==
    CASE status = 1 -> -11
      [] status = 3 -> -13
      [] status = 4 -> -14
      [] status = 6 -> -16
      [] status = 9 -> -19
      [] OTHER -> -91

(* mutant: two codes are mixed up *)
ExchangeErrorMixed(code) ==
    CASE code = -11 -> "Client upgrade required"
      [] code = -13 -> "Account has been disabled"
      [] code = -14 -> "Account has been disabled"
      [] code = -16 -> "Account details incomplete"
      [] code = -19 -> "Country mismatch"
      [] OTHER -> "Key exchange failed"

(* the switch of despotify_authenticate *)
ExchangeError(code) ==
    CASE code = -11 -> "Client upgrade required"
      [] code = -13 -> "User not found"
      [] code = -14 -> "Account has been disabled"
      [] code = -16 -> "Account details incomplete"
      [] code = -19 -> "Country mismatch"
      [] OTHER -> "Key exchange failed"

read_server_initial_packet ==
    \/ connection = "open" /\ Step("read_initial", "key_init")
    \/ /\ connection = "open" /\ caller = "read_initial"
       /\ \E status \in Statuses :
             /\ refused' = status
             /\ last_error' = ExchangeError(InitialError(status))
       /\ caller' = "failed"
       /\ UNCHANGED <<cancelled, connection, netVars, freed>>
    \/ connection = "broken" /\ Fail("read_initial", ExchangeError(-90))   \* a short count

(* DH_compute_key may refuse the server's key *)
key_init ==
    \/ Step("key_init", "auth")
    \/ Fail("key_init", "Key computation failed")

(* puzzle_solve, send_client_auth and read_server_auth_response *)
do_auth ==
    \/ connection = "open" /\ Step("auth", "create")
    \/ Fail("auth", "Authentication failed")

pthread_create ==
    /\ caller = "create"
    /\ thread' = "running"
    /\ caller' = "lock"
    /\ UNCHANGED <<last_error, refused, cancelled, connection, packets, inbox, welcomed, replies, freed>>

(* pthread_mutex_lock, and pthread_cond_wait without a predicate or a timeout *)
WaitForLogin == Step("lock", "wait")

(* pthread_cond_wait may return although nobody signalled *)
SpuriousWakeup == Step("wait", "woken")

(* return true: what ended the wait is not looked at *)
LoggedIn == Step("woken", "in")

-----------------------------------------------------------------------------
(* despotify_exit: despotify_free(ds, true) *)

Exit ==
    /\ caller \in {"in", "failed"}
    /\ caller' = "cancel"
    /\ connection' = IF connection = "none" THEN "none" ELSE "closed"
    /\ UNCHANGED <<last_error, refused, cancelled, netVars, freed>>

(* pthread_cancel: without a thread, ds->thread is zero *)
Cancel ==
    /\ caller = "cancel"
    /\ caller' = IF thread = "none" THEN "crashed" ELSE "join"
    /\ cancelled' = TRUE
    /\ UNCHANGED <<last_error, refused, connection, netVars, freed>>

(* mutant: the thread is not joined *)
JoinNothing == Step("join", "destroy")

Join == thread = "ended" /\ Step("join", "destroy")

(* snd_destroy, session_free, free *)
Destroy ==
    /\ caller = "destroy"
    /\ caller' = "done"
    /\ freed' = TRUE
    /\ UNCHANGED <<last_error, refused, cancelled, connection, netVars>>

-----------------------------------------------------------------------------
(* The server and the network *)

PacketArrives ==
    /\ connection = "open" /\ inbox = "nothing" /\ packets < MaxPackets
    /\ caller \notin {"idle", "connect", "send_initial", "read_initial", "key_init", "auth"}
    /\ \E p \in {"SECRETBLK", "PING", "WELCOME", "other"} :
          /\ p = "WELCOME" => ~welcomed
          /\ p # "WELCOME" => welcomed \/ packets < MaxPackets - 1
          /\ inbox' = p
    /\ packets' = packets + 1
    /\ UNCHANGED <<caller, last_error, refused, thread, cancelled, connection, welcomed, replies, freed>>

Break ==
    /\ Breaks /\ connection = "open"
    /\ connection' = "broken"
    /\ UNCHANGED <<caller, last_error, refused, cancelled, netVars, freed>>

-----------------------------------------------------------------------------
(* despotify_thread *)

(* packet_read and handle_packet: handle_secret_block, handle_ping and          *)
(* handle_welcome, which signals login_cond under login_mutex                   *)
HandlePacket ==
    /\ thread = "running" /\ inbox # "nothing" /\ connection \in {"open", "broken"}
    /\ inbox' = "nothing"
    /\ replies' = replies + (IF inbox \in {"SECRETBLK", "PING"} THEN 1 ELSE 0)
    /\ welcomed' = (welcomed \/ inbox = "WELCOME")
    /\ caller' = IF inbox = "WELCOME" /\ caller = "wait" THEN "woken" ELSE caller
    /\ UNCHANGED <<last_error, refused, thread, cancelled, connection, packets, freed>>

(* mutant: the thread cannot be cancelled where it waits *)
EndsOnBreakOnly ==
    /\ thread = "running" /\ connection = "broken"
    /\ thread' = "ended"
    /\ UNCHANGED <<caller, last_error, refused, cancelled, connection, packets, inbox, welcomed,
                   replies, freed>>

(* packet_read fails, or recv() is where the thread is cancelled *)
NetThreadEnds ==
    /\ thread = "running" /\ (connection # "open" \/ cancelled)
    /\ thread' = "ended"
    /\ UNCHANGED <<caller, last_error, refused, cancelled, connection, packets, inbox, welcomed,
                   replies, freed>>

-----------------------------------------------------------------------------
CallerStep ==
    \/ session_connect \/ send_client_initial_packet \/ read_server_initial_packet
    \/ key_init \/ do_auth \/ pthread_create \/ WaitForLogin \/ LoggedIn
    \/ Cancel \/ Join \/ Destroy

NetStep == HandlePacket \/ NetThreadEnds

LoginNext ==
    \/ Authenticate \/ Exit \/ CallerStep \/ SpuriousWakeup \/ NetStep \/ PacketArrives
    \/ Break

(* Both threads run; the server goes on sending until it has sent its welcome.  A *)
(* thread that waits need not wake up for no reason.                            *)
LoginFairness ==
    /\ WF_loginVars(CallerStep) /\ WF_loginVars(NetStep)
    /\ WF_loginVars(PacketArrives /\ inbox' = "WELCOME")

LoginSpec == LoginInit /\ [][LoginNext]_loginVars /\ LoginFairness

-----------------------------------------------------------------------------
(* Every variable has its type. *)
LoginTypeOK ==
    /\ caller \in CallerLabels
    /\ refused \in Statuses \union {0}
    /\ thread \in {"none", "running", "ended"} /\ cancelled \in BOOLEAN
    /\ connection \in {"none", "open", "broken", "closed"}
    /\ packets \in 0 .. MaxPackets
    /\ inbox \in {"nothing", "SECRETBLK", "PING", "WELCOME", "other"}
    /\ welcomed \in BOOLEAN /\ replies \in 0 .. packets /\ freed \in BOOLEAN

(* Not so: despotify_authenticate returns true only when the server has said      *)
(* welcome.                                                                      *)
LoggedInIsWelcomed == caller = "in" => welcomed

(* What the server refuses a login for is what the client is told, and only a *)
(* login the server refused for that reason is reported so.                   *)
RefusalIsTold ==
    caller = "failed" =>
        LET reasons == [s \in {1, 3, 4, 6, 9} |->
                            CASE s = 1 -> "Client upgrade required" [] s = 3 -> "User not found"
                              [] s = 4 -> "Account has been disabled"
                              [] s = 6 -> "Account details incomplete" [] s = 9 -> "Country mismatch"]
        IN  \A s \in DOMAIN reasons : refused = s <=> last_error = reasons[s]

(* The session is not freed while the network thread uses it, whichever of  *)
(* cancellation, disconnect and a broken connection ends that thread.  (With *)
(* every type.)                                                             *)
ThreadGoneWhenFreed == LoginTypeOK /\ (freed => thread # "running")

(* despotify_exit may be called after any login, as the clients do. *)
ExitIsSafe == caller # "crashed"

(* despotify_exit returns. *)
ExitReturns == (caller \in {"cancel", "join", "destroy"}) ~> (caller \in {"done", "crashed"})

(* despotify_authenticate returns. *)
LoginReturns == (caller = "connect") ~> (caller \in {"in", "failed"})
==============================================================================
