------------------------------- MODULE Gateway -------------------------------
(***************************************************************************)
(* The gateway (clients/gateway/gw-*.c): one thread that serves REST        *)
(* connections and the Spotify sessions they log in to.  main() goes round  *)
(* one loop: a step of rest_fsm for every connection, a step of             *)
(* spotify_fsm for every session, then select.                              *)
(*                                                                          *)
(* A connection and a session are known by their address.  A line is what   *)
(* it asks for, which is decided when it is processed; output is the REST   *)
(* connection whose request made it and then filled it.  How long select    *)
(* waits, and the payloads, are left out.                                   *)
(***************************************************************************)
EXTENDS Naturals, Sequences, SequencesExt, FiniteSets

CONSTANTS
    Rest,           \* RESTSESSIONs
    Session,        \* SPOTIFYSESSIONs
    User,           \* accounts: a username together with a password
    Null,
    Requests,       \* the requests connections make
    MaxLines,       \* complete lines that one read of a connection may yield
    Shared,         \* whether two connections may use one session at a time
    KeyErrors       \* whether the server may refuse a file key

ASSUME MaxLinesAssumption == MaxLines \in Nat \ {0}
ASSUME RequestsAssumption ==
    Requests \subseteq {"search", "browse", "image", "playlist", "key", "substream"}
ASSUME SharedAssumption == Shared \in BOOLEAN /\ KeyErrors \in BOOLEAN
ASSUME NullAssumption == Null \notin Rest \union Session \union User


VARIABLES
    rest,       \* main's array of connections
    client,     \* the array of sessions
    conn,       \* conn[x]: the fields of a RESTSESSION
    ses,        \* ses[s]: the fields of a SPOTIFYSESSION; an output that was
                \* freed is Null like one that is NULL
    chan,       \* chan[s]: the requests s has open, each with its connection
    sock,       \* sock[x]: whether there is data to read, or the peer is gone
    wire,       \* wire[s]: the packet from the server not read yet
    pos,        \* where main is in its loop; past the last session is select
    fault       \* what went wrong: a freed session used, a NULL session read,
                \* an assertion, an answer to someone else's command, a reply
                \* nobody asked for

vars == <<rest, client, conn, ses, chan, sock, wire, pos, fault>>

RestStates == {"READING", "LOAD_COMMAND", "PROCESS_INIT", "PROCESS_CLIENT",
               "PROCESS_HTTP", "WAITING", "FREE_CLIENT", "CLOSED"}
Errors == {"ERROR_CONNECT", "ERROR_AUTH"}    \* a failed key exchange is the latter
ClientStates == Errors \union {"IDLE_DISCONNECTED", "ALLOCATE", "IDLE_CONNECTED",
                 "LOGIN_COMPLETE", "COMMAND_COMPLETE", "FREED"}

(* A connection as accepted.  user is the name of a login that is tried     *)
(* again.  owed is not a field of the program: whether a line has been      *)
(* loaded whose reply is still to come.                                     *)
Accepted == [state |-> "READING", input |-> 0,
             user |-> Null, client |-> Null, httpreq |-> FALSE,
             owed |-> "no"]
Closed == [Accepted EXCEPT !.state = "CLOSED"]

NewClient(u) == [state |-> "ALLOCATE", session |-> FALSE, connected |-> FALSE,
                 user |-> u, http |-> FALSE, output |-> Null]
Freed == [NewClient(Null) EXCEPT !.state = "FREED"]

Init ==
    /\ rest = <<>> /\ client = <<>>
    /\ conn = [x \in Rest |-> Closed]
    /\ ses = [s \in Session |-> Freed]
    /\ chan = [s \in Session |-> <<>>]
    /\ sock = [x \in Rest |-> "quiet"]
    /\ wire = [s \in Session |-> "none"]
    /\ pos = [phase |-> "clients", i |-> 1]
    /\ fault = "none"

-----------------------------------------------------------------------------
(* Arrays, and the turn of one element *)

(* a[i] = a[--n] *)
ReplacedByLast(a, i) == Front([a EXCEPT ![i] = Last(a)])

Running == fault = "none"
RestTurn(x) == Running /\ pos.phase = "rest" /\ pos.i <= Len(rest) /\ rest[pos.i] = x
ClientTurn(s) == Running /\ pos.phase = "clients" /\ pos.i <= Len(client) /\ client[pos.i] = s
NextTurn ==
    pos' = IF pos.phase = "rest" /\ pos.i = Len(rest) THEN [phase |-> "clients", i |-> 1]
           ELSE [pos EXCEPT !.i = @ + 1]

(* rest_fsm has left connection x as r and returned 0 (ok), or not: then    *)
(* main closes it and goes on to the sessions                               *)
Return(x, r, ok) ==
    IF ok
    THEN /\ conn' = [conn EXCEPT ![x] = r]
         /\ NextTurn
         /\ UNCHANGED <<rest, sock>>
    ELSE /\ conn' = [conn EXCEPT ![x] = Closed]
         /\ sock' = [sock EXCEPT ![x] = "quiet"]
         /\ rest' = ReplacedByLast(rest, pos.i)
         /\ pos' = [phase |-> "clients", i |-> 1]

(* block_write to a peer that is gone may fail *)
Write(x) == IF sock[x] = "gone" THEN BOOLEAN ELSE {TRUE}

(* a reply; f is what the reply is besides *)
Reply(x, f) == fault' = IF conn[x].owed = "no" THEN "unasked" ELSE f

(* as Replied, but the same line is processed again *)
RepliedAgain(r) == [r EXCEPT !.owed = "no"]

Replied(r) == [r EXCEPT !.state = "LOAD_COMMAND", !.owed = "no"]

MayUse(x, s) == Shared \/ \A y \in Rest \ {x} : conn[y].client # s

-----------------------------------------------------------------------------
(* rest_fsm: reading and loading a line *)

Load(r) ==
    [r EXCEPT !.input = @ - 1,
              !.owed = IF r.httpreq THEN @ ELSE "yes",
              !.state = IF r.httpreq THEN "PROCESS_HTTP"
                        ELSE IF r.client # Null THEN "PROCESS_CLIENT" ELSE "PROCESS_INIT"]

(* the next line, if there is one; an empty one is skipped outside HTTP *)
Loaded(r) ==
    IF r.input = 0 THEN {[r EXCEPT !.state = "READING"]}
    ELSE {Load(r)} \union
         (IF r.httpreq THEN {} ELSE {[r EXCEPT !.state = "LOAD_COMMAND", !.input = @ - 1]})

(* rest_read_input fails when the peer is gone, and when the data fills the *)
(* buffer; 0 lines is a part of one                                         *)
REST_STATE_READING(x) ==
    LET r == conn[x]
    IN  /\ RestTurn(x) /\ r.state = "READING"
        /\ UNCHANGED <<client, ses, chan, wire, fault>>
        /\ \/ /\ sock[x] = "quiet"
              /\ Return(x, r, TRUE)
           \/ /\ sock[x] = "data"
              /\ \E n \in 0 .. MaxLines : \E l \in Loaded([r EXCEPT !.input = n]) :
                   conn' = [conn EXCEPT ![x] = l]
              /\ sock' = [sock EXCEPT ![x] = "quiet"]
              /\ NextTurn
              /\ UNCHANGED rest
           \/ /\ sock[x] # "quiet"
              /\ Return(x, r, FALSE)

REST_STATE_LOAD_COMMAND(x) ==
    /\ RestTurn(x) /\ conn[x].state = "LOAD_COMMAND"
    /\ \E l \in Loaded(conn[x]) : Return(x, l, TRUE)
    /\ UNCHANGED <<client, ses, chan, wire, fault>>

-----------------------------------------------------------------------------
(* rest_fsm: lines of a connection without a session *)

InitLine(x) == RestTurn(x) /\ conn[x].state = "PROCESS_INIT" /\ conn[x].user = Null
ClientLine(x) == RestTurn(x) /\ conn[x].state = "PROCESS_CLIENT"
HttpLine(x) == RestTurn(x) /\ conn[x].state = "PROCESS_HTTP"

Quit(x) ==
    /\ InitLine(x) \/ ClientLine(x)
    /\ Reply(x, fault)
    /\ Return(x, conn[x], FALSE)
    /\ UNCHANGED <<client, ses, chan, wire>>

Init_GET(x) ==
    /\ InitLine(x)
    /\ Return(x, [conn[x] EXCEPT !.state = "LOAD_COMMAND", !.httpreq = TRUE], TRUE)
    /\ UNCHANGED <<client, ses, chan, wire, fault>>

(* as Existing, but only a session that is connected is found *)
ExistingConnected(u) ==
    {s \in Range(client) : ses[s].user = u /\ ses[s].state = "IDLE_CONNECTED"}

(* The sessions of this account (the same name with another password is    *)
(* another one), and the addresses a new one may get                        *)
Existing(u) == {s \in Range(client) : ses[s].user = u}
Fresh == {s \in Session : ses[s].state = "FREED" /\ \A x \in Rest : conn[x].client # s}

(* spotify_client_allocate: the session r->client is set to, the array and  *)
(* the fields of the session afterwards                                     *)
spotify_client_allocate(x, u, s, http) ==
    \/ /\ s \in Existing(u) /\ MayUse(x, s)
       /\ ses' = IF http THEN [ses EXCEPT ![s].http = TRUE] ELSE ses
       /\ UNCHANGED <<client, chan, wire>>
    \/ /\ Existing(u) = {} /\ s \in Fresh
       /\ ses' = [ses EXCEPT ![s] = [NewClient(u) EXCEPT !.http = http]]
       /\ client' = Append(client, s)
       /\ chan' = [chan EXCEPT ![s] = <<>>]
       /\ wire' = [wire EXCEPT ![s] = "none"]

Init_login(x) ==
    LET r == conn[x]
        users == IF r.user # Null THEN {r.user} ELSE User
    IN  /\ RestTurn(x) /\ r.state = "PROCESS_INIT"
        /\ \E u \in users, s \in Session :
             /\ spotify_client_allocate(x, u, s, FALSE)
             /\ LET c == [r EXCEPT !.client = s, !.user = Null]
                IN  \/ /\ s \notin Range(client)
                       /\ Return(x, [c EXCEPT !.state = "WAITING"], TRUE)
                       /\ UNCHANGED fault
                    \* somebody's new session: the same line again next time
                    \/ /\ s \in Range(client) /\ ses[s].state = "ALLOCATE"
                       /\ Return(x, [c EXCEPT !.user = u], TRUE)
                       /\ UNCHANGED fault
                    \/ /\ s \in Range(client) /\ ses[s].state # "ALLOCATE"
                       /\ Reply(x, fault)
                       /\ \E ok \in Write(x) : Return(x, Replied(c), ok)

Init_session(x) ==
    /\ InitLine(x)
    /\ Reply(x, fault)
    /\ \E s \in {s \in Range(client) : MayUse(x, s)} \union {Null}, ok \in Write(x) :
         Return(x, Replied([conn[x] EXCEPT !.client = s]), ok)
    /\ UNCHANGED <<client, ses, chan, wire>>

(* A login without its two words is answered as an invalid command, and the *)
(* connection is closed: rest_fsm returns what sscanf returned.             *)
Invalid(x) ==
    /\ InitLine(x) \/ ClientLine(x)
    /\ Reply(x, fault)
    /\ \E ok \in (IF InitLine(x) THEN BOOLEAN ELSE Write(x)) : Return(x, Replied(conn[x]), ok)
    /\ UNCHANGED <<client, ses, chan, wire>>

-----------------------------------------------------------------------------
(* HTTP *)

HttpReplied(r) == [Replied(r) EXCEPT !.httpreq = FALSE]

(* whether there was a usable Authorization header is decided when the      *)
(* request is complete                                                      *)
Http_header(x) ==
    /\ HttpLine(x)
    /\ Return(x, [conn[x] EXCEPT !.state = "LOAD_COMMAND"], TRUE)
    /\ UNCHANGED <<client, ses, chan, wire, fault>>

spotify_find_http_client == {s \in Range(client) : ses[s].http}

(* 404 when some session is marked for HTTP, 401 without a usable header *)
http_reply(x) ==
    /\ HttpLine(x)
    /\ Reply(x, fault)
    /\ \E ok \in Write(x) : Return(x, HttpReplied(conn[x]), ok)
    /\ UNCHANGED <<client, ses, chan, wire>>

http_handle_request(x) ==
    LET r == conn[x]
    IN  /\ HttpLine(x)
        /\ spotify_find_http_client = {}
        /\ \E u \in User, s \in Session :
             /\ spotify_client_allocate(x, u, s, TRUE)
             /\ IF s \in Range(client) /\ ses[s].state = "IDLE_CONNECTED"
                THEN /\ Reply(x, fault)
                     /\ \E ok \in Write(x) : Return(x, HttpReplied([r EXCEPT !.client = s]), ok)
                ELSE /\ Return(x, [r EXCEPT !.client = s, !.state = "WAITING"], TRUE)
                     /\ UNCHANGED fault

-----------------------------------------------------------------------------
(* rest_fsm: lines of a connection with a session *)

(* the session of this connection may have been freed by another one;       *)
(* waiting, and most commands, look at it                                   *)
Dangling(x) == conn[x].client # Null /\ ses[conn[x].client].state = "FREED"

Looked(x) == IF Dangling(x) THEN "freed" ELSE fault

Client_logout(x) ==
    /\ ClientLine(x)
    /\ Reply(x, fault)
    /\ Return(x, [Replied(conn[x]) EXCEPT !.state = "FREE_CLIENT"], TRUE)
    /\ UNCHANGED <<client, ses, chan, wire>>

(* id and country *)
Client_id(x) ==
    /\ ClientLine(x)
    /\ Reply(x, Looked(x))
    /\ Return(x, Replied(conn[x]), TRUE)
    /\ UNCHANGED <<client, ses, chan, wire>>

(* a request whose id is not well-formed: only a search has no id *)
Client_malformed(x) ==
    /\ ClientLine(x) /\ Requests # {"search"}
    /\ Reply(x, fault)
    /\ Return(x, Replied(conn[x]), TRUE)
    /\ UNCHANGED <<client, ses, chan, wire>>

(* packet_write to the server *)
Sends(s) == IF ~ses[s].connected THEN {FALSE}
            ELSE IF wire[s] = "broken" THEN BOOLEAN ELSE {TRUE}

(* A request makes a new output and opens a channel.  When the write fails  *)
(* rest_fsm returns the error: the connection is closed with its state set  *)
(* to FREE_CLIENT, which is never looked at.                                *)
gw_request(x, k) ==
    LET r == conn[x]
        s == r.client
    IN  /\ ClientLine(x) /\ k \in Requests
        /\ fault' = Looked(x)
        /\ ses' = [ses EXCEPT ![s].output = x]
        /\ \E sent \in Sends(s) :
             /\ chan' = IF sent THEN [chan EXCEPT ![s] = Append(@, [kind |-> k, by |-> x])] ELSE chan
             /\ Return(x, [r EXCEPT !.state = "WAITING"], sent)
        /\ UNCHANGED <<client, wire>>

gw_search(x) == gw_request(x, "search")
gw_browse(x) == gw_request(x, "browse")
gw_image(x) == gw_request(x, "image")
gw_getplaylist(x) == gw_request(x, "playlist")
gw_file_key(x) == gw_request(x, "key")

(* the offset is tested modulo 1024 by rest_fsm and asserted modulo 4096 by *)
(* cmd_getsubstreams                                                        *)
gw_file_stream(x) ==
    \/ gw_request(x, "substream")
    \/ /\ ClientLine(x) /\ ~Dangling(x) /\ "substream" \in Requests
       /\ fault' = "offset"
       /\ UNCHANGED <<rest, client, conn, ses, chan, sock, wire, pos>>

-----------------------------------------------------------------------------
(* rest_fsm: waiting for the session *)

Waits(x, states) ==
    /\ RestTurn(x) /\ conn[x].state = "WAITING"
    /\ ses[conn[x].client].state \in states

Answered(r) == IF r.httpreq THEN HttpReplied(r) ELSE Replied(r)

Waiting_command(x) ==
    LET s == conn[x].client
    IN  /\ Waits(x, {"COMMAND_COMPLETE"})
        /\ Reply(x, IF ses[s].output \in {x, Null} THEN fault ELSE "other")
        /\ ses' = [ses EXCEPT ![s].state = "IDLE_CONNECTED",
                              ![s].output = Null]
        /\ \E ok \in Write(x) : Return(x, Answered(conn[x]), ok)
        /\ UNCHANGED <<client, chan, wire>>

Waiting_login(x) ==
    /\ Waits(x, {"LOGIN_COMPLETE"})
    /\ Reply(x, fault)
    /\ ses' = [ses EXCEPT ![conn[x].client].state = "IDLE_CONNECTED"]
    /\ \E ok \in Write(x) : Return(x, Answered(conn[x]), ok)
    /\ UNCHANGED <<client, chan, wire>>

(* as Waiting_idle, but a connection whose peer is gone is closed *)
Waiting_idle_closes(x) ==
    /\ Waits(x, {"IDLE_CONNECTED"})
    /\ Return(x, conn[x], sock[x] # "gone")
    /\ UNCHANGED <<client, ses, chan, wire, fault>>

Waiting_idle(x) ==
    /\ Waits(x, {"IDLE_CONNECTED"})
    /\ Return(x, conn[x], TRUE)
    /\ UNCHANGED <<client, ses, chan, wire, fault>>

Waiting_error(x) ==
    /\ Waits(x, Errors)
    /\ Reply(x, fault)
    /\ ses' = [ses EXCEPT ![conn[x].client].state = "IDLE_DISCONNECTED"]
    /\ \E ok \in Write(x) :
         Return(x, [Answered(conn[x]) EXCEPT !.state = "FREE_CLIENT"], ok)
    /\ UNCHANGED <<client, chan, wire>>

Waiting_default(x) ==
    /\ Waits(x, ClientStates \ (Errors \union {"COMMAND_COMPLETE", "LOGIN_COMPLETE", "IDLE_CONNECTED"}))
    /\ fault' = IF Dangling(x) THEN "freed" ELSE "assert"
    /\ UNCHANGED <<rest, client, conn, ses, chan, sock, wire, pos>>

REST_STATE_FREE_CLIENT(x) ==
    LET s == conn[x].client
        at == {i \in DOMAIN client : client[i] = s}
    IN  /\ RestTurn(x) /\ conn[x].state = "FREE_CLIENT"
        /\ \/ /\ at = {}
              /\ fault' = "assert"
              /\ UNCHANGED <<rest, client, conn, ses, chan, sock, wire, pos>>
           \/ /\ \E i \in at : client' = ReplacedByLast(client, i)
              /\ ses' = [ses EXCEPT ![s] = Freed]
              /\ chan' = [chan EXCEPT ![s] = <<>>]
              /\ wire' = [wire EXCEPT ![s] = "none"]
              /\ Return(x, [conn[x] EXCEPT !.client = Null, !.state = "LOAD_COMMAND"], TRUE)
              /\ UNCHANGED fault

-----------------------------------------------------------------------------
(* spotify_fsm *)

(* session_connect, do_key_exchange and do_auth block, one after the other *)
CLIENT_STATE_ALLOCATE(s) ==
    LET with(state, session, connected) ==
            [ses EXCEPT ![s].state = state, ![s].session = session, ![s].connected = connected]
    IN  /\ ClientTurn(s) /\ ses[s].state = "ALLOCATE"
        /\ ses' \in {with("ERROR_CONNECT", FALSE, FALSE), with("ERROR_CONNECT", TRUE, FALSE),
                     with("ERROR_AUTH", TRUE, TRUE), with("LOGIN_COMPLETE", TRUE, TRUE)}
        /\ NextTurn
        /\ UNCHANGED <<rest, client, conn, chan, sock, wire, fault>>

Reads(s) == ClientTurn(s) /\ ses[s].state = "IDLE_CONNECTED" /\ wire[s] # "none"

(* a packet for no callback of the gateway: a ping, a header, a refused key *)
ReadOther(s) ==
    /\ Reads(s) /\ wire[s] \in {"other", "keyerr"}
    /\ chan' = IF wire[s] = "keyerr" THEN [chan EXCEPT ![s] = Tail(@)] ELSE chan
    /\ wire' = [wire EXCEPT ![s] = "none"]
    /\ NextTurn
    /\ UNCHANGED <<rest, client, conn, ses, sock, fault>>

(* what a callback finds at s->output *)
Follow(s) == IF ses[s].output = Null THEN "freed" ELSE fault

Calls(s, k) == Reads(s) /\ chan[s] # <<>> /\ Head(chan[s]).kind = k

(* data goes to the output *)
CallbackData(s) ==
    /\ wire[s] = "other"
    /\ fault' = Follow(s)
    /\ wire' = [wire EXCEPT ![s] = "none"]
    /\ NextTurn
    /\ UNCHANGED <<rest, client, conn, ses, chan, sock>>

(* as CallbackEnd, but an error does not complete the command *)
CallbackEndOnly(s) ==
    /\ wire[s] \in {"end", "error"}
    /\ fault' = Follow(s)
    /\ ses' = [ses EXCEPT ![s].state = IF wire[s] = "error" THEN @ ELSE "COMMAND_COMPLETE",
                          ![s].output = IF wire[s] = "error" THEN Null ELSE Head(chan[s]).by]
    /\ chan' = [chan EXCEPT ![s] = Tail(@)]
    /\ wire' = [wire EXCEPT ![s] = "none"]
    /\ NextTurn
    /\ UNCHANGED <<rest, client, conn, sock>>

(* the end of a channel, or its error, which frees the output *)
CallbackEnd(s) ==
    /\ wire[s] \in {"end", "error"}
    /\ fault' = Follow(s)
    /\ ses' = [ses EXCEPT ![s].state = "COMMAND_COMPLETE",
                          ![s].output = IF wire[s] = "error" THEN Null ELSE Head(chan[s]).by]
    /\ chan' = [chan EXCEPT ![s] = Tail(@)]
    /\ wire' = [wire EXCEPT ![s] = "none"]
    /\ NextTurn
    /\ UNCHANGED <<rest, client, conn, sock>>

gw_search_result_callback(s) == Calls(s, "search") /\ (CallbackData(s) \/ CallbackEnd(s))
gw_browse_result_callback(s) == Calls(s, "browse") /\ (CallbackData(s) \/ CallbackEnd(s))
gw_image_result_callback(s) == Calls(s, "image") /\ (CallbackData(s) \/ CallbackEnd(s))
gw_getplaylist_result_callback(s) == Calls(s, "playlist") /\ (CallbackData(s) \/ CallbackEnd(s))
gw_file_stream_callback(s) == Calls(s, "substream") /\ (CallbackData(s) \/ CallbackEnd(s))
(* the key itself is the end *)
gw_file_key_callback(s) == Calls(s, "key") /\ CallbackEnd(s)

(* data that cannot be inflated: the callback's error goes up to main *)
InflateFails(s) ==
    wire[s] = "other" /\ (Calls(s, "search") \/ Calls(s, "browse"))

(* the states in which spotify_fsm does nothing *)
Idle(s) ==
    /\ ClientTurn(s) /\ ses[s].state # "ALLOCATE"
    /\ ~Reads(s)
    /\ NextTurn
    /\ UNCHANGED <<rest, client, conn, ses, chan, sock, wire, fault>>

(* as DroppedFrom, but only connections that wait are told *)
DroppedFromWaiting(s) ==
    [x \in Rest |->
       IF conn[x].client # s \/ conn[x].state # "WAITING" THEN conn[x]
       ELSE [conn[x] EXCEPT !.client = Null, !.state = "LOAD_COMMAND",
                            !.owed = IF @ = "yes" THEN "forgotten" ELSE @]]

(* what main does to the connections of session s before it frees it *)
DroppedFrom(s) ==
    [x \in Rest |->
       IF conn[x].client # s THEN conn[x]
       ELSE [conn[x] EXCEPT !.client = Null, !.state = "LOAD_COMMAND",
                            !.owed = IF @ = "yes" THEN "forgotten" ELSE @]]

(* main drops the session: nothing was heard for SPOTIFYSESSION_TIMEOUT     *)
(* seconds, a packet could not be read, or its data not be inflated.  The   *)
(* last session takes its place and is passed over in this round.           *)
Drop(s) ==
    /\ ClientTurn(s)
    /\ \/ wire[s] = "none" /\ ses[s].state # "ALLOCATE"
       \/ Reads(s) /\ wire[s] = "broken"
       \/ InflateFails(s)
    /\ conn' = DroppedFrom(s)
    /\ client' = ReplacedByLast(client, pos.i)
    /\ ses' = [ses EXCEPT ![s] = Freed]
    /\ chan' = [chan EXCEPT ![s] = <<>>]
    /\ wire' = [wire EXCEPT ![s] = "none"]
    /\ NextTurn
    /\ UNCHANGED <<rest, sock, fault>>

(* setting up select, main reads the socket of every session *)
SelectNull ==
    /\ Running /\ pos.phase = "clients" /\ pos.i > Len(client)
    /\ \E s \in Range(client) : ~ses[s].session
    /\ fault' = "null"
    /\ UNCHANGED <<rest, client, conn, ses, chan, sock, wire, pos>>

-----------------------------------------------------------------------------
(* select returns because of a new connection, data from a peer, a peer     *)
(* that is gone, a packet, or its timeout.  What is readable stays so until *)
(* it is read: socket_has_data is sock[x] # "quiet", client_has_data is     *)
(* wire[s] # "none".                                                        *)

Select ==
    /\ Running /\ pos.phase = "clients" /\ pos.i > Len(client)
    /\ \A s \in Range(client) : ses[s].session
    /\ pos' = [phase |-> IF rest' = <<>> THEN "clients" ELSE "rest", i |-> 1]

Accept(x) ==
    /\ conn[x].state = "CLOSED"
    /\ rest' = Append(rest, x)
    /\ Select
    /\ conn' = [conn EXCEPT ![x] = Accepted]
    /\ UNCHANGED <<client, ses, chan, sock, wire, fault>>

Peer(x, data) ==
    /\ x \in Range(rest) /\ sock[x] = "quiet"
    /\ sock' = [sock EXCEPT ![x] = data]
    /\ UNCHANGED <<rest, client, conn, ses, chan, wire, fault>>
    /\ Select

PeerSends(x) == Peer(x, "data")
PeerGoes(x) == Peer(x, "gone")

Packet(s, p) ==
    /\ ses[s].connected /\ wire[s] = "none"
    /\ wire' = [wire EXCEPT ![s] = p]
    /\ UNCHANGED <<rest, client, conn, ses, chan, sock, fault>>
    /\ Select

ServerOther(s) == Packet(s, "other")
ServerBreaks(s) == Packet(s, "broken")

(* the server is done with a request *)
ServerAnswers(s) ==
    /\ chan[s] # <<>>
    /\ \/ Packet(s, "end")
       \/ Head(chan[s]).kind # "key" /\ Packet(s, "error")
       \/ Head(chan[s]).kind = "key" /\ KeyErrors /\ Packet(s, "keyerr")

SelectTimeout ==
    /\ UNCHANGED <<rest, client, conn, ses, chan, sock, wire, fault>>
    /\ Select

-----------------------------------------------------------------------------
rest_fsm(x) ==
    \/ REST_STATE_READING(x)
    \/ REST_STATE_LOAD_COMMAND(x)
    \/ Quit(x)
    \/ Init_GET(x)
    \/ Init_login(x)
    \/ Init_session(x)
    \/ Invalid(x)
    \/ Http_header(x)
    \/ http_reply(x)
    \/ http_handle_request(x)
    \/ Client_logout(x)
    \/ Client_id(x)
    \/ Client_malformed(x)
    \/ gw_search(x)
    \/ gw_browse(x)
    \/ gw_image(x)
    \/ gw_getplaylist(x)
    \/ gw_file_key(x)
    \/ gw_file_stream(x)
    \/ Waiting_command(x)
    \/ Waiting_login(x)
    \/ Waiting_idle(x)
    \/ Waiting_error(x)
    \/ Waiting_default(x)
    \/ REST_STATE_FREE_CLIENT(x)

spotify_fsm(s) ==
    \/ CLIENT_STATE_ALLOCATE(s)
    \/ ReadOther(s)
    \/ gw_search_result_callback(s)
    \/ gw_browse_result_callback(s)
    \/ gw_image_result_callback(s)
    \/ gw_getplaylist_result_callback(s)
    \/ gw_file_stream_callback(s)
    \/ gw_file_key_callback(s)
    \/ Idle(s)

Loop ==
    \/ \E x \in Rest : rest_fsm(x)
    \/ \E s \in Session : spotify_fsm(s) \/ Drop(s)
    \/ SelectNull
    \/ SelectTimeout

Next ==
    \/ Loop
    \/ \E x \in Rest : Accept(x) \/ PeerSends(x) \/ PeerGoes(x)
    \/ \E s \in Session : ServerOther(s) \/ ServerBreaks(s) \/ ServerAnswers(s)

(* main never stops going round, and the server answers what it was asked  *)
(* whatever else it sends                                                  *)
Spec ==
    /\ Init /\ [][Next]_vars
    /\ WF_vars(Loop)
    /\ \A s \in Session : SF_vars(ServerAnswers(s))

-----------------------------------------------------------------------------
(* Properties *)

(* Every variable keeps its type.                                           *)
TypeOK ==
    /\ rest \in Seq(Rest) /\ client \in Seq(Session)
    /\ conn \in [Rest -> [state : RestStates, input : 0 .. MaxLines,
                          user : User \union {Null}, client : Session \union {Null},
                          httpreq : BOOLEAN, owed : {"no", "yes", "forgotten"}]]
    /\ ses \in [Session -> [state : ClientStates, session : BOOLEAN, connected : BOOLEAN,
                            user : User \union {Null}, http : BOOLEAN,
                            output : Rest \union {Null}]]
    /\ \A s \in Session : chan[s] \in Seq([kind : Requests, by : Rest])
    /\ sock \in [Rest -> {"quiet", "data", "gone"}]
    /\ wire \in [Session -> {"none", "other", "end", "error", "keyerr", "broken"}]
    /\ pos \in [phase : {"rest", "clients"}, i : Nat \ {0}]
    /\ fault \in {"none", "freed", "null", "assert", "offset", "other", "unasked"}

(* main's two arrays hold exactly what is not closed or freed, nothing      *)
(* twice, whatever is dropped while they are walked; and no connection      *)
(* keeps a pointer to a session that was freed, by a logout, a failed login *)
(* or main's clean-up (gw-core.c 163-202, 746-763), and none is used.       *)
(* (With every type.)                                                       *)
ClientIsLive ==
    /\ TypeOK
    /\ IsInjective(rest) /\ Range(rest) = {x \in Rest : conn[x].state # "CLOSED"}
    /\ IsInjective(client) /\ Range(client) = {s \in Session : ses[s].state # "FREED"}
    /\ \A x \in Rest : conn[x].client # Null => conn[x].client \in Range(client)
    /\ fault # "freed"

(* What a connection is sent as the result of its command is what the       *)
(* server answered to that command, although the output belongs to the      *)
(* session and a session outlives its connections (gw-core.c 634).          *)
AnswerIsMine == fault # "other"

(* One reply for each line: no reply to a line already answered, and while  *)
(* one is owed the connection is on its way to it, unless main dropped its  *)
(* session ("pretty mean", gw-core.c 187).                                  *)
OneReplyEach ==
    /\ fault # "unasked"
    /\ \A x \in Rest :
         conn[x].owed = "yes" =>
             \/ conn[x].state \in {"PROCESS_INIT", "PROCESS_CLIENT", "PROCESS_HTTP", "WAITING"}
             \/ conn[x].httpreq

(* No username is logged in twice at a time with one password               *)
(* (spotify_client_allocate compares both), and at most one session serves  *)
(* HTTP.                                                                    *)
OneSessionPerUser ==
    \A s, t \in Range(client) :
        ses[s].user = ses[t].user \/ (ses[s].http /\ ses[t].http) => s = t

(* A connection that waits for its session comes out of it: with a reply,   *)
(* or because the session was dropped.                                      *)
WaitingEnds ==
    \A x \in Rest : conn[x].state = "WAITING" ~> conn[x].state # "WAITING" \/ ~Running

(* select's loop over the sessions finds each of them with a session        *)
(* structure (gw-core.c 215).                                               *)
NewSessionIsStepped ==
    pos.phase = "clients" /\ pos.i > Len(client) => \A s \in Range(client) : ses[s].state # "ALLOCATE"

(* rest_fsm finds the session in a state it knows, and in the table.        *)
NoAssert == fault # "assert"

(* A session whose login failed is freed by the connection that waited.     *)
FailedIsFreed ==
    \A s \in Session : ses[s].state = "IDLE_DISCONNECTED" ~> ses[s].state = "FREED" \/ ~Running
=============================================================================
