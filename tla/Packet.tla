------------------------------- MODULE Packet -------------------------------
(***************************************************************************)
(* Packets on the connection (src/src/lib/packet.c) and its end            *)
(* (session_disconnect in session.c).                                      *)
(*                                                                         *)
(* Every packet is encrypted with the Shannon stream cipher, keyed once    *)
(* and restarted for each packet with a nonce that counts the packets; the *)
(* server counts too, so a packet is readable only if it is encrypted from *)
(* the start of the key stream of its own number, and sent in one piece.   *)
(* session->shn_send and key_send_IV have no lock.  Writers are the        *)
(* threads that call packet_write: the caller of the library, the PCM      *)
(* thread and the network thread.  Only the network thread reads.          *)
(***************************************************************************)
EXTENDS Integers, Sequences

CONSTANTS
    Writers,
    MaxSent,        \* bound: packets written
    MaxReceived     \* bound: packets the server sends

ASSUME BoundsAssumption == MaxSent \in Nat /\ MaxReceived \in Nat

VARIABLES
    up,             \* the socket ap_sock is open
    key_send_IV, key_recv_IV,
    shn_send,       \* the nonce it was started with, and packets encrypted since
    shn_recv,       \* the nonce it was started with
    wpc, buf,       \* the writers: where they are, and the packet they build
    written,        \* number of packet_write calls so far
    wire,           \* what reached the server, in two pieces for each packet
    rpc,            \* the network thread
    served,         \* packets the server has sent
    got,            \* the number of the packet the network thread is reading
    handled         \* packets given to handle_packet

vars == <<up, key_send_IV, key_recv_IV, shn_send, shn_recv, wpc, buf, written, wire,
          rpc, served, got, handled>>
recvVars == <<key_recv_IV, shn_recv, rpc, served, got, handled>>
sendVars == <<key_send_IV, shn_send, wpc, buf, written, wire>>

(* A packet as it was encrypted: the nonce, how much of the key stream had *)
(* been used before, and what the MAC covers besides the packet itself.    *)
Cipher == [nonce : Nat, skipped : Nat, mac : Nat]

(* where a writer is *)
Labels == {"idle", "encrypt", "finish", "send", "send_rest", "increment", "reset"}

Init ==
    /\ up = TRUE
    /\ key_send_IV = 0 /\ key_recv_IV = 0      \* key_init
    /\ shn_send = [nonce |-> 0, used |-> 0]
    /\ shn_recv = 0
    /\ wpc = [w \in Writers |-> "idle"]
    /\ buf = [w \in Writers |-> [nonce |-> 0, skipped |-> 0, mac |-> 0]]
    /\ written = 0
    /\ wire = <<>>
    /\ rpc = "idle" /\ served = 0 /\ got = 0 /\ handled = <<>>

-----------------------------------------------------------------------------
(* packet_write *)

Goto(w, label) == wpc' = [wpc EXCEPT ![w] = label]

(* shn_nonce with key_send_IV *)
WriteNonce(w) ==
    /\ wpc[w] = "idle" /\ written < MaxSent
    /\ written' = written + 1
    /\ shn_send' = [nonce |-> key_send_IV, used |-> 0]
    /\ Goto(w, "encrypt")
    /\ UNCHANGED <<up, key_send_IV, buf, wire, recvVars>>

WriteEncrypt(w) ==
    /\ wpc[w] = "encrypt"
    /\ buf' = [buf EXCEPT ![w] = [nonce |-> shn_send.nonce, skipped |-> shn_send.used, mac |-> 0]]
    /\ shn_send' = [shn_send EXCEPT !.used = @ + 1]
    /\ Goto(w, "finish")
    /\ UNCHANGED <<up, key_send_IV, written, wire, recvVars>>

WriteFinish(w) ==
    /\ wpc[w] = "finish"
    /\ buf' = [buf EXCEPT ![w].mac = shn_send.used - 1]
    /\ Goto(w, "send")
    /\ UNCHANGED <<up, key_send_IV, shn_send, written, wire, recvVars>>

(* block_write: send() may take a part of the packet first.  On a broken or *)
(* closed connection it fails, for good.                                    *)
WriteSend(w) ==
    /\ wpc[w] \in {"send", "send_rest"} /\ up
    /\ wire' = Append(wire, [by |-> w, part |-> wpc[w], packet |-> buf[w]])
    /\ Goto(w, IF wpc[w] = "send" THEN "send_rest" ELSE "increment")
    /\ UNCHANGED <<up, key_send_IV, shn_send, buf, written, recvVars>>

WriteFails(w) ==
    /\ wpc[w] \in {"send", "send_rest"}
    /\ up' = FALSE
    /\ Goto(w, "increment")
    /\ UNCHANGED <<key_send_IV, shn_send, buf, written, wire, recvVars>>

(* mutant: the counter is not advanced *)
WriteKeepsIV(w) ==
    /\ wpc[w] = "increment"
    /\ Goto(w, "idle")
    /\ UNCHANGED <<up, key_send_IV, shn_send, buf, written, wire, recvVars>>

(* key_send_IV++, whether or not the packet was sent *)
WriteIncrement(w) ==
    /\ wpc[w] = "increment"
    /\ key_send_IV' = key_send_IV + 1
    /\ Goto(w, "idle")
    /\ UNCHANGED <<up, shn_send, buf, written, wire, recvVars>>

-----------------------------------------------------------------------------
(* session_disconnect, called between two packets by a thread that saw a write *)
(* fail, or by despotify_exit: close the socket, then forget the counters      *)

(* mutant: the counters are forgotten while the socket is still open *)
ResetBeforeClose(w) ==
    /\ wpc[w] = "idle"
    /\ key_recv_IV' = 0 /\ key_send_IV' = 0
    /\ Goto(w, "reset")
    /\ UNCHANGED <<up, shn_send, buf, written, wire, shn_recv, rpc, served, got, handled>>

DisconnectClose(w) ==
    /\ wpc[w] = "idle"
    /\ up' = FALSE
    /\ Goto(w, "reset")
    /\ UNCHANGED <<key_send_IV, shn_send, buf, written, wire, recvVars>>

DisconnectReset(w) ==
    /\ wpc[w] = "reset"
    /\ key_recv_IV' = 0 /\ key_send_IV' = 0
    /\ Goto(w, "idle")
    /\ UNCHANGED <<up, shn_send, buf, written, wire, shn_recv, rpc, served, got, handled>>

-----------------------------------------------------------------------------
(* packet_read, in the network thread; the server sends packets in order *)

ServerSends ==
    /\ up /\ served < MaxReceived
    /\ served' = served + 1
    /\ UNCHANGED <<up, sendVars, key_recv_IV, shn_recv, rpc, got, handled>>

ReadHeader ==
    /\ rpc = "idle" /\ up /\ got < served
    /\ got' = got + 1
    /\ rpc' = "nonce"
    /\ UNCHANGED <<up, sendVars, key_recv_IV, shn_recv, served, handled>>

ReadNonce ==
    /\ rpc = "nonce"
    /\ shn_recv' = key_recv_IV
    /\ rpc' = "payload"
    /\ UNCHANGED <<up, sendVars, key_recv_IV, served, got, handled>>

(* the payload and the MAC, which nobody looks at *)
ReadPayload ==
    /\ rpc = "payload" /\ up
    /\ rpc' = "increment"
    /\ UNCHANGED <<up, sendVars, key_recv_IV, shn_recv, served, got, handled>>

(* mutant: the counter is not advanced *)
ReadKeepsIV ==
    /\ rpc = "increment"
    /\ handled' = Append(handled, [no |-> got, nonce |-> shn_recv])
    /\ rpc' = "idle"
    /\ UNCHANGED <<up, sendVars, key_recv_IV, shn_recv, served, got>>

(* key_recv_IV++, and handle_packet *)
ReadIncrement ==
    /\ rpc = "increment"
    /\ key_recv_IV' = key_recv_IV + 1
    /\ handled' = Append(handled, [no |-> got, nonce |-> shn_recv])
    /\ rpc' = "idle"
    /\ UNCHANGED <<up, sendVars, shn_recv, served, got>>

(* mutant: a short count is noticed in the header only *)
ReadFailsInHeader ==
    /\ rpc = "idle" /\ ~up
    /\ rpc' = "exit"
    /\ UNCHANGED <<up, sendVars, key_recv_IV, shn_recv, served, got, handled>>

(* a short count: despotify_thread ends *)
ReadFails ==
    /\ rpc \in {"idle", "payload"} /\ ~up
    /\ rpc' = "exit"
    /\ UNCHANGED <<up, sendVars, key_recv_IV, shn_recv, served, got, handled>>

-----------------------------------------------------------------------------
Next ==
    \/ \E w \in Writers :
          \/ WriteNonce(w) \/ WriteEncrypt(w) \/ WriteFinish(w) \/ WriteSend(w)
          \/ WriteFails(w) \/ WriteIncrement(w) \/ DisconnectClose(w) \/ DisconnectReset(w)
    \/ ServerSends \/ ReadHeader \/ ReadNonce \/ ReadPayload \/ ReadIncrement \/ ReadFails

(* the network thread runs; a read of a closed connection returns *)
Fairness == WF_vars(ReadHeader \/ ReadNonce \/ ReadPayload \/ ReadIncrement \/ ReadFails)

Spec == Init /\ [][Next]_vars /\ Fairness

-----------------------------------------------------------------------------
(* Every variable has its type. *)
TypeOK ==
    /\ up \in BOOLEAN
    /\ key_send_IV \in 0 .. MaxSent /\ key_recv_IV \in 0 .. MaxReceived
    /\ shn_send \in [nonce : Nat, used : Nat] /\ shn_recv \in Nat
    /\ wpc \in [Writers -> Labels]
    /\ buf \in [Writers -> Cipher]
    /\ written \in 0 .. MaxSent
    /\ wire \in Seq([by : Writers, part : {"send", "send_rest"}, packet : Cipher])
    /\ rpc \in {"idle", "nonce", "payload", "increment", "exit"}
    /\ served \in 0 .. MaxReceived /\ got \in 0 .. MaxReceived
    /\ handled \in Seq([no : Nat, nonce : Nat])

(* The server can read what it gets: the n-th packet arrives in one piece, *)
(* encrypted from the start of the n-th key stream, its MAC over it alone. *)
(* (With every type.)                                                      *)
ServerDecrypts ==
    /\ TypeOK
    /\ \A i \in 1 .. Len(wire) :
         LET n == (i - 1) \div 2
         IN  /\ wire[i].packet = [nonce |-> n, skipped |-> 0, mac |-> 0]
             /\ wire[i].part = IF i % 2 = 1 THEN "send" ELSE "send_rest"
             /\ i % 2 = 0 => wire[i].by = wire[i - 1].by

(* No packet is handled that was decrypted with another packet's nonce, not even *)
(* when another thread disconnects while it is read: packets carry no check the  *)
(* client looks at.                                                              *)
HandledIsIntact == \A i \in 1 .. Len(handled) : handled[i] = [no |-> i, nonce |-> i - 1]

(* What the code assumes and no lock gives: one thread at a time is between the *)
(* nonce and the increment of packet_write, or in session_disconnect.           *)
Writing(w) == wpc[w] # "idle"

OneWriting == \A v, w \in Writers : Writing(v) /\ Writing(w) => v = w

(* The network thread ends once the connection is closed. *)
ThreadEnds == ~up ~> rpc = "exit"
=============================================================================
