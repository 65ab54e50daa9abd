---------------------------- MODULE SessionProofs ----------------------------
(***************************************************************************)
(* Proofs about a session and what its threads share: the packets (module  *)
(* Packet), the session itself, from the login to despotify_exit (module   *)
(* Login), and the list of channels (module ChannelThreads).               *)
(*                                                                         *)
(* The packets.  The network thread never handles a packet it decrypted    *)
(* with the wrong nonce, for any number of threads that write, fail and    *)
(* disconnect.  session_disconnect sets key_recv_IV back while a packet    *)
(* may be half read.  What saves the reader is the order: the counter is   *)
(* set back only when the socket is closed, and the payload is read after  *)
(* the nonce is set, so a wrong nonce is always followed by a failed read. *)
(* And as long as the threads write one at a time, the server decrypts     *)
(* every packet it gets; otherwise it need not, for the cipher has no lock.*)
(*                                                                         *)
(* The session.  For any number of packets, and with or without a          *)
(* connection that breaks, the session outlives its network thread, a      *)
(* login is reported only after the server's welcome, and a refusal is     *)
(* reported for what it is.                                                *)
(*                                                                         *)
(* The channel list.  As long as one thread at a time is inside them, the  *)
(* stores of channel_register and channel_unregister implement the table   *)
(* the other modules take for granted, for any number of channels and of   *)
(* threads.  The invariant is that some sequence without repetitions       *)
(* follows the next fields from head to NULL and meets every allocated     *)
(* struct, but for the one that is being linked or given back.             *)
(***************************************************************************)
EXTENDS Packet, Login, ChannelThreads, FiniteSetTheorems, SequenceTheorems,
        WellFoundedInduction, TLAPS

(* What is left of TypeOK without its bounds: the types of the reading side. *)
RecvTypes ==
    /\ key_recv_IV \in Nat /\ shn_recv \in Nat /\ got \in Nat
    /\ handled \in Seq([no : Nat, nonce : Nat])

(* The counters are set back only when the socket is closed. *)
ResetIsClosed ==
    /\ wpc \in [Writers -> Labels]
    /\ \A w \in Writers : wpc[w] = "reset" => ~up

(* Where the reader is, and as long as the socket is open, what the counter says. *)
ReaderCounts ==
    /\ rpc = "idle" => Len(handled) = got
    /\ rpc \in {"nonce", "payload", "increment"} => Len(handled) = got - 1
    /\ rpc = "idle" /\ up => key_recv_IV = got
    /\ rpc \in {"nonce", "payload", "increment"} /\ up => key_recv_IV = got - 1
    /\ rpc = "payload" /\ up => shn_recv = got - 1
    /\ rpc = "increment" => shn_recv = got - 1

ReadInv == RecvTypes /\ ResetIsClosed /\ ReaderCounts /\ HandledIsIntact

(* Nothing is read yet: the invariant holds at first. *)
LEMMA InitReadInv == Init => ReadInv
BY DEF Init, ReadInv, RecvTypes, ResetIsClosed, ReaderCounts, HandledIsIntact, Labels

(* A writer does not touch the reading side, and only ever closes the socket. *)
LEMMA WriterStep ==
    ASSUME ReadInv, NEW w \in Writers,
           WriteNonce(w) \/ WriteEncrypt(w) \/ WriteFinish(w) \/ WriteSend(w)
             \/ WriteFails(w) \/ WriteIncrement(w) \/ DisconnectClose(w)
    PROVE  ReadInv'
<1>1. UNCHANGED recvVars /\ (up' => up)
  BY DEF WriteNonce, WriteEncrypt, WriteFinish, WriteSend, WriteFails, WriteIncrement,
         DisconnectClose
<1>2. RecvTypes' /\ ReaderCounts' /\ HandledIsIntact'
  BY <1>1 DEF ReadInv, RecvTypes, ReaderCounts, HandledIsIntact, recvVars
<1>3. ResetIsClosed'
  <2>0. wpc' \in [Writers -> Labels]
    BY DEF ReadInv, ResetIsClosed, WriteNonce, WriteEncrypt, WriteFinish, WriteSend,
           WriteFails, WriteIncrement, DisconnectClose, Goto, Labels
  <2>1. SUFFICES ASSUME NEW v \in Writers, wpc'[v] = "reset"
                 PROVE  ~up'
    BY <2>0 DEF ResetIsClosed
  <2>2. CASE DisconnectClose(w)
    BY <2>2 DEF DisconnectClose
  <2>3. CASE ~DisconnectClose(w)
    <3>1. wpc[v] = "reset"
      BY <2>1, <2>3 DEF WriteNonce, WriteEncrypt, WriteFinish, WriteSend, WriteFails,
                        WriteIncrement, Goto, ReadInv, ResetIsClosed
    <3> QED BY <3>1, <1>1 DEF ReadInv, ResetIsClosed
  <2> QED BY <2>2, <2>3
<1> QED BY <1>2, <1>3 DEF ReadInv

(* The counters are set back when the socket is closed, so nothing is claimed of *)
(* them any more.                                                                *)
LEMMA ResetStep ==
    ASSUME ReadInv, NEW w \in Writers, DisconnectReset(w)
    PROVE  ReadInv'
<1>1. ~up /\ ~up'
  BY DEF ReadInv, ResetIsClosed, DisconnectReset
<1>2. RecvTypes' /\ ReaderCounts' /\ HandledIsIntact'
  BY <1>1 DEF ReadInv, RecvTypes, ReaderCounts, HandledIsIntact, DisconnectReset
<1>3. ResetIsClosed'
  BY <1>1 DEF ReadInv, ResetIsClosed, DisconnectReset, Goto, Labels
<1> QED BY <1>2, <1>3 DEF ReadInv

(* The reader keeps the count of packets and the count of nonces together. *)
LEMMA ReaderStep ==
    ASSUME ReadInv,
           ServerSends \/ ReadHeader \/ ReadNonce \/ ReadPayload \/ ReadIncrement \/ ReadFails
    PROVE  ReadInv'
<1>1. ResetIsClosed'
  BY DEF ReadInv, ResetIsClosed, ServerSends, ReadHeader, ReadNonce, ReadPayload,
         ReadIncrement, ReadFails, sendVars
<1>2. CASE ServerSends \/ ReadHeader \/ ReadNonce \/ ReadPayload \/ ReadFails
  <2>1. RecvTypes' /\ HandledIsIntact'
    BY <1>2 DEF ReadInv, RecvTypes, HandledIsIntact, ServerSends, ReadHeader, ReadNonce,
                ReadPayload, ReadFails
  <2>2. ReaderCounts'
    BY <1>2 DEF ReadInv, RecvTypes, ReaderCounts, ServerSends, ReadHeader, ReadNonce,
                ReadPayload, ReadFails
  <2> QED BY <1>1, <2>1, <2>2 DEF ReadInv
<1>3. CASE ReadIncrement
  <2> DEFINE packet == [no |-> got, nonce |-> shn_recv]
  <2>1. /\ handled' = Append(handled, packet) /\ packet \in [no : Nat, nonce : Nat]
        /\ got' = got /\ shn_recv' = shn_recv /\ up' = up
        /\ key_recv_IV' = key_recv_IV + 1 /\ rpc = "increment" /\ rpc' = "idle"
    BY <1>3 DEF ReadInv, RecvTypes, ReadIncrement
  <2>2. /\ Len(handled') = Len(handled) + 1 /\ handled'[Len(handled) + 1] = packet
        /\ \A i \in 1 .. Len(handled) : handled'[i] = handled[i]
        /\ handled' \in Seq([no : Nat, nonce : Nat])
    BY <2>1, AppendProperties DEF ReadInv, RecvTypes
  <2>3. Len(handled) \in Nat /\ Len(handled) = got - 1 /\ shn_recv = got - 1
    BY <2>1 DEF ReadInv, RecvTypes, ReaderCounts
  <2>4. RecvTypes'
    BY <2>1, <2>2 DEF ReadInv, RecvTypes
  <2>5. ReaderCounts'
    BY <2>1, <2>2, <2>3 DEF ReadInv, RecvTypes, ReaderCounts
  <2>6. HandledIsIntact'
    <3>1. SUFFICES ASSUME NEW i \in 1 .. Len(handled')
                   PROVE  handled'[i] = [no |-> i, nonce |-> i - 1]
      BY DEF HandledIsIntact
    <3>2. CASE i = Len(handled) + 1
      BY <3>2, <2>2, <2>3 DEF ReadInv, RecvTypes
    <3>3. CASE i \in 1 .. Len(handled)
      BY <3>3, <2>2 DEF ReadInv, HandledIsIntact
    <3> QED BY <3>2, <3>3, <2>2, <2>3
  <2> QED BY <1>1, <2>4, <2>5, <2>6 DEF ReadInv
<1> QED BY <1>2, <1>3

LEMMA ReadInvStep == ReadInv /\ [Next]_vars => ReadInv'
<1> SUFFICES ASSUME ReadInv, [Next]_vars
             PROVE  ReadInv'
  OBVIOUS
<1>1. CASE Next
  BY <1>1, WriterStep, ResetStep, ReaderStep DEF Next
<1>2. CASE UNCHANGED vars
  BY <1>2 DEF vars, ReadInv, RecvTypes, ResetIsClosed, ReaderCounts, HandledIsIntact
<1> QED BY <1>1, <1>2

(* packet_read and session_disconnect: every packet given to handle_packet was *)
(* decrypted with its own nonce, in the order the server sent them.            *)
THEOREM OnlyIntactPacketsHandled == Spec => []HandledIsIntact
<1>1. ReadInv => HandledIsIntact
  BY DEF ReadInv
<1> QED BY <1>1, InitReadInv, ReadInvStep, PTL DEF Spec

-----------------------------------------------------------------------------
(* The sending side, with one writer.                                        *)

(* The reader's counter never runs ahead of the packets. *)
RecvBounds ==
    /\ rpc \in {"idle", "nonce", "payload", "increment", "exit"}
    /\ served \in 0 .. MaxReceived /\ got \in 0 .. served
    /\ key_recv_IV <= got
    /\ rpc \in {"nonce", "payload", "increment"} => key_recv_IV < got

LEMMA RecvBoundsStep == RecvTypes /\ RecvBounds /\ [Next]_vars => RecvBounds'
<1> SUFFICES ASSUME RecvTypes, RecvBounds, [Next]_vars PROVE RecvBounds'
  OBVIOUS
<1> USE BoundsAssumption DEF RecvTypes, RecvBounds
<1>1. ASSUME NEW w \in Writers,
             WriteNonce(w) \/ WriteEncrypt(w) \/ WriteFinish(w) \/ WriteSend(w)
               \/ WriteFails(w) \/ WriteIncrement(w) \/ DisconnectClose(w)
      PROVE  RecvBounds'
  <2>1. UNCHANGED recvVars
    BY <1>1 DEF WriteNonce, WriteEncrypt, WriteFinish, WriteSend, WriteFails, WriteIncrement,
                DisconnectClose
  <2> QED BY <2>1 DEF recvVars
<1>2. ASSUME NEW w \in Writers, DisconnectReset(w) PROVE RecvBounds'
  BY <1>2 DEF DisconnectReset
<1>3. CASE ServerSends \/ ReadHeader \/ ReadNonce \/ ReadPayload \/ ReadFails
  BY <1>3 DEF ServerSends, ReadHeader, ReadNonce, ReadPayload, ReadFails
<1>4. CASE ReadIncrement
  BY <1>4 DEF ReadIncrement
<1>5. CASE UNCHANGED vars
  BY <1>5 DEF vars
<1> QED BY <1>1, <1>2, <1>3, <1>4, <1>5 DEF Next

(* The packet that the writer is building, encrypted as the server expects. *)
Fresh == [nonce |-> key_send_IV, skipped |-> 0, mac |-> 0]

(* How much of the current packet is on the wire. *)
Pieces(w) == IF wpc[w] = "send_rest" THEN 1 ELSE IF wpc[w] = "increment" THEN 2 ELSE 0

WirePieces == [by : Writers, part : {"send", "send_rest"}, packet : Cipher]

SendTypes ==
    /\ key_send_IV \in Nat
    /\ shn_send \in [nonce : Nat, used : Nat]
    /\ wpc \in [Writers -> Labels]
    /\ buf \in [Writers -> Cipher]
    /\ written \in 0 .. MaxSent
    /\ wire \in Seq(WirePieces)

(* Between the nonce and the increment nobody else touches the cipher or the *)
(* counter: this is where a second writer breaks it.                         *)
CipherIsMine(w) ==
    /\ key_send_IV <= written
    /\ wpc[w] \in {"encrypt", "finish", "send", "send_rest", "increment"} => key_send_IV < written
    /\ wpc[w] = "encrypt" => shn_send.nonce = key_send_IV /\ shn_send.used = 0
    /\ wpc[w] = "finish" => shn_send.used = 1
    /\ wpc[w] \in {"finish", "send", "send_rest"} => buf[w] = Fresh

(* Two pieces for each packet that is through; nothing once the socket is closed. *)
WireCounts(w) ==
    /\ wpc[w] = "reset" => ~up
    /\ up => Len(wire) = 2 * key_send_IV + Pieces(w)
    /\ up /\ wpc[w] = "send_rest" => wire[Len(wire)].by = w

WireIsReadable ==
    \A i \in 1 .. Len(wire) :
        LET n == (i - 1) \div 2
        IN  /\ wire[i].packet = [nonce |-> n, skipped |-> 0, mac |-> 0]
            /\ wire[i].part = IF i % 2 = 1 THEN "send" ELSE "send_rest"
            /\ i % 2 = 0 => wire[i].by = wire[i - 1].by

SendInv(w) == SendTypes /\ CipherIsMine(w) /\ WireCounts(w) /\ WireIsReadable

(* A step that leaves the sending side alone, but for the socket it may close. *)
LEMMA SendUntouched ==
    ASSUME NEW w \in Writers, SendInv(w), UNCHANGED sendVars, up' => up
    PROVE  SendInv(w)'
<1>1. SendTypes' /\ WireIsReadable' /\ CipherIsMine(w)'
  BY DEF SendInv, SendTypes, WireIsReadable, CipherIsMine, Fresh, sendVars
<1>2. WireCounts(w)'
  BY DEF SendInv, WireCounts, Pieces, sendVars
<1> QED BY <1>1, <1>2 DEF SendInv

(* What reaches the wire next is the right half of the right packet. *)
LEMMA SendKeeps ==
    ASSUME NEW w \in Writers, SendInv(w), WriteSend(w)
    PROVE  SendInv(w)'
<1> DEFINE piece == [by |-> w, part |-> wpc[w], packet |-> buf[w]]
<1>1. /\ wpc[w] \in {"send", "send_rest"} /\ up /\ up' = up
      /\ wire' = Append(wire, piece) /\ piece \in WirePieces
      /\ key_send_IV' = key_send_IV /\ shn_send' = shn_send /\ buf' = buf /\ written' = written
      /\ wpc' = [wpc EXCEPT ![w] = IF wpc[w] = "send" THEN "send_rest" ELSE "increment"]
  BY DEF WriteSend, Goto, SendInv, SendTypes, WirePieces
<1>2. /\ Len(wire') = Len(wire) + 1 /\ wire'[Len(wire) + 1] = piece
      /\ \A i \in 1 .. Len(wire) : wire'[i] = wire[i]
      /\ wire' \in Seq(WirePieces)
  BY <1>1, AppendProperties DEF SendInv, SendTypes
<1>3. SendTypes'
  BY <1>1, <1>2 DEF SendInv, SendTypes, Labels
<1>4. wpc'[w] = IF wpc[w] = "send" THEN "send_rest" ELSE "increment"
  BY <1>1 DEF SendInv, SendTypes
<1>5. CipherIsMine(w)'
  BY <1>1, <1>4 DEF SendInv, CipherIsMine, Fresh
<1>6. WireCounts(w)'
  <2>1. (up => Len(wire) = 2 * key_send_IV + Pieces(w))'
    BY <1>1, <1>2, <1>4 DEF SendInv, SendTypes, WireCounts, Pieces
  <2>2. piece.by = w
    OBVIOUS
  <2>3. wire'[Len(wire')].by = w
    BY <1>2, <2>2
  <2>4. wpc'[w] # "reset"
    BY <1>4
  <2> QED BY <2>1, <2>3, <2>4 DEF WireCounts
<1>7. WireIsReadable'
  <2>1. /\ Len(wire) \in Nat /\ key_send_IV \in Nat
        /\ Len(wire) = 2 * key_send_IV + Pieces(w)
        /\ buf[w] = Fresh
    BY <1>1 DEF SendInv, SendTypes, WireCounts, CipherIsMine
  <2>2. SUFFICES ASSUME NEW i \in 1 .. Len(wire')
                 PROVE  /\ wire'[i].packet = [nonce |-> (i - 1) \div 2, skipped |-> 0, mac |-> 0]
                        /\ wire'[i].part = IF i % 2 = 1 THEN "send" ELSE "send_rest"
                        /\ i % 2 = 0 => wire'[i].by = wire'[i - 1].by
    BY DEF WireIsReadable
  <2>3. CASE i \in 1 .. Len(wire)
    <3>1. i - 1 \in 1 .. Len(wire) \/ i = 1
      BY <2>1, <2>3
    <3>2. wire'[i] = wire[i] /\ (i % 2 = 0 => wire'[i - 1] = wire[i - 1])
      BY <1>2, <2>3, <3>1
    <3> QED BY <2>3, <3>2 DEF SendInv, WireIsReadable
  <2>4. CASE i = Len(wire) + 1 /\ wpc[w] = "send"
    <3>1. i = 2 * key_send_IV + 1 /\ wire'[i] = piece
      BY <1>2, <2>1, <2>4 DEF Pieces
    <3>2. (i - 1) \div 2 = key_send_IV /\ i % 2 = 1
      BY <2>1, <3>1
    <3>3. piece.packet = Fresh /\ piece.part = "send"
      BY <2>1, <2>4
    <3>4. [nonce |-> (i - 1) \div 2, skipped |-> 0, mac |-> 0] = Fresh
      BY <2>1, <3>2 DEF Fresh
    <3>5. wire'[i].packet = Fresh /\ wire'[i].part = "send"
      BY <3>1, <3>3
    <3> QED BY <3>2, <3>4, <3>5
  <2>5. CASE i = Len(wire) + 1 /\ wpc[w] = "send_rest"
    <3>1. i = 2 * key_send_IV + 2 /\ wire'[i] = piece
      BY <1>2, <2>1, <2>5 DEF Pieces
    <3>2. (i - 1) \div 2 = key_send_IV /\ i % 2 = 0
      BY <2>1, <3>1
    <3>3. wire'[i - 1].by = w
      <4>1. i - 1 = Len(wire) /\ i - 1 \in 1 .. Len(wire)
        BY <2>1, <2>5, <3>1
      <4>2. wire[Len(wire)].by = w
        BY <1>1, <2>5 DEF SendInv, WireCounts
      <4> QED BY <1>2, <4>1, <4>2
    <3>4. piece.packet = Fresh /\ piece.part = "send_rest" /\ piece.by = w
      BY <2>1, <2>5
    <3>5. [nonce |-> (i - 1) \div 2, skipped |-> 0, mac |-> 0] = Fresh
      BY <2>1, <3>2 DEF Fresh
    <3>6. wire'[i].packet = Fresh /\ wire'[i].part = "send_rest" /\ wire'[i].by = w
      BY <3>1, <3>4
    <3> QED BY <3>2, <3>3, <3>5, <3>6
  <2> QED BY <1>1, <1>2, <2>1, <2>3, <2>4, <2>5
<1> QED BY <1>3, <1>5, <1>6, <1>7 DEF SendInv

(* What a writer keeps as long as it steps alone. *)
LEMMA WriterKeepsSendInv ==
    ASSUME NEW w \in Writers, SendInv(w),
           \/ WriteNonce(w) \/ WriteEncrypt(w) \/ WriteFinish(w) \/ WriteSend(w)
           \/ WriteFails(w) \/ WriteIncrement(w) \/ DisconnectClose(w) \/ DisconnectReset(w)
    PROVE  SendInv(w)'
<1> USE BoundsAssumption
<1>1. CASE WriteNonce(w)
  <2>1. SendTypes' /\ CipherIsMine(w)'
    BY <1>1 DEF WriteNonce, Goto, SendInv, SendTypes, CipherIsMine, Labels
  <2>2. WireCounts(w)' /\ WireIsReadable'
    BY <1>1 DEF WriteNonce, Goto, SendInv, SendTypes, WireCounts, WireIsReadable, Pieces
  <2> QED BY <2>1, <2>2 DEF SendInv
<1>2. CASE WriteEncrypt(w)
  <2>1. SendTypes' /\ CipherIsMine(w)'
    BY <1>2 DEF WriteEncrypt, Goto, SendInv, SendTypes, CipherIsMine, Fresh, Cipher, Labels
  <2>2. WireCounts(w)' /\ WireIsReadable'
    BY <1>2 DEF WriteEncrypt, Goto, SendInv, SendTypes, WireCounts, WireIsReadable, Pieces
  <2> QED BY <2>1, <2>2 DEF SendInv
<1>3. CASE WriteFinish(w)
  <2>1. SendTypes' /\ CipherIsMine(w)'
    BY <1>3 DEF WriteFinish, Goto, SendInv, SendTypes, CipherIsMine, Fresh, Cipher, Labels
  <2>2. WireCounts(w)' /\ WireIsReadable'
    BY <1>3 DEF WriteFinish, Goto, SendInv, SendTypes, WireCounts, WireIsReadable, Pieces
  <2> QED BY <2>1, <2>2 DEF SendInv
<1>4. CASE WriteSend(w)
  BY <1>4, SendKeeps
<1>5. CASE WriteFails(w)
  BY <1>5 DEF WriteFails, Goto, SendInv, SendTypes, CipherIsMine, WireCounts, WireIsReadable,
              Labels
<1>6. CASE WriteIncrement(w)
  BY <1>6 DEF WriteIncrement, Goto, SendInv, SendTypes, CipherIsMine, WireCounts,
              WireIsReadable, Pieces, Labels
<1>7. CASE DisconnectClose(w)
  BY <1>7 DEF DisconnectClose, Goto, SendInv, SendTypes, CipherIsMine, WireCounts,
              WireIsReadable, Labels
<1>8. CASE DisconnectReset(w)
  BY <1>8 DEF DisconnectReset, Goto, SendInv, SendTypes, CipherIsMine, WireCounts,
              WireIsReadable, Labels
<1> QED BY <1>1, <1>2, <1>3, <1>4, <1>5, <1>6, <1>7, <1>8

Solo(w) == \A v \in Writers : Writing(v) => v = w

(* What one writer keeps is kept from each writer that is alone. *)
LockedSendInv ==
    /\ SendTypes
    /\ \A w \in Writers : Solo(w) => SendInv(w)

(* A writer that steps is alone, and the others stay where they are. *)
LEMMA WritesAlone ==
    ASSUME NEW w \in Writers, SendTypes, OneWriting, OneWriting',
           \/ WriteNonce(w) \/ WriteEncrypt(w) \/ WriteFinish(w) \/ WriteSend(w)
           \/ WriteFails(w) \/ WriteIncrement(w) \/ DisconnectClose(w) \/ DisconnectReset(w)
    PROVE  Solo(w) /\ \A v \in Writers : v # w => wpc'[v] = wpc[v]
<1>1. /\ \A v \in Writers : v # w => wpc'[v] = wpc[v]
      /\ Writing(w) \/ Writing(w)'
  BY DEF WriteNonce, WriteEncrypt, WriteFinish, WriteSend, WriteFails, WriteIncrement,
         DisconnectClose, DisconnectReset, Goto, SendTypes, Writing
<1>2. \A v \in Writers : v # w => (Writing(v) <=> Writing(v)')
  BY <1>1 DEF Writing
<1> QED BY <1>1, <1>2 DEF Solo, OneWriting

(* Between two packets what holds of one writer holds of another. *)
LEMMA AnyWriter ==
    ASSUME NEW w \in Writers, NEW v \in Writers, SendInv(w)', ~Writing(w)', ~Writing(v)'
    PROVE  SendInv(v)'
BY DEF SendInv, CipherIsMine, WireCounts, Pieces, Writing

LEMMA LockedSendStep ==
    ASSUME LockedSendInv, OneWriting, OneWriting', [Next]_vars
    PROVE  LockedSendInv'
<1>1. ASSUME NEW w \in Writers,
             \/ WriteNonce(w) \/ WriteEncrypt(w) \/ WriteFinish(w) \/ WriteSend(w)
             \/ WriteFails(w) \/ WriteIncrement(w) \/ DisconnectClose(w) \/ DisconnectReset(w)
      PROVE  LockedSendInv'
  <2>1. Solo(w) /\ \A v \in Writers : v # w => wpc'[v] = wpc[v]
    BY <1>1, WritesAlone DEF LockedSendInv
  <2>2. SendInv(w)'
    BY <1>1, <2>1, WriterKeepsSendInv DEF LockedSendInv
  <2>3. ASSUME NEW v \in Writers, Solo(v)' PROVE SendInv(v)'
    <3>1. CASE v = w
      BY <2>2, <3>1
    <3>2. CASE v # w
      <4>1. ~Writing(w)' /\ ~Writing(v)'
        BY <2>1, <2>3, <3>2 DEF Solo, Writing
      <4> QED BY <2>2, <4>1, AnyWriter
    <3> QED BY <3>1, <3>2
  <2> QED BY <2>2, <2>3 DEF LockedSendInv, SendInv
<1>2. CASE \/ ServerSends \/ ReadHeader \/ ReadNonce \/ ReadPayload \/ ReadIncrement
           \/ ReadFails \/ UNCHANGED vars
  <2>1. UNCHANGED sendVars /\ up' = up
    BY <1>2 DEF ServerSends, ReadHeader, ReadNonce, ReadPayload, ReadIncrement, ReadFails,
                vars, sendVars
  <2>2. wpc' = wpc /\ SendTypes'
    BY <2>1 DEF sendVars, LockedSendInv, SendTypes
  <2>3. ASSUME NEW w \in Writers, Solo(w)' PROVE SendInv(w)'
    <3>1. SendInv(w)
      BY <2>2, <2>3 DEF Solo, Writing, LockedSendInv
    <3> QED BY <2>1, <3>1, SendUntouched
  <2> QED BY <2>2, <2>3 DEF LockedSendInv
<1> QED BY <1>1, <1>2 DEF Next

(* Some writer can say what is on the wire. *)
LEMMA SomeoneSolo ==
    ASSUME Writers # {}, OneWriting
    PROVE  \E w \in Writers : Solo(w)
<1>1. CASE \E w \in Writers : Writing(w)
  BY <1>1 DEF OneWriting, Solo
<1>2. CASE ~\E w \in Writers : Writing(w)
  BY <1>2 DEF Solo
<1> QED BY <1>1, <1>2

(* The socket is open or closed. *)
SocketType == up \in BOOLEAN

LEMMA SocketStep == SocketType /\ [Next]_vars => SocketType'
BY Zenon
DEF SocketType, Next, vars, WriteNonce, WriteEncrypt, WriteFinish, WriteSend, WriteFails, WriteIncrement,
    DisconnectClose, DisconnectReset, ServerSends, ReadHeader, ReadNonce, ReadPayload,
    ReadIncrement, ReadFails

(* With any number of threads that write and disconnect one at a time, as a    *)
(* lock around packet_write and session_disconnect would have it, the server   *)
(* can decrypt every packet it gets: it arrives in one piece, from the start   *)
(* of its own key stream, whatever fails and whenever the connection is        *)
(* closed; and every variable has its type.  The code calls packet_write from  *)
(* three threads and has no such lock.                                         *)
THEOREM LockedWritersAreDecrypted ==
    ASSUME Writers # {}
    PROVE  Spec /\ []OneWriting => []ServerDecrypts
<1>1. Init => ReadInv /\ RecvBounds /\ LockedSendInv
  <2> SUFFICES ASSUME Init PROVE ReadInv /\ RecvBounds /\ LockedSendInv
    OBVIOUS
  <2>1. RecvBounds
    BY BoundsAssumption DEF Init, RecvBounds
  <2>2. SendTypes /\ \A w \in Writers : SendInv(w)
    BY BoundsAssumption DEF Init, SendInv, SendTypes, CipherIsMine, WireCounts, WireIsReadable,
                            Pieces, Cipher, Labels
  <2> QED BY <2>1, <2>2, InitReadInv DEF LockedSendInv
<1>2. Init => SocketType
  BY Zenon DEF Init, SocketType
<1>3. ReadInv /\ RecvBounds /\ LockedSendInv /\ SocketType /\ OneWriting => ServerDecrypts
  <2> SUFFICES ASSUME ReadInv, RecvBounds, LockedSendInv, SocketType, OneWriting
               PROVE  ServerDecrypts
    OBVIOUS
  <2>0. PICK w \in Writers : SendInv(w)
    BY SomeoneSolo DEF LockedSendInv
  <2>1. key_send_IV \in 0 .. MaxSent /\ key_recv_IV \in 0 .. MaxReceived
        /\ got \in 0 .. MaxReceived /\ served \in 0 .. MaxReceived
    BY <2>0, BoundsAssumption
    DEF ReadInv, RecvTypes, RecvBounds, SendInv, SendTypes, CipherIsMine
  <2>2. TypeOK
    BY <2>0, <2>1
    DEF TypeOK, SocketType, ReadInv, RecvTypes, RecvBounds, SendInv, SendTypes, WirePieces
  <2> QED BY <2>0, <2>2 DEF ServerDecrypts, SendInv, WireIsReadable
<1>4. ReadInv => RecvTypes
  BY DEF ReadInv
<1>5. LockedSendInv /\ OneWriting /\ OneWriting' /\ [Next]_vars => LockedSendInv'
  BY LockedSendStep
<1> QED
  BY <1>1, <1>2, <1>3, <1>4, <1>5, ReadInvStep, RecvBoundsStep, SocketStep, PTL DEF Spec

(* The same of one thread that writes. *)
COROLLARY OneWriterIsDecrypted ==
    ASSUME NEW w, Writers = {w}
    PROVE  Spec => []ServerDecrypts
<1>1. OneWriting
  BY DEF OneWriting
<1>2. Writers # {}
  OBVIOUS
<1>3. []OneWriting
  BY <1>1, PTL
<1> QED BY <1>2, <1>3, LockedWritersAreDecrypted, PTL

-----------------------------------------------------------------------------
(* The life of a session. *)

(* The labels of despotify_authenticate up to its return. *)
Authenticating == {"idle", "connect", "send_initial", "read_initial", "key_init", "auth",
                   "create", "lock", "wait", "woken", "in"}

(* A packet that waits to be handled is not answered yet: the reason why the  *)
(* handlers write no more replies than the server sent packets.               *)
Unanswered == IF inbox = "nothing" THEN 0 ELSE 1

(* The thread that is joined has ended, and only then is the session freed. *)
LifeInv ==
    /\ LoginTypeOK
    /\ replies + Unanswered <= packets
    /\ freed => caller = "done"
    /\ caller \in {"destroy", "done"} => thread = "ended"

(* A step of despotify_authenticate before its wait leaves the network thread *)
(* alone.                                                                     *)
LEMMA CallerKeepsLife ==
    ASSUME LifeInv, UNCHANGED <<netVars, cancelled, freed>>,
           caller # "done", caller' \in CallerLabels \ {"destroy", "done"},
           refused' \in Statuses \union {0},
           connection' \in {"none", "open", "broken", "closed"}
    PROVE  LifeInv'
BY DEF LifeInv, LoginTypeOK, Unanswered, netVars

LEMMA LifeStep ==
    ASSUME LifeInv, [LoginNext]_loginVars
    PROVE  LifeInv'
<1>0. /\ refused \in Statuses \union {0}
      /\ connection \in {"none", "open", "broken", "closed"}
      /\ \A status \in Statuses : status \in Statuses \union {0}
  BY DEF LifeInv, LoginTypeOK
<1>1. CASE Authenticate
  BY <1>0, <1>1, CallerKeepsLife DEF Authenticate, Step, netVars, CallerLabels
<1>2. CASE session_connect
  BY <1>0, <1>2, CallerKeepsLife DEF session_connect, Fail, netVars, CallerLabels
<1>3. CASE send_client_initial_packet
  BY <1>0, <1>3, CallerKeepsLife DEF send_client_initial_packet, Step, Fail, netVars, CallerLabels
<1>4. CASE read_server_initial_packet
  BY <1>0, <1>4, CallerKeepsLife DEF read_server_initial_packet, Step, Fail, netVars, CallerLabels
<1>5. CASE key_init
  BY <1>0, <1>5, CallerKeepsLife DEF key_init, Step, Fail, netVars, CallerLabels
<1>6. CASE do_auth
  BY <1>0, <1>6, CallerKeepsLife DEF do_auth, Step, Fail, netVars, CallerLabels
<1> USE DEF LifeInv, LoginTypeOK, Unanswered, CallerLabels
<1>7. CASE pthread_create
  BY <1>7 DEF pthread_create
<1>8. CASE WaitForLogin
  BY <1>8 DEF WaitForLogin, Step, netVars
<1>9. CASE LoggedIn \/ SpuriousWakeup
  BY <1>9 DEF LoggedIn, SpuriousWakeup, Step, netVars
<1>10. CASE Exit
  BY <1>10 DEF Exit, netVars
<1>11. CASE Cancel
  BY <1>11 DEF Cancel, netVars
<1>12. CASE Join
  BY <1>12 DEF Join, Step, netVars
<1>13. CASE Destroy
  BY <1>13 DEF Destroy, netVars
<1>14. CASE PacketArrives
  BY <1>14, MaxPacketsAssumption DEF PacketArrives
<1>15. CASE Break
  BY <1>15 DEF Break, netVars
<1>16. CASE HandlePacket
  <2>1. /\ welcomed' \in BOOLEAN
        /\ welcomed => welcomed'
        /\ inbox = "WELCOME" => welcomed'
    BY <1>16, Zenon DEF HandlePacket
  <2>2. /\ replies' + Unanswered' <= packets'
        /\ replies' \in 0 .. packets'
    BY <1>16 DEF HandlePacket
  <2> QED BY <1>16, <2>1, <2>2 DEF HandlePacket
<1>17. CASE NetThreadEnds
  BY <1>17 DEF NetThreadEnds
<1>18. CASE UNCHANGED loginVars
  BY <1>18 DEF loginVars
<1> QED
  BY <1>1, <1>2, <1>3, <1>4, <1>5, <1>6, <1>7, <1>8, <1>9, <1>10, <1>11, <1>12, <1>13,
     <1>14, <1>15, <1>16, <1>17, <1>18
  DEF LoginNext, CallerStep, NetStep

LEMMA LifeInvariant == LoginSpec => []LifeInv
<1>1. LoginInit => LifeInv
  <2> SUFFICES ASSUME LoginInit PROVE LifeInv
    OBVIOUS
  <2>1. cancelled \in BOOLEAN /\ welcomed \in BOOLEAN /\ freed \in BOOLEAN /\ ~freed
    BY Zenon DEF LoginInit
  <2>2. replies + Unanswered <= packets /\ packets \in 0 .. MaxPackets /\ replies \in 0 .. packets
    <3>1. replies = 0 /\ packets = 0 /\ inbox = "nothing"
      BY Zenon DEF LoginInit
    <3> QED BY <3>1, MaxPacketsAssumption DEF Unanswered
  <2> QED BY <2>1, <2>2 DEF LoginInit, LifeInv, LoginTypeOK, CallerLabels
<1> QED BY <1>1, LifeStep, PTL DEF LoginSpec

(* despotify_exit frees the session only after the network thread has ended, *)
(* whether cancellation, the disconnect or a broken connection ended it; and *)
(* every variable keeps its type, the replies bounded by the packets.        *)
THEOREM SessionOutlivesThread == LoginSpec => []ThreadGoneWhenFreed
<1>1. LifeInv => ThreadGoneWhenFreed
  BY DEF LifeInv, ThreadGoneWhenFreed
<1> QED BY <1>1, LifeInvariant, PTL

-----------------------------------------------------------------------------
(* The reasons of a refusal. *)

(* Nothing is reported before despotify_authenticate fails. *)
RefusalInv ==
    /\ caller \in Authenticating => refused = 0 /\ last_error = ""
    /\ RefusalIsTold

(* The errors that are not the server's refusal. *)
OwnErrors == {"Could not connect", "Key exchange failed", "Key computation failed",
              "Authentication failed"}

(* The two switches, of read_server_initial_packet and of                     *)
(* despotify_authenticate, together give each status byte its own message.    *)
LEMMA EachStatusItsMessage ==
    /\ ExchangeError(InitialError(1)) = "Client upgrade required"
    /\ ExchangeError(InitialError(3)) = "User not found"
    /\ ExchangeError(InitialError(4)) = "Account has been disabled"
    /\ ExchangeError(InitialError(6)) = "Account details incomplete"
    /\ ExchangeError(InitialError(9)) = "Country mismatch"
    /\ ExchangeError(InitialError(7)) = "Key exchange failed"
    /\ ExchangeError(-90) = "Key exchange failed"
BY DEF ExchangeError, InitialError

(* A step that fails for a reason of the client's own keeps the invariant. *)
LEMMA FailKeepsRefusal ==
    ASSUME RefusalInv, NEW from \in Authenticating, NEW error \in OwnErrors, Fail(from, error)
    PROVE  RefusalInv'
<1>1. /\ caller' = "failed"
      /\ refused' = 0
      /\ last_error' \in OwnErrors
  BY DEF Fail, RefusalInv
<1>2. RefusalIsTold'
  <2> DEFINE reasons == [s \in {1, 3, 4, 6, 9} |->
                  CASE s = 1 -> "Client upgrade required" [] s = 3 -> "User not found"
                    [] s = 4 -> "Account has been disabled"
                    [] s = 6 -> "Account details incomplete" [] s = 9 -> "Country mismatch"]
  <2> DEFINE told == {"Client upgrade required", "User not found",
                      "Account has been disabled", "Account details incomplete",
                      "Country mismatch"}
  <2>1. \A s \in {1, 3, 4, 6, 9} : reasons[s] \in told
    OBVIOUS
  <2>2. last_error' \notin told
    BY <1>1 DEF OwnErrors
  <2>3. \A s \in {1, 3, 4, 6, 9} : refused' # s
    BY <1>1
  <2>4. ASSUME NEW s \in {1, 3, 4, 6, 9} PROVE last_error' # reasons[s]
    <3> HIDE DEF reasons, told
    <3> QED BY <2>1, <2>2
  <2> QED BY <2>3, <2>4 DEF RefusalIsTold
<1> QED BY <1>1, <1>2 DEF RefusalInv, Authenticating

(* A step that reports nothing and does not fail keeps it. *)
LEMMA QuietKeepsRefusal ==
    ASSUME RefusalInv, UNCHANGED <<refused, last_error>>,
           caller' = "failed" => caller = "failed",
           caller' \in Authenticating => caller \in Authenticating
    PROVE  RefusalInv'
BY DEF RefusalInv, RefusalIsTold

(* The server refuses. *)
LEMMA RefusalKeepsRefusal ==
    ASSUME RefusalInv, NEW status \in Statuses,
           refused' = status, last_error' = ExchangeError(InitialError(status)),
           caller' = "failed"
    PROVE  RefusalInv'
<1>1. RefusalIsTold'
  <2> DEFINE reasons == [s \in {1, 3, 4, 6, 9} |->
                  CASE s = 1 -> "Client upgrade required" [] s = 3 -> "User not found"
                    [] s = 4 -> "Account has been disabled"
                    [] s = 6 -> "Account details incomplete" [] s = 9 -> "Country mismatch"]
  <2>1. \A s \in {1, 3, 4, 6, 9} : status = s <=> last_error' = reasons[s]
    <3>1. \/ status = 1 /\ last_error' = "Client upgrade required"
          \/ status = 3 /\ last_error' = "User not found"
          \/ status = 4 /\ last_error' = "Account has been disabled"
          \/ status = 6 /\ last_error' = "Account details incomplete"
          \/ status = 9 /\ last_error' = "Country mismatch"
          \/ status = 7 /\ last_error' = "Key exchange failed"
      BY EachStatusItsMessage DEF Statuses
    <3>2. /\ reasons[1] = "Client upgrade required" /\ reasons[3] = "User not found"
          /\ reasons[4] = "Account has been disabled"
          /\ reasons[6] = "Account details incomplete" /\ reasons[9] = "Country mismatch"
      OBVIOUS
    <3> HIDE DEF reasons
    <3>3. /\ (status = 1 => last_error' = "Client upgrade required")
          /\ (status = 3 => last_error' = "User not found")
          /\ (status = 4 => last_error' = "Account has been disabled")
          /\ (status = 6 => last_error' = "Account details incomplete")
          /\ (status = 9 => last_error' = "Country mismatch")
      BY EachStatusItsMessage, Zenon
    <3>4. /\ (last_error' = "Client upgrade required" => status = 1)
          /\ (last_error' = "User not found" => status = 3)
          /\ (last_error' = "Account has been disabled" => status = 4)
          /\ (last_error' = "Account details incomplete" => status = 6)
          /\ (last_error' = "Country mismatch" => status = 9)
      BY <3>1, Zenon
    <3>5. /\ status = 1 <=> last_error' = reasons[1]
          /\ status = 3 <=> last_error' = reasons[3]
          /\ status = 4 <=> last_error' = reasons[4]
          /\ status = 6 <=> last_error' = reasons[6]
          /\ status = 9 <=> last_error' = reasons[9]
      BY <3>2, <3>3, <3>4, Zenon
    <3> QED
      BY <3>5
  <2> QED BY <2>1 DEF RefusalIsTold
<1> QED BY <1>1 DEF RefusalInv, Authenticating

LEMMA RefusalStep == RefusalInv /\ [LoginNext]_loginVars => RefusalInv'
<1> SUFFICES ASSUME RefusalInv, [LoginNext]_loginVars PROVE RefusalInv'
  OBVIOUS
<1>1. CASE Authenticate
  BY <1>1, QuietKeepsRefusal DEF Authenticate, Step, Authenticating
<1>2. CASE session_connect
  BY <1>2, QuietKeepsRefusal, FailKeepsRefusal
  DEF session_connect, OwnErrors, Authenticating
<1>3. CASE send_client_initial_packet
  BY <1>3, QuietKeepsRefusal, FailKeepsRefusal
  DEF send_client_initial_packet, Step, OwnErrors, Authenticating
<1>4. CASE read_server_initial_packet
  BY <1>4, QuietKeepsRefusal, FailKeepsRefusal, RefusalKeepsRefusal, EachStatusItsMessage
  DEF read_server_initial_packet, Step, OwnErrors, Authenticating
<1>5. CASE key_init
  BY <1>5, QuietKeepsRefusal, FailKeepsRefusal DEF key_init, Step, OwnErrors, Authenticating
<1>6. CASE do_auth
  BY <1>6, QuietKeepsRefusal, FailKeepsRefusal DEF do_auth, Step, OwnErrors, Authenticating
<1>7. CASE pthread_create \/ WaitForLogin \/ SpuriousWakeup \/ LoggedIn
  BY <1>7, QuietKeepsRefusal
  DEF pthread_create, WaitForLogin, SpuriousWakeup, LoggedIn, Step, Authenticating
<1>8. CASE Exit \/ Cancel \/ Join \/ Destroy
  BY <1>8, QuietKeepsRefusal DEF Exit, Cancel, Join, Destroy, Step, Authenticating
<1>9. CASE PacketArrives \/ Break \/ NetThreadEnds
  BY <1>9, QuietKeepsRefusal DEF PacketArrives, Break, NetThreadEnds
<1>10. CASE HandlePacket
  BY <1>10, QuietKeepsRefusal DEF HandlePacket, Authenticating
<1>11. CASE UNCHANGED loginVars
  BY <1>11, QuietKeepsRefusal DEF loginVars
<1> QED
  BY <1>1, <1>2, <1>3, <1>4, <1>5, <1>6, <1>7, <1>8, <1>9, <1>10, <1>11
  DEF LoginNext, CallerStep, NetStep

(* A failed login carries the server's reason exactly when the server refused  *)
(* it for that reason: never a reason that was not given, never another one.   *)
THEOREM RefusalsAreTold == LoginSpec => []RefusalIsTold
<1>1. LoginInit => RefusalInv
  BY DEF LoginInit, RefusalInv, RefusalIsTold
<1>2. RefusalInv => RefusalIsTold
  BY DEF RefusalInv
<1> QED BY <1>1, <1>2, RefusalStep, PTL DEF LoginSpec

-----------------------------------------------------------------------------
(* The channel list *)

(* s enumerates, from hd on, a list without repetitions whose last next field *)
(* is NULL.                                                                   *)
Follows(n, s, hd, nx) ==
    /\ \A i, j \in 1 .. n : s[i] = s[j] => i = j
    /\ hd = IF n = 0 THEN Null ELSE s[1]
    /\ \A i \in 1 .. n : nx[s[i]] = IF i = n THEN Null ELSE s[i + 1]

(* The structs of the list from hd are those of N. *)
ListIs(N, hd, nx) ==
    \E n \in Nat : \E s \in [1 .. n -> Node] :
        Follows(n, s, hd, nx) /\ N = {s[i] : i \in 1 .. n}

(* head is NULL at first. *)
LEMMA EmptyList == ASSUME NEW nx PROVE ListIs({}, Null, nx)
<1> DEFINE s == [i \in 1 .. 0 |-> Null]
<1>1. s \in [1 .. 0 -> Node] /\ {s[i] : i \in 1 .. 0} = {}
  OBVIOUS
<1>2. Follows(0, s, Null, nx)
  BY DEF Follows
<1> QED BY <1>1, <1>2 DEF ListIs

(* Only the next fields of the list matter. *)
LEMMA OtherFields ==
    ASSUME NEW N, NEW hd, NEW nx, NEW new, ListIs(N, hd, nx),
           \A y \in N : new[y] = nx[y]
    PROVE  ListIs(N, hd, new)
<1>1. PICK n \in Nat : \E s \in [1 .. n -> Node] :
          Follows(n, s, hd, nx) /\ N = {s[i] : i \in 1 .. n}
  BY DEF ListIs
<1>2. PICK s \in [1 .. n -> Node] : Follows(n, s, hd, nx) /\ N = {s[i] : i \in 1 .. n}
  BY <1>1
<1>3. Follows(n, s, hd, new)
  BY <1>2 DEF Follows
<1> QED BY <1>2, <1>3 DEF ListIs

(* head = ch, after ch->next = head: ch is in front of the list. *)
LEMMA PushFront ==
    ASSUME NEW N, NEW hd, NEW nx, ListIs(N, hd, nx),
           NEW x \in Node, x \notin N, nx[x] = hd
    PROVE  ListIs(N \union {x}, x, nx)
<1>1. PICK n \in Nat : \E s \in [1 .. n -> Node] :
          Follows(n, s, hd, nx) /\ N = {s[i] : i \in 1 .. n}
  BY DEF ListIs
<1>2. PICK s \in [1 .. n -> Node] : Follows(n, s, hd, nx) /\ N = {s[i] : i \in 1 .. n}
  BY <1>1
<1> DEFINE m == n + 1
           r == [i \in 1 .. m |-> IF i = 1 THEN x ELSE s[i - 1]]
<1>3. m \in Nat /\ r \in [1 .. m -> Node] /\ r[1] = x
  OBVIOUS
<1>4. \A i \in 1 .. n : i + 1 \in 1 .. m /\ r[i + 1] = s[i]
  OBVIOUS
<1>5. \A i \in 1 .. m : i = 1 \/ (i - 1 \in 1 .. n /\ r[i] = s[i - 1])
  OBVIOUS
<1> HIDE DEF r
<1>6. N \union {x} = {r[i] : i \in 1 .. m}
  BY <1>2, <1>3, <1>4, <1>5
<1>7. \A i, j \in 1 .. m : r[i] = r[j] => i = j
  <2> SUFFICES ASSUME NEW i \in 1 .. m, NEW j \in 1 .. m, r[i] = r[j] PROVE i = j
    OBVIOUS
  <2>1. \A k \in 1 .. n : s[k] # x
    BY <1>2
  <2>2. \A k, l \in 1 .. n : s[k] = s[l] => k = l
    BY <1>2 DEF Follows
  <2> QED BY <2>1, <2>2, <1>3, <1>5
<1>8. \A i \in 1 .. m : nx[r[i]] = IF i = m THEN Null ELSE r[i + 1]
  <2> SUFFICES ASSUME NEW i \in 1 .. m PROVE nx[r[i]] = IF i = m THEN Null ELSE r[i + 1]
    OBVIOUS
  <2>1. hd = (IF n = 0 THEN Null ELSE s[1])
        /\ \A k \in 1 .. n : nx[s[k]] = IF k = n THEN Null ELSE s[k + 1]
    BY <1>2 DEF Follows
  <2>2. CASE i = 1
    <3>1. nx[r[i]] = hd
      BY <2>2, <1>3
    <3>2. n # 0 => r[2] = s[1]
      BY <1>4
    <3> QED BY <2>1, <2>2, <3>1, <3>2
  <2>3. CASE i # 1
    <3>1. i - 1 \in 1 .. n /\ r[i] = s[i - 1]
      BY <1>5, <2>3
    <3>2. i # m => r[i + 1] = s[i]
      BY <1>4, <2>3
    <3> QED BY <2>1, <3>1, <3>2
  <2> QED BY <2>2, <2>3
<1>9. Follows(m, r, x, nx)
  BY <1>3, <1>7, <1>8 DEF Follows
<1> QED BY <1>3, <1>6, <1>9 DEF ListIs

(* head = head->next *)
LEMMA PopFront ==
    ASSUME NEW N, NEW hd, NEW nx, ListIs(N, hd, nx), hd \in N
    PROVE  ListIs(N \ {hd}, nx[hd], nx)
<1>1. PICK n \in Nat : \E s \in [1 .. n -> Node] :
          Follows(n, s, hd, nx) /\ N = {s[i] : i \in 1 .. n}
  BY DEF ListIs
<1>2. PICK s \in [1 .. n -> Node] : Follows(n, s, hd, nx) /\ N = {s[i] : i \in 1 .. n}
  BY <1>1
<1>3. n # 0
  BY <1>2
<1>4. /\ \A i, j \in 1 .. n : s[i] = s[j] => i = j
      /\ hd = s[1]
      /\ \A k \in 1 .. n : nx[s[k]] = IF k = n THEN Null ELSE s[k + 1]
  BY <1>2, <1>3 DEF Follows
<1> DEFINE m == n - 1
           r == [i \in 1 .. m |-> s[i + 1]]
<1>5. /\ m \in Nat /\ r \in [1 .. m -> Node]
      /\ \A i \in 1 .. m : i + 1 \in 1 .. n /\ r[i] = s[i + 1]
      /\ \A i \in 1 .. n : i = 1 \/ (i - 1 \in 1 .. m /\ r[i - 1] = s[i])
  BY <1>3
<1> HIDE DEF r
<1>6. N \ {hd} = {r[i] : i \in 1 .. m}
  <2>1. \A i \in 1 .. m : r[i] \in N /\ r[i] # hd
    BY <1>2, <1>3, <1>4, <1>5
  <2>2. \A y \in N \ {hd} : \E i \in 1 .. m : y = r[i]
    BY <1>2, <1>4, <1>5
  <2> QED BY <2>1, <2>2
<1>7. \A i, j \in 1 .. m : r[i] = r[j] => i = j
  BY <1>4, <1>5
<1>8. \A i \in 1 .. m : nx[r[i]] = IF i = m THEN Null ELSE r[i + 1]
  <2> SUFFICES ASSUME NEW i \in 1 .. m PROVE nx[r[i]] = IF i = m THEN Null ELSE r[i + 1]
    OBVIOUS
  <2>1. nx[r[i]] = IF i + 1 = n THEN Null ELSE s[(i + 1) + 1]
    BY <1>4, <1>5
  <2>2. i # m => r[i + 1] = s[(i + 1) + 1]
    BY <1>5
  <2> QED BY <2>1, <2>2
<1>9. nx[hd] = IF m = 0 THEN Null ELSE r[1]
  <2>1. nx[hd] = IF 1 = n THEN Null ELSE s[1 + 1]
    BY <1>3, <1>4
  <2>2. m # 0 => r[1] = s[1 + 1]
    BY <1>5
  <2> QED BY <2>1, <2>2
<1>10. Follows(m, r, nx[hd], nx)
  BY <1>7, <1>8, <1>9 DEF Follows
<1> QED BY <1>5, <1>6, <1>10 DEF ListIs

(* A channel of the list that is not at head has one predecessor. *)
LEMMA Predecessor ==
    ASSUME NEW N, NEW hd, NEW nx, ListIs(N, hd, nx), NEW x \in N, x # hd
    PROVE  \E y \in N : nx[y] = x
<1>1. PICK n \in Nat : \E s \in [1 .. n -> Node] :
          Follows(n, s, hd, nx) /\ N = {s[i] : i \in 1 .. n}
  BY DEF ListIs
<1>2. PICK s \in [1 .. n -> Node] : Follows(n, s, hd, nx) /\ N = {s[i] : i \in 1 .. n}
  BY <1>1
<1>3. PICK i \in 1 .. n : x = s[i]
  BY <1>2
<1>4. i # 1
  BY <1>2, <1>3 DEF Follows
<1>5. i - 1 \in 1 .. n /\ i - 1 # n /\ (i - 1) + 1 = i
  BY <1>4
<1>6. nx[s[i - 1]] = x
  BY <1>2, <1>3, <1>5 DEF Follows
<1> QED BY <1>2, <1>5, <1>6

(* tmp->next = ch->next: the list goes from the predecessor y of x to what *)
(* follows x.                                                              *)
LEMMA CutOut ==
    ASSUME NEW N, NEW hd, NEW nx, ListIs(N, hd, nx),
           NEW x \in N, NEW y \in N, nx[y] = x,
           NEW new, new[y] = nx[x], \A z \in N : z # y => new[z] = nx[z]
    PROVE  ListIs(N \ {x}, hd, new)
<1>1. PICK n \in Nat : \E s \in [1 .. n -> Node] :
          Follows(n, s, hd, nx) /\ N = {s[i] : i \in 1 .. n}
  BY DEF ListIs
<1>2. PICK s \in [1 .. n -> Node] : Follows(n, s, hd, nx) /\ N = {s[i] : i \in 1 .. n}
  BY <1>1
<1>3. /\ \A i, j \in 1 .. n : s[i] = s[j] => i = j
      /\ hd = IF n = 0 THEN Null ELSE s[1]
      /\ \A i \in 1 .. n : nx[s[i]] = IF i = n THEN Null ELSE s[i + 1]
      /\ \A i \in 1 .. n : s[i] \in Node /\ s[i] # Null
  BY <1>2, NullAssumption DEF Follows
<1>4. PICK p \in 1 .. n : y = s[p]
  BY <1>2
<1>5. p # n /\ p + 1 \in 1 .. n /\ x = s[p + 1]
  BY <1>2, <1>3, <1>4
<1> DEFINE m == n - 1
           r == [i \in 1 .. m |-> IF i <= p THEN s[i] ELSE s[i + 1]]
<1>6. /\ m \in Nat /\ r \in [1 .. m -> Node]
      /\ p \in 1 .. m
      /\ \A i \in 1 .. m : i <= p => (i \in 1 .. n /\ r[i] = s[i])
      /\ \A i \in 1 .. m : ~(i <= p) => (i + 1 \in 1 .. n /\ r[i] = s[i + 1])
  BY <1>4, <1>5
<1>7. \A i \in 1 .. n : i = p + 1 \/ (i <= p /\ i \in 1 .. m) \/ (p + 1 < i /\ i - 1 \in 1 .. m)
  BY <1>4, <1>5
<1> HIDE DEF r
<1>8. N \ {x} = {r[i] : i \in 1 .. m}
  <2>1. \A i \in 1 .. m : r[i] \in N /\ r[i] # x
    <3> SUFFICES ASSUME NEW i \in 1 .. m PROVE r[i] \in N /\ r[i] # x
      OBVIOUS
    <3>1. CASE i <= p
      BY <3>1, <1>2, <1>3, <1>5, <1>6
    <3>2. CASE ~(i <= p)
      <4>1. i + 1 \in 1 .. n /\ r[i] = s[i + 1] /\ i + 1 # p + 1
        BY <3>2, <1>6
      <4> QED BY <4>1, <1>2, <1>3, <1>5
    <3> QED BY <3>1, <3>2
  <2>2. ASSUME NEW z \in N \ {x} PROVE \E i \in 1 .. m : z = r[i]
    <3>1. PICK i \in 1 .. n : z = s[i]
      BY <1>2
    <3>2. i # p + 1
      BY <3>1, <1>5
    <3>3. CASE i <= p /\ i \in 1 .. m
      BY <3>1, <3>3, <1>6
    <3>4. CASE p + 1 < i /\ i - 1 \in 1 .. m
      <4>1. ~(i - 1 <= p) /\ (i - 1) + 1 = i
        BY <3>4
      <4> QED BY <3>1, <3>4, <4>1, <1>6
    <3> QED BY <1>7, <3>2, <3>3, <3>4
  <2> QED BY <2>1, <2>2
<1>9. \A i, j \in 1 .. m : r[i] = r[j] => i = j
  <2> SUFFICES ASSUME NEW i \in 1 .. m, NEW j \in 1 .. m, r[i] = r[j] PROVE i = j
    OBVIOUS
  <2>1. \A k \in 1 .. m : \E a \in 1 .. n : /\ r[k] = s[a]
                                            /\ (k <= p /\ a = k) \/ (p < k /\ a = k + 1)
    BY <1>6
  <2>2. PICK a \in 1 .. n : r[i] = s[a] /\ ((i <= p /\ a = i) \/ (p < i /\ a = i + 1))
    BY <2>1
  <2>3. PICK b \in 1 .. n : r[j] = s[b] /\ ((j <= p /\ b = j) \/ (p < j /\ b = j + 1))
    BY <2>1
  <2>4. s[a] = s[b]
    BY <2>2, <2>3, Zenon
  <2>5. a = b
    BY <2>4, <1>3, Zenon
  <2> QED BY <2>2, <2>3, <2>5
<1>10. \A i \in 1 .. m : new[r[i]] = IF i = m THEN Null ELSE r[i + 1]
  <2> SUFFICES ASSUME NEW i \in 1 .. m PROVE new[r[i]] = IF i = m THEN Null ELSE r[i + 1]
    OBVIOUS
  <2>1. CASE i < p
    <3>1. r[i] = s[i] /\ i \in 1 .. n /\ i # p /\ i # n
      BY <2>1, <1>4, <1>6
    <3>2. s[i] # y /\ s[i] \in N
      BY <3>1, <1>2, <1>3, <1>4
    <3>3. new[s[i]] = s[i + 1]
      BY <3>1, <3>2, <1>3
    <3>4. i # m /\ i + 1 \in 1 .. m /\ i + 1 <= p /\ r[i + 1] = s[i + 1]
      BY <2>1, <1>6
    <3> QED BY <3>1, <3>3, <3>4
  <2>2. CASE i = p
    <3>1. r[i] = y
      BY <2>2, <1>4, <1>6
    <3>2. new[y] = IF p + 1 = n THEN Null ELSE s[(p + 1) + 1]
      BY <1>3, <1>5
    <3>3. i # m => r[i + 1] = s[(p + 1) + 1]
      <4>1. SUFFICES ASSUME i # m PROVE r[i + 1] = s[(p + 1) + 1]
        OBVIOUS
      <4>2. i + 1 \in 1 .. m /\ ~(i + 1 <= p)
        BY <4>1, <2>2
      <4> QED BY <4>2, <2>2, <1>6
    <3> QED BY <3>1, <3>2, <3>3, <2>2
  <2>3. CASE p < i
    <3>1. r[i] = s[i + 1] /\ i + 1 \in 1 .. n /\ i + 1 # p
      BY <2>3, <1>6
    <3>2. s[i + 1] # y /\ s[i + 1] \in N
      BY <3>1, <1>2, <1>3, <1>4
    <3>3. new[s[i + 1]] = IF i + 1 = n THEN Null ELSE s[(i + 1) + 1]
      BY <3>1, <3>2, <1>3
    <3>4. i # m => r[i + 1] = s[(i + 1) + 1]
      <4>1. SUFFICES ASSUME i # m PROVE r[i + 1] = s[(i + 1) + 1]
        OBVIOUS
      <4>2. i + 1 \in 1 .. m /\ ~(i + 1 <= p)
        BY <4>1, <2>3
      <4> QED BY <4>2, <1>6
    <3> QED BY <3>1, <3>3, <3>4
  <2> QED BY <2>1, <2>2, <2>3
<1>11. hd = IF m = 0 THEN Null ELSE r[1]
  <2>1. n # 0 /\ m # 0 /\ 1 \in 1 .. m /\ 1 <= p
    BY <1>4, <1>5, <1>6
  <2> QED BY <2>1, <1>3, <1>6
<1>12. Follows(m, r, hd, new)
  BY <1>9, <1>10, <1>11 DEF Follows
<1>13. m \in Nat /\ r \in [1 .. m -> Node]
  BY <1>6
<1> QED BY <1>8, <1>12, <1>13, Zenon DEF ListIs

-----------------------------------------------------------------------------
(* What a traversal meets *)

(* A set of naturals that is not empty has a least member. *)
LEMMA LeastNat ==
    ASSUME NEW T \in SUBSET Nat, T # {}
    PROVE  \E m \in T : \A k \in T : m <= k
<1> DEFINE R == {ss \in Nat \X Nat : ss[1] < ss[2]}
<1>1. IsWellFoundedOn(R, Nat)
  BY NatLessThanWellFounded DEF OpToRel
<1>2. \A a, b \in Nat : <<a, b>> \in R <=> a < b
  OBVIOUS
<1> HIDE DEF R
<1>3. PICK m \in T : \A k \in T : ~(<<k, m>> \in R)
  BY <1>1, WFMin
<1>4. \A k \in T : m <= k
  <2> TAKE k \in T
  <2>1. k \in Nat /\ m \in Nat
    OBVIOUS
  <2>2. ~(k < m)
    BY <1>2, <1>3, <2>1
  <2> QED BY <2>1, <2>2
<1> QED BY <1>4

(* The step of the traversal: the recursion of AfterSteps. *)
IsWalk(A, hd, nx) ==
    A = [k \in Nat |-> IF k = 0 THEN hd ELSE IF A[k-1] = Null THEN Null ELSE nx[A[k-1]]]

(* After k steps from hd the traversal is at the struct with number k + 1, or *)
(* at NULL for good.                                                          *)
LEMMA WalkFollows ==
    ASSUME NEW n \in Nat, NEW s \in [1 .. n -> Node], NEW hd, NEW nx, Follows(n, s, hd, nx),
           NEW A, IsWalk(A, hd, nx)
    PROVE  \A k \in Nat : A[k] = IF k < n THEN s[k + 1] ELSE Null
<1> DEFINE at(k) == IF k < n THEN s[k + 1] ELSE Null
           T == {k \in Nat : A[k] # at(k)}
<1>1. A[0] = hd
      /\ \A k \in Nat : k # 0 => A[k] = IF A[k-1] = Null THEN Null ELSE nx[A[k-1]]
  BY DEF IsWalk
<1>2. /\ hd = IF n = 0 THEN Null ELSE s[1]
      /\ \A i \in 1 .. n : nx[s[i]] = IF i = n THEN Null ELSE s[i + 1]
      /\ \A i \in 1 .. n : s[i] # Null
  BY NullAssumption DEF Follows
<1>3. SUFFICES ASSUME T # {} PROVE FALSE
  OBVIOUS
<1>4. PICK m \in T : \A k \in T : m <= k
  BY <1>3, LeastNat
<1>5. m \in Nat /\ A[m] # at(m)
  OBVIOUS
<1>6. CASE m = 0
  BY <1>1, <1>2, <1>5, <1>6
<1>7. CASE m # 0
  <2>1. m - 1 \in Nat /\ ~(m <= m - 1) /\ (m - 1) + 1 = m
    BY <1>5, <1>7
  <2>2. A[m - 1] = at(m - 1)
    BY <1>4, <2>1
  <2>3. A[m] = IF A[m - 1] = Null THEN Null ELSE nx[A[m - 1]]
    BY <1>1, <1>5, <1>7
  <2>4. CASE m - 1 < n
    <3>1. m \in 1 .. n /\ A[m - 1] = s[m] /\ s[m] # Null
      BY <2>1, <2>2, <2>4, <1>2
    <3>2. A[m] = IF m = n THEN Null ELSE s[m + 1]
      BY <3>1, <2>3, <1>2
    <3> QED BY <3>1, <3>2, <1>5
  <2>5. CASE ~(m - 1 < n)
    <3>1. A[m] = Null /\ ~(m < n)
      BY <2>1, <2>2, <2>3, <2>5
    <3> QED BY <3>1, <1>5
  <2> QED BY <2>4, <2>5
<1> QED BY <1>6, <1>7

(* There is such a traversal. *)
LEMMA WalkExists ==
    ASSUME NEW n \in Nat, NEW s \in [1 .. n -> Node], NEW hd, NEW nx, Follows(n, s, hd, nx)
    PROVE  \E A : IsWalk(A, hd, nx)
<1> DEFINE A == [k \in Nat |-> IF k < n THEN s[k + 1] ELSE Null]
<1>1. /\ hd = IF n = 0 THEN Null ELSE s[1]
      /\ \A i \in 1 .. n : nx[s[i]] = IF i = n THEN Null ELSE s[i + 1]
      /\ \A i \in 1 .. n : s[i] # Null
  BY NullAssumption DEF Follows
<1>2. ASSUME NEW k \in Nat
      PROVE  A[k] = IF k = 0 THEN hd ELSE IF A[k-1] = Null THEN Null ELSE nx[A[k-1]]
  <2>1. CASE k = 0
    BY <2>1, <1>1
  <2>2. CASE k # 0 /\ k - 1 < n
    <3>1. k \in 1 .. n /\ k - 1 \in Nat /\ A[k - 1] = s[k] /\ s[k] # Null
      BY <2>2, <1>1
    <3>2. A[k] = IF k = n THEN Null ELSE s[k + 1]
      BY <2>2
    <3> QED BY <3>1, <3>2, <2>2, <1>1
  <2>3. CASE k # 0 /\ ~(k - 1 < n)
    <3>1. A[k - 1] = Null /\ A[k] = Null
      BY <2>3
    <3> QED BY <3>1, <2>3
  <2> QED BY <2>1, <2>2, <2>3
<1>3. IsWalk(A, hd, nx)
  BY <1>2 DEF IsWalk
<1> HIDE DEF A
<1> QED BY <1>3

(* A traversal of as many steps as there are structs meets the whole list. *)
LEMMA WalkMeetsList ==
    ASSUME NEW N, NEW hd, NEW nx, ListIs(N, hd, nx),
           NEW W, W = CHOOSE A : IsWalk(A, hd, nx)
    PROVE  {W[k] : k \in 0 .. Cardinality(Node)} \ {Null} = N
<1>1. PICK n \in Nat : \E s \in [1 .. n -> Node] :
          Follows(n, s, hd, nx) /\ N = {s[i] : i \in 1 .. n}
  BY DEF ListIs
<1>2. PICK s \in [1 .. n -> Node] : Follows(n, s, hd, nx) /\ N = {s[i] : i \in 1 .. n}
  BY <1>1
<1>0. s \in [1 .. n -> Node] /\ Follows(n, s, hd, nx)
  BY <1>2
<1>3. IsWalk(W, hd, nx)
  <2>1. \E A : IsWalk(A, hd, nx)
    BY <1>0, WalkExists
  <2>2. PICK V : IsWalk(V, hd, nx)
    BY <2>1, Zenon
  <2> QED BY <2>2, Zenon
<1>4. \A k \in Nat : W[k] = IF k < n THEN s[k + 1] ELSE Null
  <2> SUFFICES ASSUME NEW k \in Nat PROVE W[k] = IF k < n THEN s[k + 1] ELSE Null
    OBVIOUS
  <2> QED BY <1>0, <1>3, WalkFollows
<1>5. Cardinality(Node) \in Nat /\ n <= Cardinality(Node)
  <2>1. s \in Injection(1 .. n, Node)
    BY <1>0 DEF Follows, Injection, IsInjective
  <2>2. Cardinality(1 .. n) <= Cardinality(Node)
    BY <2>1, FS_Injection, NodeAssumption
  <2>3. Cardinality(1 .. n) = n
    BY FS_Interval
  <2> QED BY <2>2, <2>3, FS_CardinalityType, NodeAssumption
<1> DEFINE c == Cardinality(Node)
<1> HIDE DEF c
<1>6. c \in Nat /\ n <= c
  BY <1>5 DEF c
<1>7. ASSUME NEW k \in 0 .. c, W[k] # Null PROVE W[k] \in N
  <2>1. k < n /\ k + 1 \in 1 .. n /\ W[k] = s[k + 1]
    BY <1>4, <1>6, <1>7
  <2>2. s[k + 1] \in N
    BY <2>1, <1>2
  <2> QED BY <2>1, <2>2, Zenon
<1>8. ASSUME NEW y \in N PROVE y # Null /\ \E k \in 0 .. c : y = W[k]
  <2>1. PICK i \in 1 .. n : y = s[i]
    BY <1>2
  <2>2. i - 1 \in 0 .. c /\ i - 1 < n /\ (i - 1) + 1 = i
    BY <1>6
  <2>3. W[i - 1] = s[i]
    BY <1>4, <2>2
  <2> QED BY <2>1, <2>2, <2>3, NullAssumption
<1> QED BY <1>7, <1>8 DEF c

(* The structs a traversal from head meets are those of the list at head. *)
LEMMA LinkedIsList ==
    ASSUME NEW N, ListIs(N, head, nxt)
    PROVE  Linked = N
<1> DEFINE W == AfterSteps
           hd == head
           nx == nxt
<1>1. W = CHOOSE A : IsWalk(A, hd, nx)
  BY DEF AfterSteps, IsWalk
<1>2. Linked = {W[k] : k \in 0 .. Cardinality(Node)} \ {Null}
  BY DEF Linked
<1>3. ListIs(N, hd, nx)
  OBVIOUS
<1> HIDE DEF W, hd, nx
<1> QED BY <1>1, <1>2, <1>3, WalkMeetsList

(* The same of the next state. *)
LEMMA LinkedNextIsList ==
    ASSUME NEW N, ListIs(N, head', nxt')
    PROVE  Linked' = N
<1> DEFINE W == AfterSteps'
           hd == head'
           nx == nxt'
<1>1. W = CHOOSE A : IsWalk(A, hd, nx)
  BY DEF AfterSteps, IsWalk
<1>2. Linked' = {W[k] : k \in 0 .. Cardinality(Node)} \ {Null}
  BY DEF Linked
<1>3. ListIs(N, hd, nx)
  OBVIOUS
<1> HIDE DEF W, hd, nx
<1> QED BY <1>1, <1>2, <1>3, WalkMeetsList

(* Whatever set of naturals is finite has a greatest member, or is empty. *)
LEMMA GreatestOf ==
    ASSUME NEW n \in Nat, NEW f \in [1 .. n -> Nat], n # 0
    PROVE  \E i \in 1 .. n : \A j \in 1 .. n : f[i] >= f[j]
<1> DEFINE T == {m \in 1 .. n : \E i \in 1 .. n : \A j \in 1 .. n : m <= j => f[i] >= f[j]}
<1>1. n \in T
  <2>1. n \in 1 .. n /\ \A j \in 1 .. n : n <= j => j = n
    OBVIOUS
  <2>2. f[n] >= f[n]
    BY <2>1
  <2> QED BY <2>1, <2>2
<1>2. PICK m \in T : \A k \in T : m <= k
  <2>1. T \in SUBSET Nat
    OBVIOUS
  <2> HIDE DEF T
  <2> QED BY <1>1, <2>1, LeastNat
<1>3. PICK i \in 1 .. n : \A j \in 1 .. n : m <= j => f[i] >= f[j]
  OBVIOUS
<1>4. m = 1
  <2>1. SUFFICES ASSUME m # 1 PROVE FALSE
    OBVIOUS
  <2>2. m - 1 \in 1 .. n /\ ~(m <= m - 1)
    BY <2>1
  <2>3. m - 1 \in T
    <3>1. CASE f[i] >= f[m - 1]
      <4>1. ASSUME NEW j \in 1 .. n, m - 1 <= j PROVE f[i] >= f[j]
        <5>1. j = m - 1 \/ m <= j
          BY <4>1
        <5> QED BY <5>1, <3>1, <1>3
      <4> QED BY <4>1, <2>2
    <3>2. CASE ~(f[i] >= f[m - 1])
      <4>1. f[i] \in Nat /\ f[m - 1] \in Nat /\ f[m - 1] >= f[i]
        BY <3>2, <2>2
      <4>2. \A j \in 1 .. n : m - 1 <= j => f[m - 1] >= f[j]
        BY <4>1, <1>3, <2>2
      <4> QED BY <4>2, <2>2
    <3> QED BY <3>1, <3>2
  <2> QED BY <1>2, <2>2, <2>3
<1> QED BY <1>3, <1>4

(* A list that is not empty has a greatest id. *)
LEMMA GreatestInList ==
    ASSUME NEW N, NEW hd, NEW nx, ListIs(N, hd, nx), N # {}, NEW f \in [Node -> Nat]
    PROVE  \E x \in N : \A y \in N : f[x] >= f[y]
<1>1. PICK n \in Nat : \E s \in [1 .. n -> Node] :
          Follows(n, s, hd, nx) /\ N = {s[i] : i \in 1 .. n}
  BY DEF ListIs
<1>2. PICK s \in [1 .. n -> Node] : N = {s[i] : i \in 1 .. n}
  BY <1>1
<1> DEFINE g == [i \in 1 .. n |-> f[s[i]]]
<1>3. g \in [1 .. n -> Nat] /\ \A i \in 1 .. n : g[i] = f[s[i]]
  OBVIOUS
<1>4. n # 0
  BY <1>2
<1> HIDE DEF g
<1>5. PICK i \in 1 .. n : \A j \in 1 .. n : g[i] >= g[j]
  BY <1>3, <1>4, GreatestOf
<1>6. s[i] \in N /\ \A y \in N : f[s[i]] >= f[y]
  BY <1>2, <1>3, <1>5
<1> QED BY <1>6

-----------------------------------------------------------------------------
(* One thread inside channel_register or channel_unregister *)

(* The structs in the list: all that are allocated, but for the one that is *)
(* not linked yet, or not any more.                                         *)
InList(t) ==
    IF pc[t] \in {"link", "give_back"} THEN allocated \ {ch[t]} ELSE allocated

PlaceInv(t) ==
    /\ ListIs(InList(t), head, nxt)
    /\ registered = IF pc[t] = "bypass" THEN InList(t) \ {ch[t]} ELSE InList(t)
    /\ pc[t] \in {"link", "write", "unlink", "bypass", "give_back"} => ch[t] \in allocated
    /\ pc[t] = "link" => nxt[ch[t]] = head
    /\ pc[t] = "bypass" => tmp[t] \in allocated /\ nxt[tmp[t]] = ch[t]
    /\ pc[t] # "assertion_failed"

(* The ids of the structs in use are different, and the next id is none of  *)
(* them, once the loop of channel_register has raised it.                   *)
IdsInv(t) ==
    /\ \A m, n \in allocated : channel_id[m] = channel_id[n] => m = n
    /\ \A n \in allocated : channel_id[n] \in 0 .. MaxId
    /\ pc[t] # "scan" => \A n \in allocated : channel_id[n] # next_channel_id
    /\ pc[t] \in {"increment", "scan", "allocate"} =>
          id[t] \in 0 .. MaxId /\ \A n \in allocated : channel_id[n] # id[t]
    /\ pc[t] = "scan" => next_channel_id = id[t] + 1
    /\ pc[t] = "allocate" => next_channel_id > id[t]

OneInv(t) == ListTypeOK /\ PlaceInv(t) /\ IdsInv(t)

(* The value the loop of channel_register leaves: above the ids it meets. *)
LEMMA ScanRaises ==
    ASSUME NEW t \in Threads, OneInv(t), Scan(t)
    PROVE  /\ next_channel_id' \in Nat /\ next_channel_id' >= next_channel_id
           /\ \A n \in allocated : next_channel_id' # channel_id[n]
<1>1. pc[t] = "scan" /\ InList(t) = allocated
  BY DEF Scan, InList
<1>2. ListIs(allocated, head, nxt) /\ Linked = allocated
  BY <1>1, LinkedIsList DEF OneInv, PlaceInv
<1>3. channel_id \in [Node -> Nat] /\ next_channel_id \in Nat /\ allocated \subseteq Node
  BY DEF OneInv, ListTypeOK
<1> DEFINE above == {n \in allocated : channel_id[n] >= next_channel_id}
           greatest == CHOOSE i \in {channel_id[n] : n \in above} :
                            \A n \in above : i >= channel_id[n]
<1>4. next_channel_id' = IF above = {} THEN next_channel_id ELSE 1 + greatest
  BY <1>2 DEF Scan
<1>5. CASE above = {}
  BY <1>3, <1>4, <1>5
<1>6. CASE above # {}
  <2>1. PICK x \in allocated : \A y \in allocated : channel_id[x] >= channel_id[y]
    <3>1. allocated # {}
      BY <1>6
    <3> QED BY <3>1, <1>2, <1>3, GreatestInList
  <2>2. x \in above
    <3>1. PICK y \in above : TRUE
      BY <1>6
    <3> QED BY <3>1, <2>1, <1>3
  <2>3. channel_id[x] \in {channel_id[n] : n \in above}
        /\ \A n \in above : channel_id[x] >= channel_id[n]
    BY <2>1, <2>2
  <2>4. greatest \in {channel_id[n] : n \in above} /\ \A n \in above : greatest >= channel_id[n]
    <3> HIDE DEF above
    <3> QED BY <2>3
  <2>5. next_channel_id' = 1 + greatest
    BY <1>4, <1>6
  <2> HIDE DEF greatest
  <2>6. greatest \in Nat /\ greatest >= next_channel_id
    BY <2>4, <1>3
  <2>7. ASSUME NEW n \in allocated PROVE 1 + greatest # channel_id[n]
    <3>1. channel_id[n] \in Nat
      BY <1>3
    <3>2. CASE n \in above
      BY <3>1, <3>2, <2>4, <2>6
    <3>3. CASE n \notin above
      BY <3>1, <3>3, <2>6, <1>3
    <3> QED BY <3>2, <3>3
  <2> QED BY <2>5, <2>6, <2>7, <1>3
<1> QED BY <1>5, <1>6

(* Steps that leave list and structs alone. *)
LEMMA QuietList ==
    ASSUME NEW t \in Threads, OneInv(t),
           UNCHANGED <<head, nxt, channel_id, allocated, registered, tmp>>,
           pc'[t] \in {"idle", "increment", "scan", "allocate", "write", "unlink"},
           pc[t] \in {"idle", "increment", "scan", "allocate", "write"},
           pc'[t] \in {"write", "unlink"} => ch'[t] \in allocated
    PROVE  PlaceInv(t)'
<1>1. InList(t) = allocated /\ InList(t)' = allocated
  BY DEF InList
<1>2. ListIs(allocated, head', nxt') /\ registered' = allocated
  BY <1>1 DEF OneInv, PlaceInv
<1> QED BY <1>1, <1>2 DEF PlaceInv

(* The id taken is free; it stays the next one until it is stored. *)
LEMMA LoadIdStep ==
    ASSUME NEW t \in Threads, OneInv(t), LoadId(t)
    PROVE  OneInv(t)'
<1>1. /\ pc[t] = "idle" /\ pc' = [pc EXCEPT ![t] = "increment"] /\ pc'[t] = "increment"
      /\ id' = [id EXCEPT ![t] = next_channel_id] /\ id'[t] = next_channel_id
      /\ next_channel_id \in 0 .. MaxId
  BY MaxIdAssumption DEF LoadId, Reach, OneInv, ListTypeOK
<1>2. UNCHANGED <<head, nxt, channel_id, next_channel_id, allocated, ch, tmp, registered>>
  BY DEF LoadId
<1>3. ListTypeOK'
  BY <1>1, <1>2 DEF OneInv, ListTypeOK
<1>4. PlaceInv(t)'
  BY <1>1, <1>2, QuietList DEF OneInv, ListTypeOK
<1>5. IdsInv(t)'
  BY <1>1, <1>2 DEF OneInv, IdsInv
<1> QED BY <1>3, <1>4, <1>5 DEF OneInv

(* Now the next id may be one in use, until the loop has run. *)
LEMMA StoreIdStep ==
    ASSUME NEW t \in Threads, OneInv(t), StoreId(t)
    PROVE  OneInv(t)'
<1>1. /\ pc[t] = "increment" /\ pc' = [pc EXCEPT ![t] = "scan"] /\ pc'[t] = "scan"
      /\ next_channel_id' = id[t] + 1
  BY DEF StoreId, Reach, OneInv, ListTypeOK
<1>2. UNCHANGED <<head, nxt, channel_id, allocated, id, ch, tmp, registered>>
  BY DEF StoreId, locals
<1>3. ListTypeOK'
  BY <1>1, <1>2 DEF OneInv, ListTypeOK
<1>4. PlaceInv(t)'
  BY <1>1, <1>2, QuietList DEF OneInv, ListTypeOK
<1>5. IdsInv(t)'
  BY <1>1, <1>2 DEF OneInv, IdsInv
<1> QED BY <1>3, <1>4, <1>5 DEF OneInv

(* The loop of channel_register raises the next id above all in use. *)
LEMMA ScanStep ==
    ASSUME NEW t \in Threads, OneInv(t), Scan(t)
    PROVE  OneInv(t)'
<1>1. pc[t] = "scan" /\ pc' = [pc EXCEPT ![t] = "allocate"] /\ pc'[t] = "allocate"
  BY DEF Scan, Reach, OneInv, ListTypeOK
<1>2. UNCHANGED <<head, nxt, channel_id, allocated, id, ch, tmp, registered>>
  BY DEF Scan, locals
<1>3. ListTypeOK'
  BY <1>1, <1>2, ScanRaises DEF OneInv, ListTypeOK
<1>4. PlaceInv(t)'
  BY <1>1, <1>2, QuietList DEF OneInv, ListTypeOK
<1>5. IdsInv(t)'
  <2>1. next_channel_id = id[t] + 1 /\ id[t] \in 0 .. MaxId
    BY <1>1 DEF OneInv, IdsInv
  <2>2. /\ next_channel_id' \in Nat /\ next_channel_id' >= next_channel_id
        /\ \A n \in allocated : next_channel_id' # channel_id[n]
    BY ScanRaises
  <2>3. next_channel_id' > id[t]
    BY <2>1, <2>2
  <2> QED BY <1>1, <1>2, <2>2, <2>3 DEF OneInv, IdsInv
<1> QED BY <1>3, <1>4, <1>5 DEF OneInv

(* The new struct is not in the list yet, and points to its head. *)
LEMMA AllocateStep ==
    ASSUME NEW t \in Threads, OneInv(t), Allocate(t)
    PROVE  OneInv(t)'
<1>0. ListTypeOK
  BY DEF OneInv
<1>1. pc[t] = "allocate" /\ pc' = [pc EXCEPT ![t] = "link"] /\ pc'[t] = "link"
  BY <1>0 DEF Allocate, Reach, ListTypeOK
<1>2. UNCHANGED <<head, next_channel_id, id, tmp, registered>>
  BY DEF Allocate
<1>3. PICK n \in Node \ allocated :
          /\ allocated' = allocated \union {n}
          /\ ch' = [ch EXCEPT ![t] = n]
          /\ channel_id' = [channel_id EXCEPT ![n] = id[t]]
          /\ nxt' = [nxt EXCEPT ![n] = head]
  BY DEF Allocate
<1>4. /\ ch'[t] = n /\ channel_id'[n] = id[t] /\ nxt'[n] = head
      /\ \A m \in allocated : channel_id'[m] = channel_id[m] /\ nxt'[m] = nxt[m]
  BY <1>0, <1>3 DEF ListTypeOK
<1>5. ListTypeOK'
  BY <1>0, <1>1, <1>2, <1>3 DEF ListTypeOK, Pointer
<1>6. PlaceInv(t)'
  <2>1. InList(t) = allocated /\ InList(t)' = allocated
    BY <1>1, <1>3, <1>4 DEF InList
  <2>2. ListIs(allocated, head, nxt) /\ registered = allocated
    BY <1>1, <2>1 DEF OneInv, PlaceInv
  <2>3. ListIs(allocated, head, nxt')
    BY <2>2, <1>4, OtherFields
  <2> QED BY <1>1, <1>2, <1>3, <1>4, <2>1, <2>2, <2>3 DEF PlaceInv
<1>7. IdsInv(t)'
  <2>1. /\ \A k, m \in allocated : channel_id[m] = channel_id[k] => m = k
        /\ \A m \in allocated : channel_id[m] \in 0 .. MaxId
        /\ \A m \in allocated : channel_id[m] # next_channel_id
        /\ \A m \in allocated : channel_id[m] # id[t]
        /\ id[t] \in 0 .. MaxId /\ next_channel_id > id[t]
    BY <1>1 DEF OneInv, IdsInv
  <2>2. /\ \A k, m \in allocated' : channel_id'[m] = channel_id'[k] => m = k
        /\ \A m \in allocated' : channel_id'[m] \in 0 .. MaxId
        /\ \A m \in allocated' : channel_id'[m] # next_channel_id
    BY <2>1, <1>3, <1>4
  <2> QED BY <1>1, <1>2, <2>2 DEF IdsInv
<1> QED BY <1>5, <1>6, <1>7 DEF OneInv

(* The new struct is put in front of the list. *)
LEMMA LinkStep ==
    ASSUME NEW t \in Threads, OneInv(t), Link(t)
    PROVE  OneInv(t)'
<1>0. ListTypeOK
  BY DEF OneInv
<1>1. /\ pc[t] = "link" /\ pc' = [pc EXCEPT ![t] = "write"] /\ pc'[t] = "write"
      /\ head' = ch[t] /\ registered' = registered \union {ch[t]}
  BY <1>0 DEF Link, Reach, ListTypeOK
<1>2. UNCHANGED <<nxt, channel_id, next_channel_id, allocated, id, ch, tmp>>
  BY DEF Link, locals
<1> DEFINE N == allocated \ {ch[t]}
           x == ch[t]
<1>3. /\ ListIs(N, head, nxt) /\ registered = N /\ x \in allocated /\ nxt[x] = head
      /\ x \in Node /\ x \notin N
  BY <1>0, <1>1 DEF OneInv, PlaceInv, InList, ListTypeOK
<1>4. N \union {x} = allocated
  BY <1>3
<1>5. ListTypeOK'
  BY <1>0, <1>1, <1>2, <1>3 DEF ListTypeOK
<1>6. PlaceInv(t)'
  <2>1. InList(t)' = allocated
    BY <1>1, <1>2 DEF InList
  <2>2. ListIs(allocated, x, nxt)
    <3> HIDE DEF N, x
    <3> QED BY <1>3, <1>4, PushFront
  <2>3. registered' = allocated
    BY <1>1, <1>3, <1>4
  <2> QED BY <1>1, <1>2, <1>3, <2>1, <2>2, <2>3 DEF PlaceInv
<1>7. IdsInv(t)'
  BY <1>1, <1>2 DEF OneInv, IdsInv
<1> QED BY <1>5, <1>6, <1>7 DEF OneInv

(* Writing the request leaves the list alone. *)
LEMMA WriteStep ==
    ASSUME NEW t \in Threads, OneInv(t), RequestWritten(t) \/ RequestFails(t)
    PROVE  OneInv(t)'
<1>1. /\ pc[t] = "write" /\ pc'[t] \in {"idle", "unlink"}
      /\ pc' = [pc EXCEPT ![t] = "idle"] \/ pc' = [pc EXCEPT ![t] = "unlink"]
  BY DEF RequestWritten, RequestFails, Reach, OneInv, ListTypeOK
<1>2. UNCHANGED <<head, nxt, channel_id, next_channel_id, allocated, id, ch, tmp, registered>>
  BY DEF RequestWritten, RequestFails, locals
<1>3. ListTypeOK'
  BY <1>1, <1>2 DEF OneInv, ListTypeOK
<1>4. PlaceInv(t)'
  <2>1. ch[t] \in allocated
    BY <1>1 DEF OneInv, PlaceInv
  <2> QED BY <1>1, <1>2, <2>1, QuietList DEF OneInv, ListTypeOK
<1>5. IdsInv(t)'
  BY <1>1, <1>2 DEF OneInv, IdsInv
<1> QED BY <1>3, <1>4, <1>5 DEF OneInv

(* An answer is for a channel in the list. *)
LEMMA AnswerStep ==
    ASSUME NEW t \in Threads, OneInv(t), Answer(t)
    PROVE  OneInv(t)'
<1>1. pc[t] = "idle" /\ pc' = [pc EXCEPT ![t] = "unlink"] /\ pc'[t] = "unlink"
  BY DEF Answer, Reach, OneInv, ListTypeOK
<1>2. UNCHANGED <<head, nxt, channel_id, next_channel_id, allocated, id, tmp, registered>>
  BY DEF Answer
<1>3. PICK n \in registered : ch' = [ch EXCEPT ![t] = n]
  BY DEF Answer
<1>4. registered = allocated
  BY <1>1 DEF OneInv, PlaceInv, InList
<1>5. ListTypeOK' /\ ch' \in [Threads -> Pointer] /\ ch'[t] = n
  BY <1>1, <1>2, <1>3, <1>4 DEF OneInv, ListTypeOK, Pointer
<1>6. PlaceInv(t)'
  BY <1>1, <1>2, <1>3, <1>4, <1>5, QuietList DEF OneInv, ListTypeOK
<1>7. IdsInv(t)'
  BY <1>1, <1>2 DEF OneInv, IdsInv
<1> QED BY <1>5, <1>6, <1>7 DEF OneInv

(* The first channel is taken out of the list. *)
LEMMA UnlinkHeadStep ==
    ASSUME NEW t \in Threads, OneInv(t), UnlinkHead(t)
    PROVE  OneInv(t)'
<1>0. ListTypeOK
  BY DEF OneInv
<1>1. /\ pc[t] = "unlink" /\ pc' = [pc EXCEPT ![t] = "give_back"] /\ pc'[t] = "give_back"
      /\ head = ch[t] /\ head' = nxt[ch[t]] /\ registered' = registered \ {ch[t]}
  BY <1>0 DEF UnlinkHead, Reach, ListTypeOK
<1>2. UNCHANGED <<nxt, channel_id, next_channel_id, allocated, id, ch, tmp>>
  BY DEF UnlinkHead, locals
<1>3. /\ ListIs(allocated, head, nxt) /\ registered = allocated /\ ch[t] \in allocated
      /\ ch[t] \in Node
  BY <1>0, <1>1 DEF OneInv, PlaceInv, InList, ListTypeOK
<1>4. ListTypeOK'
  BY <1>0, <1>1, <1>2, <1>3 DEF ListTypeOK
<1>5. PlaceInv(t)'
  <2>1. InList(t)' = allocated \ {ch[t]}
    BY <1>1, <1>2 DEF InList
  <2>2. ListIs(allocated \ {head}, nxt[head], nxt)
    BY <1>1, <1>3, PopFront
  <2>3. ListIs(allocated \ {ch[t]}, head', nxt')
    BY <1>1, <1>2, <2>2
  <2> QED BY <1>1, <1>2, <1>3, <2>1, <2>3 DEF PlaceInv
<1>6. IdsInv(t)'
  BY <1>1, <1>2 DEF OneInv, IdsInv
<1> QED BY <1>4, <1>5, <1>6 DEF OneInv

(* The loop of channel_unregister finds the predecessor: its assertion holds. *)
LEMMA FindPredecessorStep ==
    ASSUME NEW t \in Threads, OneInv(t), FindPredecessor(t)
    PROVE  OneInv(t)'
<1>0. ListTypeOK
  BY DEF OneInv
<1> DEFINE before == {n \in Linked : nxt[n] = ch[t]}
<1>1. /\ pc[t] = "unlink" /\ head # ch[t] /\ registered' = registered \ {ch[t]}
      /\ tmp' = [tmp EXCEPT ![t] = IF before = {} THEN Null ELSE CHOOSE n \in before : TRUE]
      /\ pc' = [pc EXCEPT ![t] = IF tmp'[t] = Null THEN "assertion_failed" ELSE "bypass"]
  BY <1>0 DEF FindPredecessor, Reach, ListTypeOK
<1>2. UNCHANGED <<head, nxt, channel_id, next_channel_id, allocated, id, ch>>
  BY DEF FindPredecessor
<1>3. /\ ListIs(allocated, head, nxt) /\ registered = allocated /\ ch[t] \in allocated
  BY <1>1 DEF OneInv, PlaceInv, InList
<1>4. PICK y \in allocated : y \in before /\ tmp'[t] = y /\ tmp' = [tmp EXCEPT ![t] = y]
  <2>1. Linked = allocated
    BY <1>3, LinkedIsList
  <2>2. \E y \in allocated : nxt[y] = ch[t]
    BY <1>1, <1>3, Predecessor
  <2>3. before # {}
    BY <2>1, <2>2
  <2> DEFINE z == CHOOSE n \in before : TRUE
  <2>4. z \in before
    BY <2>3
  <2>5. tmp' = [tmp EXCEPT ![t] = z]
    BY <1>1, <2>3
  <2> HIDE DEF z
  <2>6. z \in allocated
    BY <2>1, <2>4
  <2>7. tmp'[t] = z
    BY <1>0, <2>5 DEF ListTypeOK
  <2> QED BY <2>4, <2>5, <2>6, <2>7
<1>5. y \in Node /\ y # Null /\ nxt[y] = ch[t]
  BY <1>0, <1>4, NullAssumption DEF ListTypeOK
<1>6. pc' = [pc EXCEPT ![t] = "bypass"] /\ pc'[t] = "bypass"
  <2>1. tmp'[t] # Null
    BY <1>4, <1>5
  <2> QED BY <1>0, <1>1, <2>1 DEF ListTypeOK
<1>7. ListTypeOK'
  <2>1. tmp' \in [Threads -> Pointer]
    BY <1>0, <1>4, <1>5 DEF ListTypeOK, Pointer
  <2>2. registered' \subseteq Node
    BY <1>0, <1>1 DEF ListTypeOK
  <2> QED BY <1>0, <1>2, <1>6, <2>1, <2>2 DEF ListTypeOK
<1>8. PlaceInv(t)'
  <2>1. InList(t)' = allocated
    BY <1>2, <1>6 DEF InList
  <2>2. ListIs(allocated, head', nxt')
    BY <1>2, <1>3
  <2> QED BY <1>1, <1>2, <1>3, <1>4, <1>5, <1>6, <2>1, <2>2 DEF PlaceInv
<1>9. IdsInv(t)'
  BY <1>1, <1>2, <1>6 DEF OneInv, IdsInv
<1> QED BY <1>7, <1>8, <1>9 DEF OneInv

(* The predecessor points to what followed the channel. *)
LEMMA BypassStep ==
    ASSUME NEW t \in Threads, OneInv(t), Bypass(t)
    PROVE  OneInv(t)'
<1>0. ListTypeOK
  BY DEF OneInv
<1>1. /\ pc[t] = "bypass" /\ pc' = [pc EXCEPT ![t] = "give_back"] /\ pc'[t] = "give_back"
      /\ nxt' = [nxt EXCEPT ![tmp[t]] = nxt[ch[t]]]
  BY <1>0 DEF Bypass, Reach, ListTypeOK
<1>2. UNCHANGED <<head, channel_id, next_channel_id, allocated, id, ch, tmp, registered>>
  BY DEF Bypass, locals
<1> DEFINE x == ch[t]
           y == tmp[t]
<1>3. /\ ListIs(allocated, head, nxt) /\ registered = allocated \ {x}
      /\ x \in allocated /\ y \in allocated /\ nxt[y] = x /\ x \in Node /\ y \in Node
  BY <1>0, <1>1 DEF OneInv, PlaceInv, InList, ListTypeOK
<1>4. nxt'[y] = nxt[x] /\ \A z \in allocated : z # y => nxt'[z] = nxt[z]
  BY <1>0, <1>1, <1>3 DEF ListTypeOK
<1>5. ListTypeOK'
  BY <1>0, <1>1, <1>2, <1>3 DEF ListTypeOK
<1>6. PlaceInv(t)'
  <2>1. InList(t)' = allocated \ {x}
    BY <1>1, <1>2 DEF InList
  <2>2. ListIs(allocated \ {x}, head, nxt')
    <3> HIDE DEF x, y
    <3> QED BY <1>3, <1>4, CutOut
  <2> QED BY <1>1, <1>2, <1>3, <2>1, <2>2 DEF PlaceInv
<1>7. IdsInv(t)'
  BY <1>1, <1>2 DEF OneInv, IdsInv
<1> QED BY <1>5, <1>6, <1>7 DEF OneInv

(* The id given back is free, and no longer in the list. *)
LEMMA GiveBackStep ==
    ASSUME NEW t \in Threads, OneInv(t), GiveBack(t)
    PROVE  OneInv(t)'
<1>0. ListTypeOK
  BY DEF OneInv
<1>1. /\ pc[t] = "give_back" /\ pc' = [pc EXCEPT ![t] = "idle"] /\ pc'[t] = "idle"
      /\ allocated' = allocated \ {ch[t]}
      /\ next_channel_id' \in {channel_id[ch[t]], next_channel_id}
  BY <1>0 DEF GiveBack, Reach, ListTypeOK
<1>2. UNCHANGED <<head, nxt, channel_id, id, ch, tmp, registered>>
  BY DEF GiveBack, locals
<1>3. /\ ListIs(allocated \ {ch[t]}, head, nxt) /\ registered = allocated \ {ch[t]}
      /\ ch[t] \in allocated /\ ch[t] \in Node
  BY <1>0, <1>1 DEF OneInv, PlaceInv, InList, ListTypeOK
<1>4. ListTypeOK'
  <2>1. next_channel_id' \in Nat
    BY <1>0, <1>1, <1>3 DEF ListTypeOK
  <2> QED BY <1>0, <1>1, <1>2, <2>1 DEF ListTypeOK
<1>5. PlaceInv(t)'
  <2>1. InList(t)' = allocated \ {ch[t]}
    BY <1>1, <1>2 DEF InList
  <2>2. ListIs(allocated \ {ch[t]}, head', nxt')
    BY <1>2, <1>3
  <2> QED BY <1>1, <1>2, <1>3, <2>1, <2>2 DEF PlaceInv
<1>6. IdsInv(t)'
  <2>1. /\ \A m, n \in allocated : channel_id[m] = channel_id[n] => m = n
        /\ \A n \in allocated : channel_id[n] \in 0 .. MaxId
        /\ \A n \in allocated : channel_id[n] # next_channel_id
    BY <1>1 DEF OneInv, IdsInv
  <2>2. \A n \in allocated' : channel_id[n] # next_channel_id'
    BY <1>1, <1>3, <2>1
  <2> QED BY <1>1, <1>2, <2>1, <2>2 DEF IdsInv
<1> QED BY <1>4, <1>5, <1>6 DEF OneInv

-----------------------------------------------------------------------------
(* Any number of threads, one of them inside at a time *)

(* A thread holds a struct from malloc to its return from channel_register, *)
(* and in channel_unregister.                                               *)
Holding == {"link", "write", "unlink", "bypass", "give_back"}

HoldInv ==
    /\ \A t \in Threads : pc[t] \in Holding => ch[t] \in allocated
    /\ \A t, u \in Threads :
          pc[t] \in Holding /\ pc[u] \in Holding /\ ch[t] = ch[u] => t = u

Alone(t) == \A u \in Threads : Inside(u) => u = t

(* What one thread keeps is kept from each thread that is alone inside. *)
LockedInv ==
    /\ ListTypeOK /\ HoldInv
    /\ \A t \in Threads : Alone(t) => OneInv(t)

(* No two threads ever hold one struct. *)
LEMMA HoldStep ==
    ASSUME NEW t \in Threads, ListTypeOK, HoldInv,
           \/ LoadId(t) \/ StoreId(t) \/ Scan(t) \/ Allocate(t) \/ Link(t)
           \/ RequestWritten(t) \/ RequestFails(t)
           \/ (Answer(t) /\ registered \subseteq allocated)
           \/ UnlinkHead(t) \/ FindPredecessor(t) \/ Bypass(t) \/ GiveBack(t)
    PROVE  HoldInv'
<1>1. CASE \/ LoadId(t) \/ StoreId(t) \/ Scan(t) \/ Link(t) \/ RequestWritten(t)
           \/ RequestFails(t) \/ UnlinkHead(t) \/ FindPredecessor(t) \/ Bypass(t)
  <2>1. UNCHANGED <<ch, allocated>>
    BY <1>1 DEF LoadId, StoreId, Scan, Link, RequestWritten, RequestFails, UnlinkHead,
                FindPredecessor, Bypass, locals
  <2>2. \A u \in Threads : u # t => pc'[u] = pc[u]
    BY <1>1 DEF LoadId, StoreId, Scan, Link, RequestWritten, RequestFails, UnlinkHead,
                FindPredecessor, Bypass, Reach, ListTypeOK
  <2>3. pc'[t] \in Holding => pc[t] \in Holding
    BY <1>1 DEF LoadId, StoreId, Scan, Link, RequestWritten, RequestFails, UnlinkHead,
                FindPredecessor, Bypass, Reach, ListTypeOK, Holding
  <2>4. \A u \in Threads : pc'[u] \in Holding => pc[u] \in Holding
    BY <2>2, <2>3
  <2> QED BY <2>1, <2>4 DEF HoldInv
<1>2. CASE Allocate(t)
  <2>1. PICK n \in Node \ allocated :
            allocated' = allocated \union {n} /\ ch' = [ch EXCEPT ![t] = n]
    BY <1>2 DEF Allocate
  <2>2. ch'[t] = n /\ \A u \in Threads : u # t => pc'[u] = pc[u] /\ ch'[u] = ch[u]
    BY <1>2, <2>1 DEF Allocate, Reach, ListTypeOK
  <2> QED BY <2>1, <2>2 DEF HoldInv
<1>3. CASE Answer(t) /\ registered \subseteq allocated
  <2>1. PICK n \in registered :
            /\ \A u \in Threads : pc[u] # "idle" => ch[u] # n
            /\ ch' = [ch EXCEPT ![t] = n]
    BY <1>3 DEF Answer
  <2>2. /\ ch'[t] = n /\ n \in allocated /\ allocated' = allocated
        /\ \A u \in Threads : u # t => pc'[u] = pc[u] /\ ch'[u] = ch[u]
    BY <1>3, <2>1 DEF Answer, Reach, ListTypeOK
  <2>3. \A u \in Threads : pc[u] \in Holding => ch[u] # n
    BY <2>1 DEF Holding
  <2> QED BY <2>2, <2>3 DEF HoldInv
<1>4. CASE GiveBack(t)
  <2>1. /\ ch' = ch /\ allocated' = allocated \ {ch[t]}
        /\ pc[t] = "give_back" /\ pc'[t] = "idle"
        /\ \A u \in Threads : u # t => pc'[u] = pc[u]
    BY <1>4 DEF GiveBack, Reach, locals, ListTypeOK
  <2>2. pc[t] \in Holding /\ pc'[t] \notin Holding
    BY <2>1 DEF Holding
  <2> QED BY <2>1, <2>2 DEF HoldInv
<1> QED BY <1>1, <1>2, <1>3, <1>4

(* When nobody is inside, the list is the same for every thread. *)
LEMMA AnyThread ==
    ASSUME NEW t \in Threads, NEW u \in Threads, OneInv(t)', HoldInv',
           pc'[t] \in {"idle", "write"}, pc'[u] \in {"idle", "write"}
    PROVE  OneInv(u)'
<1>1. InList(t)' = allocated' /\ InList(u)' = allocated'
  BY DEF InList
<1>2. PlaceInv(u)'
  <2>1. pc'[u] = "write" => ch'[u] \in allocated'
    BY DEF HoldInv, Holding
  <2>2. ListIs(allocated', head', nxt') /\ registered' = allocated'
    BY <1>1 DEF OneInv, PlaceInv
  <2> QED BY <1>1, <2>1, <2>2 DEF PlaceInv
<1>3. IdsInv(u)'
  BY DEF OneInv, IdsInv
<1> QED BY <1>2, <1>3 DEF OneInv

(* A thread that steps inside, into it or out of it is alone there. *)
LEMMA StepsAlone ==
    ASSUME NEW t \in Threads, ListTypeOK, OneInside, OneInside',
           \/ LoadId(t) \/ StoreId(t) \/ Scan(t) \/ Allocate(t) \/ Link(t)
           \/ RequestFails(t) \/ Answer(t)
           \/ UnlinkHead(t) \/ FindPredecessor(t) \/ Bypass(t) \/ GiveBack(t)
    PROVE  Alone(t) /\ \A u \in Threads : u # t => pc'[u] = pc[u]
<1>1. \A u \in Threads : u # t => pc'[u] = pc[u]
  BY DEF LoadId, StoreId, Scan, Allocate, Link, RequestFails, Answer, UnlinkHead,
         FindPredecessor, Bypass, GiveBack, Reach, ListTypeOK
<1>2. CASE LoadId(t) \/ RequestFails(t) \/ Answer(t)
  <2>1. Inside(t)'
    BY <1>2 DEF LoadId, RequestFails, Answer, Reach, ListTypeOK, Inside
  <2>2. \A u \in Threads : u # t /\ Inside(u) => Inside(u)'
    BY <1>1 DEF Inside
  <2> QED BY <1>1, <2>1, <2>2 DEF OneInside, Alone
<1>3. CASE ~(LoadId(t) \/ RequestFails(t) \/ Answer(t))
  <2>1. Inside(t)
    BY <1>3 DEF StoreId, Scan, Allocate, Link, UnlinkHead, FindPredecessor, Bypass,
                GiveBack, Inside
  <2> QED BY <1>1, <2>1 DEF OneInside, Alone
<1> QED BY <1>2, <1>3

(* As long as one thread at a time is inside, every step keeps the invariant. *)
LEMMA LockedStep ==
    ASSUME LockedInv, OneInside, OneInside', [ListNext]_listVars
    PROVE  LockedInv'
<1>0. ListTypeOK /\ HoldInv
  BY DEF LockedInv
<1>1. CASE UNCHANGED listVars
  <2>1. UNCHANGED <<head, nxt, channel_id, next_channel_id, allocated, pc, id, ch, tmp, registered>>
    BY <1>1 DEF listVars
  <2>2. ListTypeOK' /\ HoldInv'
    BY <1>0, <2>1 DEF ListTypeOK, HoldInv
  <2>3. ASSUME NEW t \in Threads, Alone(t)' PROVE OneInv(t)'
    <3>1. OneInv(t)
      BY <2>1, <2>3 DEF LockedInv, Alone, Inside
    <3> QED BY <2>1, <2>2, <3>1 DEF OneInv, PlaceInv, IdsInv, InList
  <2> QED BY <2>2, <2>3 DEF LockedInv
<1>2. ASSUME NEW t \in Threads, RequestWritten(t) PROVE LockedInv'
  <2>1. /\ UNCHANGED <<head, nxt, channel_id, next_channel_id, allocated, id, ch, tmp, registered>>
        /\ pc[t] = "write" /\ pc' = [pc EXCEPT ![t] = "idle"] /\ pc'[t] = "idle"
        /\ \A u \in Threads : u # t => pc'[u] = pc[u]
    BY <1>0, <1>2 DEF RequestWritten, Reach, locals, ListTypeOK
  <2>2. ListTypeOK'
    BY <1>0, <2>1 DEF ListTypeOK
  <2>3. HoldInv'
    BY <1>0, <1>2, HoldStep
  <2>4. ASSUME NEW u \in Threads, Alone(u)' PROVE OneInv(u)'
    <3>1. Alone(u)
      BY <2>1, <2>4 DEF Alone, Inside
    <3>2. OneInv(u)
      BY <3>1 DEF LockedInv
    <3>3. CASE u = t
      BY <3>2, <3>3, <1>2, WriteStep
    <3>4. CASE u # t
      BY <3>2, <3>4, <2>1, <2>2 DEF OneInv, PlaceInv, IdsInv, InList
    <3> QED BY <3>3, <3>4
  <2> QED BY <2>2, <2>3, <2>4 DEF LockedInv
<1>3. ASSUME NEW t \in Threads,
             \/ LoadId(t) \/ StoreId(t) \/ Scan(t) \/ Allocate(t) \/ Link(t)
             \/ RequestFails(t) \/ Answer(t)
             \/ UnlinkHead(t) \/ FindPredecessor(t) \/ Bypass(t) \/ GiveBack(t)
      PROVE  LockedInv'
  <2>1. Alone(t) /\ \A u \in Threads : u # t => pc'[u] = pc[u]
    BY <1>0, <1>3, StepsAlone
  <2>2. OneInv(t)
    BY <2>1 DEF LockedInv
  <2>3. OneInv(t)'
    BY <1>3, <2>2, LoadIdStep, StoreIdStep, ScanStep, AllocateStep, LinkStep, WriteStep,
       AnswerStep, UnlinkHeadStep, FindPredecessorStep, BypassStep, GiveBackStep
  <2>4. HoldInv'
    <3>1. registered \subseteq allocated
      BY <2>2 DEF OneInv, PlaceInv, InList
    <3> QED BY <1>0, <1>3, <3>1, HoldStep
  <2>5. ASSUME NEW u \in Threads, Alone(u)' PROVE OneInv(u)'
    <3>1. CASE u = t
      BY <2>3, <3>1
    <3>2. CASE u # t
      <4>1. pc'[t] \in {"idle", "write"} /\ pc'[u] \in {"idle", "write"}
        BY <2>1, <2>5, <3>2 DEF Alone, Inside
      <4> QED BY <2>3, <2>4, <4>1, AnyThread
    <3> QED BY <3>1, <3>2
  <2>6. ListTypeOK'
    BY <2>3 DEF OneInv
  <2> QED BY <2>4, <2>5, <2>6 DEF LockedInv
<1>4. CASE ListNext
  BY <1>2, <1>3, <1>4 DEF ListNext
<1> QED BY <1>1, <1>4

(* At first nothing is allocated. *)
LEMMA LockedInit ==
    ASSUME ListInit
    PROVE  LockedInv
<1>1. ListTypeOK
  BY DEF ListInit, ListTypeOK, Pointer
<1>2. HoldInv
  BY DEF ListInit, HoldInv, Holding
<1>3. ASSUME NEW t \in Threads PROVE OneInv(t)
  <2>1. PlaceInv(t)
    BY EmptyList DEF ListInit, PlaceInv, InList
  <2>2. IdsInv(t)
    BY DEF ListInit, IdsInv
  <2> QED BY <1>1, <2>1, <2>2 DEF OneInv
<1> QED BY <1>1, <1>2, <1>3 DEF LockedInv

(* The invariant of the list, as long as one thread at a time is inside. *)
LEMMA LockedInvariant == ListSpec /\ []OneInside => []LockedInv
<1>1. ListInit => LockedInv
  BY LockedInit
<1>2. LockedInv /\ OneInside /\ OneInside' /\ [ListNext]_listVars => LockedInv'
  BY LockedStep
<1> QED BY <1>1, <1>2, PTL DEF ListSpec

(* Some thread can say what the list holds. *)
LEMMA SomeoneAlone ==
    ASSUME Threads # {}, OneInside
    PROVE  \E t \in Threads : Alone(t)
<1>1. CASE \E t \in Threads : Inside(t)
  BY <1>1 DEF OneInside, Alone
<1>2. CASE ~\E t \in Threads : Inside(t)
  BY <1>2 DEF Alone
<1> QED BY <1>1, <1>2

(* channel_register and channel_unregister, used by any number of threads,   *)
(* one at a time inside them, with everything that may come in between: the  *)
(* assertion of channel_unregister holds, and between operations the list    *)
(* has every channel that is allocated and no other.                         *)
THEOREM LockedListFindsChannels ==
    ASSUME Threads # {}
    PROVE  ListSpec /\ []OneInside => []UnregisterFindsChannel
<1>1. LockedInv /\ OneInside => UnregisterFindsChannel
  <2> SUFFICES ASSUME LockedInv, OneInside PROVE UnregisterFindsChannel
    OBVIOUS
  <2>1. ListTypeOK
    BY DEF LockedInv
  <2>2. ASSUME NEW t \in Threads, pc[t] = "assertion_failed" PROVE FALSE
    <3>1. Alone(t)
      BY <2>2 DEF OneInside, Inside, Alone
    <3> QED BY <2>2, <3>1 DEF LockedInv, OneInv, PlaceInv
  <2>3. ASSUME \A t \in Threads : pc[t] = "idle"
        PROVE  Linked = registered /\ registered = allocated
    <3>1. PICK t \in Threads : Alone(t)
      BY SomeoneAlone
    <3>2. ListIs(allocated, head, nxt) /\ registered = allocated
      BY <2>3, <3>1 DEF LockedInv, OneInv, PlaceInv, InList
    <3> QED BY <3>2, LinkedIsList
  <2> QED BY <2>1, <2>2, <2>3 DEF UnregisterFindsChannel
<1> QED BY <1>1, LockedInvariant, PTL

(* The same of one thread, with which nothing overlaps. *)
COROLLARY OneThreadFindsChannels ==
    ASSUME NEW t, Threads = {t}
    PROVE  ListSpec => []UnregisterFindsChannel
<1>1. OneInside
  BY DEF OneInside
<1>2. Threads # {}
  OBVIOUS
<1>3. []OneInside
  BY <1>1, PTL
<1> QED BY <1>2, <1>3, LockedListFindsChannels, PTL

-----------------------------------------------------------------------------
(* The refinement.  Link registers a channel, UnlinkHead or Bypass frees one, *)
(* and no other store changes what the list says.                             *)

ListIds == [n \in Linked |-> channel_id[n]]

(* What a traversal meets in a state, and in the next one. *)
LEMMA ListNow ==
    ASSUME NEW t, OneInv(t)
    PROVE  Linked = InList(t)
BY LinkedIsList DEF OneInv, PlaceInv

LEMMA ListAfter ==
    ASSUME NEW t, OneInv(t)'
    PROVE  Linked' = InList(t)'
<1> DEFINE N == InList(t)'
<1>1. ListIs(N, head', nxt')
  BY DEF OneInv, PlaceInv
<1> HIDE DEF N
<1>2. Linked' = N
  BY <1>1, LinkedNextIsList
<1> QED BY <1>2 DEF N

(* The ids of the contract are those of the channels in the list. *)
LEMMA SameListIds ==
    ASSUME Linked' = Linked, \A n \in Linked : channel_id'[n] = channel_id[n]
    PROVE  UNCHANGED ListIds
BY DEF ListIds

(* Link registers a channel with an id that is free. *)
LEMMA LinkRegisters ==
    ASSUME NEW t \in Threads, OneInv(t), OneInv(t)', Link(t)
    PROVE  Contract!Next
<1> DEFINE x == ch[t]
           N == allocated \ {x}
<1>1. /\ pc[t] = "link" /\ pc'[t] = "write" /\ UNCHANGED <<channel_id, allocated>>
      /\ x \in allocated /\ x \in Node
  BY DEF Link, Reach, locals, OneInv, PlaceInv, ListTypeOK
<1>2. Linked = N /\ Linked' = allocated
  BY <1>1, ListNow, ListAfter DEF InList
<1>3. /\ channel_id[x] \in 0 .. MaxId /\ \A n \in N : channel_id[n] # channel_id[x]
  BY <1>1 DEF OneInv, IdsInv
<1>4. /\ x \in Node /\ x \notin DOMAIN ListIds
      /\ channel_id[x] \in (0 .. MaxId) \ {ListIds[n] : n \in DOMAIN ListIds}
  BY <1>1, <1>2, <1>3 DEF ListIds
<1>5. DOMAIN ListIds \union {x} = allocated
  BY <1>1, <1>2 DEF ListIds
<1>6. ListIds' = [d \in DOMAIN ListIds \union {x} |-> IF d = x THEN channel_id[x] ELSE ListIds[d]]
  <2>1. ListIds' = [d \in allocated |-> channel_id[d]]
    BY <1>1, <1>2 DEF ListIds
  <2>2. \A d \in allocated : channel_id[d] = IF d = x THEN channel_id[x] ELSE ListIds[d]
    BY <1>2 DEF ListIds
  <2>3. [d \in allocated |-> channel_id[d]]
          = [d \in allocated |-> IF d = x THEN channel_id[x] ELSE ListIds[d]]
    BY <2>2
  <2> QED BY <2>1, <2>3, <1>5
<1> HIDE DEF x
<1> QED BY <1>4, <1>6 DEF Contract!Next, Contract!Register, Contract!InUse, ListIds

(* UnlinkHead and Bypass free one channel. *)
LEMMA UnlinkFrees ==
    ASSUME NEW t \in Threads, OneInv(t), OneInv(t)', UnlinkHead(t) \/ Bypass(t)
    PROVE  Contract!Next
<1> DEFINE x == ch[t]
<1>1. /\ pc[t] \in {"unlink", "bypass"} /\ pc'[t] = "give_back"
      /\ UNCHANGED <<channel_id, allocated, ch>>
      /\ x \in allocated /\ x \in Node
  BY DEF UnlinkHead, Bypass, Reach, locals, OneInv, PlaceInv, ListTypeOK
<1>2. Linked = allocated /\ Linked' = allocated \ {x}
  BY <1>1, ListNow, ListAfter DEF InList
<1>3. x \in Node /\ x \in DOMAIN ListIds
  BY <1>1, <1>2 DEF ListIds
<1>4. ListIds' = [d \in DOMAIN ListIds \ {x} |-> ListIds[d]]
  BY <1>1, <1>2 DEF ListIds
<1> HIDE DEF x
<1> QED BY <1>3, <1>4 DEF Contract!Next, Contract!Unregister, ListIds

(* A store is a step of the contract, or leaves its ids alone. *)
LEMMA StoreRefines ==
    ASSUME NEW t \in Threads, OneInv(t), OneInv(t)',
           \/ LoadId(t) \/ StoreId(t) \/ Scan(t) \/ Allocate(t) \/ Link(t)
           \/ RequestFails(t) \/ Answer(t)
           \/ UnlinkHead(t) \/ FindPredecessor(t) \/ Bypass(t) \/ GiveBack(t)
    PROVE  [Contract!Next]_ListIds
<1>0. ListTypeOK
  BY DEF OneInv
<1>1. CASE \/ LoadId(t) \/ StoreId(t) \/ Scan(t) \/ RequestFails(t) \/ Answer(t)
           \/ FindPredecessor(t)
  <2>1. /\ pc[t] \notin {"link", "give_back"} /\ pc'[t] \notin {"link", "give_back"}
        /\ UNCHANGED <<channel_id, allocated>>
    BY <1>0, <1>1 DEF LoadId, StoreId, Scan, RequestFails, Answer,
                      FindPredecessor, Reach, ListTypeOK
  <2>2. Linked' = Linked
    BY <2>1, ListNow, ListAfter DEF InList
  <2> QED BY <2>1, <2>2, SameListIds
<1>2. CASE Allocate(t)
  <2>1. PICK n \in Node \ allocated :
          /\ allocated' = allocated \union {n}
          /\ ch' = [ch EXCEPT ![t] = n]
          /\ channel_id' = [channel_id EXCEPT ![n] = id[t]]
    BY <1>2 DEF Allocate
  <2>2. pc[t] = "allocate" /\ pc'[t] = "link"
    BY <1>0, <1>2 DEF Allocate, Reach, ListTypeOK
  <2>3. ch'[t] = n /\ \A m \in allocated : channel_id'[m] = channel_id[m]
    BY <1>0, <2>1 DEF ListTypeOK
  <2>4. Linked = allocated /\ Linked' = allocated
    BY <2>1, <2>2, <2>3, ListNow, ListAfter DEF InList
  <2> QED BY <2>3, <2>4, SameListIds
<1>3. CASE GiveBack(t)
  <2>1. /\ pc[t] = "give_back" /\ pc'[t] = "idle" /\ channel_id' = channel_id
        /\ allocated' = allocated \ {ch[t]}
    BY <1>0, <1>3 DEF GiveBack, Reach, ListTypeOK
  <2>2. Linked' = Linked
    BY <2>1, ListNow, ListAfter DEF InList
  <2> QED BY <2>1, <2>2, SameListIds
<1>4. CASE Link(t)
  BY <1>4, LinkRegisters
<1>5. CASE UnlinkHead(t) \/ Bypass(t)
  BY <1>5, UnlinkFrees
<1> QED BY <1>1, <1>2, <1>3, <1>4, <1>5

(* Without a store the list stays as it is. *)
LEMMA ListStays ==
    ASSUME UNCHANGED <<head, nxt, channel_id>>
    PROVE  UNCHANGED ListIds
<1>1. AfterSteps' = AfterSteps
  BY DEF AfterSteps
<1>2. Linked' = Linked
  BY <1>1 DEF Linked
<1> QED BY <1>2, SameListIds

(* One step of any thread, one of them inside at a time. *)
LEMMA LockedRefines ==
    ASSUME LockedInv, OneInside, OneInside', [ListNext]_listVars
    PROVE  [Contract!Next]_ListIds
<1>1. CASE UNCHANGED listVars
  BY <1>1, ListStays DEF listVars
<1>2. ASSUME NEW t \in Threads, RequestWritten(t) PROVE [Contract!Next]_ListIds
  BY <1>2, ListStays DEF RequestWritten
<1>3. ASSUME NEW t \in Threads,
             \/ LoadId(t) \/ StoreId(t) \/ Scan(t) \/ Allocate(t) \/ Link(t)
             \/ RequestFails(t) \/ Answer(t)
             \/ UnlinkHead(t) \/ FindPredecessor(t) \/ Bypass(t) \/ GiveBack(t)
      PROVE  [Contract!Next]_ListIds
  <2>1. ListTypeOK
    BY DEF LockedInv
  <2>2. Alone(t)
    BY <1>3, <2>1, StepsAlone
  <2>3. OneInv(t)
    BY <2>2 DEF LockedInv
  <2>4. OneInv(t)'
    BY <1>3, <2>3, LoadIdStep, StoreIdStep, ScanStep, AllocateStep, LinkStep, WriteStep,
       AnswerStep, UnlinkHeadStep, FindPredecessorStep, BypassStep, GiveBackStep
  <2> QED BY <1>3, <2>3, <2>4, StoreRefines
<1>4. CASE ListNext
  BY <1>2, <1>3, <1>4 DEF ListNext
<1> QED BY <1>1, <1>4

(* The stores of channel.c, by any number of threads, one at a time inside,  *)
(* implement the contract the table gives its users.                         *)
THEOREM LockedListImplementsContract == ListSpec /\ []OneInside => ImplementsContract
<1>1. ListInit => Contract!Init
  <2> SUFFICES ASSUME ListInit PROVE Contract!Init
    OBVIOUS
  <2>1. ListIs({}, head, nxt)
    BY EmptyList DEF ListInit
  <2>2. Linked = {}
    BY <2>1, LinkedIsList
  <2> QED BY <2>2 DEF Contract!Init
<1>2. LockedInv /\ OneInside /\ OneInside' /\ [ListNext]_listVars => [Contract!Next]_ListIds
  BY LockedRefines
<1> QED BY <1>1, <1>2, LockedInvariant, PTL
        DEF ListSpec, ImplementsContract, Contract!Spec, ListIds

(* The same of one thread. *)
COROLLARY OneThreadImplementsContract ==
    ASSUME NEW t, Threads = {t}
    PROVE  ListSpec => ImplementsContract
<1>1. OneInside
  BY DEF OneInside
<1>2. []OneInside
  BY <1>1, PTL
<1> QED BY <1>2, LockedListImplementsContract, PTL
==============================================================================
