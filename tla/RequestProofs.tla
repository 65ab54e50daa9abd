---------------------------- MODULE RequestProofs ----------------------------
(***************************************************************************)
(* That a caller of libdespotify finds its own answer in ds->response      *)
(* (Request), whatever the bounds, however slow the server is and whatever *)
(* wakes the caller, unless an earlier answer was still to come when the   *)
(* call was made.  ds->response, sync_cond and the wait are per session,   *)
(* so the argument is that only such a call can get another's answer: the  *)
(* channels that can still deliver are those of calls whose wait ended     *)
(* early, and the one of the call that sleeps.                             *)
(***************************************************************************)
EXTENDS Request, SequenceTheorems, TLAPS

-----------------------------------------------------------------------------
(* The inductive invariant *)

StateType ==
    /\ api \in {"idle", "send", "sent", "wait", "woken", "parsed"}
    /\ op \in AllOps
    /\ req \in 0 .. MaxRequests
    /\ response \in Seq(Packet)
    /\ channel \in [Requests -> {"none", "open", "end", "error"}]
    /\ sent \in [Requests -> 0 .. Packets]

FlagType ==
    /\ list_of_lists \in BOOLEAN /\ connected \in BOOLEAN
    /\ freed \in BOOLEAN /\ used \in BOOLEAN

(* no request is in the histories before it was made *)
HistoryInv ==
    /\ early \subseteq Requests /\ late \subseteq Requests
    /\ \A r \in early \union late : r <= req

(* a call is made for a request, on a connection, with a buffer that is its own *)
CallInv ==
    /\ api # "idle" => req \in Requests /\ freed = FALSE
    /\ api \in {"sent", "wait", "woken", "parsed"} => connected = TRUE

(* what a channel says of the call that opened it *)
ChannelInv ==
    /\ \A r \in Requests : r > req => channel[r] = "none"
    /\ \A r \in Requests : channel[r] = "none" => sent[r] = 0
    /\ \A r \in Requests : channel[r] = "end" => sent[r] = Packets
    /\ api = "send" => channel[req] = "none"
    /\ api \in {"sent", "wait", "woken", "parsed"} => channel[req] # "none"

(* what can still deliver: the channels of calls that did not wait for their  *)
(* answer, and the one of a call that has not waited yet; none of an earlier  *)
(* call, unless it could when the current one was made                        *)
OwedInv ==
    /\ \A r \in Requests :
          Owed(r) => r \in early \/ (r = req /\ api \in {"sent", "wait"})
    /\ req \notin late => \A r \in Requests : Owed(r) => r = req
    /\ used = TRUE => early # {}

(* then the buffer holds what came for the current request, in order *)
ResponseInv ==
    (req \in Requests /\ req \notin late /\ freed = FALSE) =>
        response = SubSeq(Answer(req), 1, sent[req])

(* what is stored is the answer to a request that is over, or ended early *)
Entry == [stored : BOOLEAN, data : Seq(Packet), for : 0 .. MaxRequests]

Proper(o, e) ==
    /\ e.for \in Requests /\ e.for <= req
    /\ e.for \in early \/ channel[e.for] \in {"end", "error"}
    /\ e.for \notin late =>
         /\ e.data = SubSeq(Answer(e.for), 1, Len(e.data))
         /\ (o \in Gzip \/ (e.for \notin early /\ channel[e.for] = "end"))
               => e.data = Answer(e.for)

CacheInv ==
    /\ cache \in [Cached -> Entry]
    /\ \A o \in Cached : cache[o].stored => Proper(o, cache[o])

IInv ==
    /\ StateType /\ FlagType /\ HistoryInv /\ CallInv /\ ChannelInv /\ OwedInv
    /\ ResponseInv /\ CacheInv

-----------------------------------------------------------------------------
(* Answers and their prefixes *)

(* What came so far of an answer, and one more packet of it.  (The buffer a *)
(* callback of despotify.c appends to.)                                     *)
LEMMA AnswerGrows ==
    ASSUME NEW r \in Requests, NEW k \in 0 .. Packets - 1
    PROVE  /\ SubSeq(Answer(r), 1, k) \in Seq(Packet)
           /\ Append(SubSeq(Answer(r), 1, k), [req |-> r, no |-> k + 1])
                = SubSeq(Answer(r), 1, k + 1)
<1>1. Answer(r) \in Seq(Packet) /\ Len(Answer(r)) = Packets
  BY BoundsAssumption DEF Answer, Packet
<1>2. \A i \in 1 .. Packets : Answer(r)[i] = [req |-> r, no |-> i]
  BY BoundsAssumption DEF Answer
<1> DEFINE a == SubSeq(Answer(r), 1, k)
           b == SubSeq(Answer(r), 1, k + 1)
           p == [req |-> r, no |-> k + 1]
<1>3. k \in Nat /\ k + 1 <= Packets /\ Packets \in Nat
  BY BoundsAssumption
<1>4. a \in Seq(Packet) /\ Len(a) = k /\ \A i \in 1 .. k : a[i] = Answer(r)[i]
  BY <1>1, <1>3
<1>5. b \in Seq(Packet) /\ Len(b) = k + 1 /\ \A i \in 1 .. k + 1 : b[i] = Answer(r)[i]
  BY <1>1, <1>3
<1>6. p \in Packet
  BY <1>3 DEF Packet
<1>7. b[k + 1] = p
  BY <1>2, <1>3, <1>5
<1> HIDE DEF a, b, p
<1>8. /\ Append(a, p) \in Seq(Packet)
      /\ Len(Append(a, p)) = k + 1
      /\ \A i \in 1 .. k : Append(a, p)[i] = a[i]
      /\ Append(a, p)[k + 1] = p
  BY <1>3, <1>4, <1>6
<1>9. \A i \in 1 .. k + 1 : Append(a, p)[i] = b[i]
  <2> TAKE i \in 1 .. k + 1
  <2>1. CASE i = k + 1
    BY <2>1, <1>7, <1>8
  <2>2. CASE i \in 1 .. k
    BY <2>2, <1>3, <1>4, <1>5, <1>8
  <2>3. i = k + 1 \/ i \in 1 .. k
    BY <1>3
  <2> QED
    BY <2>1, <2>2, <2>3
<1>10. Append(a, p) = b
  BY <1>5, <1>8, <1>9, SeqEqual
<1> QED
  BY <1>4, <1>10 DEF a, b, p

(* An answer of which all packets came is the whole answer. *)
LEMMA AnswerIsItsPrefix ==
    ASSUME NEW r \in Requests
    PROVE  SubSeq(Answer(r), 1, Packets) = Answer(r)
<1>1. Answer(r) \in Seq(Packet) /\ Len(Answer(r)) = Packets
  BY BoundsAssumption DEF Answer, Packet
<1> QED
  BY <1>1, BoundsAssumption

-----------------------------------------------------------------------------
(* The invariant *)

(* A prefix of an answer is the one of its own length. *)
LEMMA PrefixLength ==
    ASSUME NEW r \in Requests, NEW k \in 0 .. Packets
    PROVE  /\ SubSeq(Answer(r), 1, k) \in Seq(Packet)
           /\ Len(SubSeq(Answer(r), 1, k)) = k
<1>1. Answer(r) \in Seq(Packet) /\ Len(Answer(r)) = Packets
  BY BoundsAssumption DEF Answer, Packet
<1> QED
  BY <1>1, BoundsAssumption

(* Before the first call.  (session_init_client.)                           *)
LEMMA InitIInv == Init => IInv
<1> SUFFICES ASSUME Init PROVE IInv
  OBVIOUS
<1> USE BoundsAssumption
<1>1. StateType
  <2>1. <<>> \in Seq(Packet)
    OBVIOUS
  <2> QED
    BY <2>1 DEF Init, StateType, Requests, AllOps, Profiles
<1>2. FlagType
  BY Zenon DEF Init, FlagType
<1>3. HistoryInv /\ ResponseInv
  BY DEF Init, HistoryInv, ResponseInv, Requests
<1>4. CallInv /\ ChannelInv
  BY DEF Init, CallInv, ChannelInv
<1>5. OwedInv
  <2>1. \A r \in Requests : ~Owed(r)
    BY DEF Init, Owed
  <2>2. used # TRUE
    BY Zenon DEF Init
  <2> QED
    BY <2>1, <2>2 DEF OwedInv
<1>6. CacheInv
  <2>1. Absent \in Entry
    <3>1. <<>> \in Seq(Packet) /\ 0 \in 0 .. MaxRequests
      OBVIOUS
    <3> QED
      BY <3>1, Zenon DEF Absent, Entry
  <2>2. \A o \in Cached : ~cache[o].stored
    BY DEF Init, Absent
  <2> QED
    BY <2>1, <2>2, Zenon DEF Init, CacheInv
<1> QED
  BY <1>1, <1>2, <1>3, <1>4, <1>5, <1>6 DEF IInv

(* What is in the cache stays proper when requests go on, are recorded in     *)
(* the histories, or come to their end.                                       *)
LEMMA CacheStays ==
    ASSUME IInv, UNCHANGED cache, req' >= req,
           early \subseteq early', \A r \in Requests : r <= req /\ r \in late => r \in late',
           \A r \in Requests :
               (r \notin early /\ channel[r] \in {"end", "error"}) => channel'[r] = channel[r],
           \A r \in Requests : r \in early => r \in early',
           req' \in 0 .. MaxRequests
    PROVE  CacheInv'
<1>1. cache' = cache /\ CacheInv
  BY DEF IInv
<1>2. ASSUME NEW o \in Cached, cache[o].stored PROVE Proper(o, cache[o])'
  <2> DEFINE e == cache[o]
  <2>1. /\ e.for \in Requests /\ e.for <= req
        /\ e.for \in early \/ channel[e.for] \in {"end", "error"}
        /\ e.for \notin late => e.data = SubSeq(Answer(e.for), 1, Len(e.data))
        /\ (e.for \notin late /\ (o \in Gzip \/ (e.for \notin early /\ channel[e.for] = "end")))
              => e.data = Answer(e.for)
    BY <1>1, <1>2 DEF CacheInv, Proper
  <2>2. cache'[o] = e
    BY <1>1
  <2>3. e.for <= req'
    BY <2>1 DEF IInv, StateType, Requests
  <2>4. e.for \notin late' => e.for \notin late
    BY <2>1
  <2>5. e.for \notin early' => e.for \notin early /\ channel'[e.for] = channel[e.for]
    BY <2>1
  <2> QED
    BY <2>1, <2>2, <2>3, <2>4, <2>5 DEF Proper, Answer
<1> QED
  BY <1>1, <1>2 DEF CacheInv

(* A step of the caller that ends no wait and does not touch the cache. *)
LEMMA CallStep ==
    ASSUME IInv, NEW o \in Ops, Call(o)
    PROVE  IInv'
<1> USE BoundsAssumption
<1>0. IInv
  OBVIOUS
<1>1. o \in AllOps
  BY OpsAssumption
<1>2. /\ api = "idle" /\ api' = "send" /\ req' = req + 1 /\ req' \in Requests
      /\ response' = <<>> /\ op' = o
      /\ early' = early /\ channel' = channel /\ sent' = sent /\ cache' = cache
      /\ late \subseteq late' /\ late' \subseteq late \union {req + 1}
      /\ (\E r \in Requests : Owed(r)) => req + 1 \in late'
  BY <1>0 DEF Call, IInv, StateType, Requests
<1>3. connected' = connected /\ used' = used /\ freed' = FALSE
  BY Zenon DEF Call
<1>4. StateType'
  <2>1. <<>> \in Seq(Packet)
    OBVIOUS
  <2> QED
    BY <1>0, <1>1, <1>2, <2>1 DEF IInv, StateType, Requests
<1>5. FlagType'
  <2>1. (list_of_lists \/ o = "lists") \in BOOLEAN
    BY Zenon
  <2> QED
    BY <2>1, <1>0, Zenon DEF IInv, FlagType, Call
<1>6. HistoryInv'
  BY <1>0, <1>2 DEF IInv, StateType, HistoryInv, Requests
<1>7. CallInv'
  BY <1>2, <1>3, Zenon DEF CallInv
<1>8. ChannelInv'
  BY <1>0, <1>2 DEF IInv, StateType, ChannelInv, Requests
<1>9. OwedInv'
  <2>1. \A r \in Requests : Owed(r)' <=> Owed(r)
    BY <1>2, <1>3, Zenon DEF Owed
  <2>2. \A r \in Requests : Owed(r) => r \in early
    BY <1>0, <1>2 DEF IInv, OwedInv
  <2>3. used' = TRUE => early' # {}
    BY <1>0, <1>2, <1>3, Zenon DEF IInv, OwedInv
  <2> QED
    BY <1>2, <2>1, <2>2, <2>3, Zenon DEF OwedInv
<1>10. ResponseInv'
  <2>1. sent[req'] = 0
    BY <1>0, <1>2 DEF IInv, StateType, ChannelInv
  <2>2. SubSeq(Answer(req'), 1, 0) = <<>>
    BY <1>2 DEF Answer
  <2> QED
    BY <1>2, <2>1, <2>2 DEF ResponseInv, Answer
<1>11. CacheInv'
  <2>1. req' >= req /\ req' \in 0 .. MaxRequests
    BY <1>0, <1>2 DEF IInv, StateType, Requests
  <2> QED
    BY <1>0, <1>2, <2>1, CacheStays
<1> QED
  BY <1>4, <1>5, <1>6, <1>7, <1>8, <1>9, <1>10, <1>11 DEF IInv

(* The wait ends, by a timeout or for no reason. *)
LEMMA LeaveStep ==
    ASSUME IInv, Timeout \/ SpuriousWakeup
    PROVE  IInv'
<1>0. IInv
  OBVIOUS
<1>1. /\ api = "wait" /\ api' \in {"idle", "woken"}
      /\ early' = IF Owed(req) THEN early \union {req} ELSE early
      /\ UNCHANGED <<op, req, response, channel, sent, cache, late>>
  BY DEF Timeout, SpuriousWakeup, Leave
<1>2. UNCHANGED <<freed, list_of_lists, connected, used>>
  BY Zenon DEF Timeout, SpuriousWakeup
<1>3. req \in Requests /\ connected = TRUE
  BY <1>0, <1>1, Zenon DEF IInv, CallInv
<1>4. StateType'
  BY <1>0, <1>1 DEF IInv, StateType
<1>5. FlagType'
  BY <1>0, <1>2, Zenon DEF IInv, FlagType
<1>6. HistoryInv'
  BY <1>0, <1>1, <1>3 DEF IInv, HistoryInv, StateType
<1>7. CallInv'
  BY <1>0, <1>1, <1>2, <1>3, Zenon DEF IInv, CallInv
<1>8. ChannelInv'
  BY <1>0, <1>1 DEF IInv, ChannelInv
<1>9. OwedInv'
  <2>1. \A r \in Requests : Owed(r)' <=> Owed(r)
    BY <1>1, <1>2, Zenon DEF Owed
  <2>2. \A r \in Requests : Owed(r) => r \in early'
    BY <1>0, <1>1, Zenon DEF IInv, OwedInv
  <2>3. used' = TRUE => early' # {}
    BY <1>0, <1>1, <1>2, Zenon DEF IInv, OwedInv
  <2>4. req' \notin late' => \A r \in Requests : Owed(r) => r = req'
    BY <1>0, <1>1, Zenon DEF IInv, OwedInv
  <2> QED
    BY <2>1, <2>2, <2>3, <2>4, Zenon DEF OwedInv
<1>10. ResponseInv'
  BY <1>0, <1>1, <1>2, Zenon DEF IInv, ResponseInv, Answer
<1>11. CacheInv'
  BY <1>0, <1>1, CacheStays DEF IInv, StateType
<1> QED
  BY <1>4, <1>5, <1>6, <1>7, <1>8, <1>9, <1>10, <1>11 DEF IInv

(* The request is sent, or cannot be; the caller goes to wait. *)
LEMMA SendStep ==
    ASSUME IInv, Send \/ SendFails \/ Wait
    PROVE  IInv'
<1>0. IInv
  OBVIOUS
<1>1. /\ api \in {"send", "sent"} /\ req \in Requests /\ freed = FALSE
      /\ UNCHANGED <<op, req, response, sent, cache, early, late>>
  BY <1>0, Zenon DEF Send, SendFails, Wait, IInv, CallInv
<1>2. UNCHANGED <<freed, list_of_lists, used>>
  BY Zenon DEF Send, SendFails, Wait
<1>3. connected' = connected \/ (SendFails /\ connected' = (connected /\ ~Profiles[op].disconnects))
  BY Zenon DEF Send, SendFails, Wait
<1>4. connected' \in BOOLEAN /\ (connected' = TRUE => connected = TRUE)
  <2>1. (connected /\ ~Profiles[op].disconnects) \in BOOLEAN
    BY Zenon
  <2> QED
    BY <2>1, <1>0, <1>3, Zenon DEF IInv, FlagType
<1>5. \/ Send /\ api = "send" /\ api' = "sent" /\ channel' = [channel EXCEPT ![req] = "open"]
      \/ SendFails /\ api = "send" /\ api' = "idle" /\ channel' = channel
      \/ Wait /\ api = "sent" /\ api' = "wait" /\ channel' = channel
  BY DEF Send, SendFails, Wait
<1>6. \A r \in Requests : channel'[r] = channel[r] \/
                          (r = req /\ Send /\ channel[r] = "none" /\ channel'[r] = "open")
  <2>1. api = "send" => channel[req] = "none"
    BY <1>0 DEF IInv, ChannelInv
  <2> QED
    BY <1>0, <1>1, <1>5, <2>1 DEF IInv, StateType
<1>7. StateType'
  BY <1>0, <1>1, <1>5 DEF IInv, StateType
<1>8. FlagType'
  BY <1>0, <1>2, <1>4, Zenon DEF IInv, FlagType
<1>9. HistoryInv'
  BY <1>0, <1>1 DEF IInv, HistoryInv
<1>10. CallInv'
  <2>1. CASE Send
    <3>1. connected = TRUE
      BY <1>0, <2>1, Zenon DEF Send, IInv, FlagType
    <3>2. connected' = connected
      BY <2>1, Zenon DEF Send
    <3> QED
      BY <1>1, <1>2, <3>1, <3>2 DEF CallInv
  <2>2. CASE SendFails
    BY <2>2 DEF SendFails, CallInv
  <2>3. CASE Wait
    <3>1. connected' = connected /\ connected = TRUE
      BY <1>0, <2>3, Zenon DEF Wait, IInv, CallInv
    <3> QED
      BY <1>1, <1>2, <3>1 DEF CallInv
  <2> QED
    BY <1>5, <2>1, <2>2, <2>3
<1>11. ChannelInv'
  <2>1. \A r \in Requests : r > req => channel'[r] = "none"
    <3>1. ~(req > req)
      BY <1>0 DEF IInv, StateType
    <3> QED
      BY <1>0, <1>6, <3>1 DEF IInv, ChannelInv
  <2>2. \A r \in Requests : channel'[r] = "none" => sent[r] = 0
    BY <1>0, <1>6 DEF IInv, ChannelInv
  <2>3. \A r \in Requests : channel'[r] = "end" => sent[r] = Packets
    BY <1>0, <1>6 DEF IInv, ChannelInv
  <2>4. api' \in {"sent", "wait", "woken", "parsed"} => channel'[req] # "none"
    <3>1. api = "sent" => channel[req] # "none"
      BY <1>0 DEF IInv, ChannelInv
    <3>2. channel \in [Requests -> {"none", "open", "end", "error"}]
      BY <1>0 DEF IInv, StateType
    <3> QED
      BY <1>1, <1>5, <3>1, <3>2
  <2> QED
    BY <1>1, <1>5, <2>1, <2>2, <2>3, <2>4 DEF ChannelInv
<1>12. OwedInv'
  <2>1. \A r \in Requests : Owed(r)' => Owed(r) \/ (r = req /\ api' = "sent")
    BY <1>4, <1>5, <1>6, Zenon DEF Owed
  <2>2. \A r \in Requests : Owed(r) => r \in early \/ (r = req /\ api = "sent" /\ api' = "wait")
    <3>1. \A r \in Requests : Owed(r) => r \in early \/ (r = req /\ api \in {"sent", "wait"})
      BY <1>0 DEF IInv, OwedInv
    <3>2. api = "send" => ~Owed(req)
      BY <1>0 DEF IInv, ChannelInv, Owed
    <3> QED
      BY <1>5, <3>1, <3>2
  <2>3. used' = TRUE => early' # {}
    BY <1>0, <1>1, <1>2, Zenon DEF IInv, OwedInv
  <2>4. req' \notin late' => \A r \in Requests : Owed(r)' => r = req'
    BY <1>0, <1>1, <2>1, Zenon DEF IInv, OwedInv
  <2>5. \A r \in Requests : Owed(r)' => r \in early' \/ (r = req' /\ api' \in {"sent", "wait"})
    BY <1>1, <2>1, <2>2, Zenon
  <2> QED
    BY <2>3, <2>4, <2>5, Zenon DEF OwedInv
<1>13. ResponseInv'
  BY <1>0, <1>1, <1>2, Zenon DEF IInv, ResponseInv, Answer
<1>14. CacheInv'
  <2>1. \A r \in Requests : channel[r] \in {"end", "error"} => channel'[r] = channel[r]
    BY <1>6
  <2> QED
    BY <1>0, <1>1, <2>1, CacheStays DEF IInv, StateType
<1> QED
  BY <1>7, <1>8, <1>9, <1>10, <1>11, <1>12, <1>13, <1>14 DEF IInv

(* The response is parsed and stored in the cache. *)
LEMMA UseStep ==
    ASSUME IInv, Use
    PROVE  IInv'
<1> USE BoundsAssumption
<1>0. IInv
  OBVIOUS
<1>1. /\ api = "woken" /\ api' = "parsed"
      /\ UNCHANGED <<op, req, response, channel, sent, early, late>>
  BY DEF Use
<1>2. UNCHANGED <<freed, connected, used>>
  BY Zenon DEF Use
<1>3. req \in Requests /\ freed = FALSE /\ connected = TRUE
  BY <1>0, <1>1, Zenon DEF IInv, CallInv
<1>4. StateType' /\ HistoryInv' /\ ChannelInv'
  BY <1>0, <1>1 DEF IInv, StateType, HistoryInv, ChannelInv
<1>5. FlagType'
  <2>1. (list_of_lists /\ op \notin Playlist) \in BOOLEAN
    BY Zenon
  <2> QED
    BY <2>1, <1>0, <1>2, Zenon DEF IInv, FlagType, Use
<1>6. CallInv'
  BY <1>1, <1>2, <1>3, Zenon DEF CallInv
<1>7. OwedInv'
  <2>1. \A r \in Requests : Owed(r)' <=> Owed(r)
    BY <1>1, <1>2, Zenon DEF Owed
  <2>2. \A r \in Requests : Owed(r) => r \in early
    BY <1>0, <1>1 DEF IInv, OwedInv
  <2>3. used' = TRUE => early' # {}
    BY <1>0, <1>1, <1>2, Zenon DEF IInv, OwedInv
  <2>4. req' \notin late' => \A r \in Requests : Owed(r) => r = req'
    BY <1>0, <1>1, Zenon DEF IInv, OwedInv
  <2> QED
    BY <1>1, <2>1, <2>2, <2>3, <2>4, Zenon DEF OwedInv
<1>8. ResponseInv'
  BY <1>0, <1>1, <1>2, Zenon DEF IInv, ResponseInv, Answer
<1>9. CacheInv'
  <2> DEFINE entry == [stored |-> TRUE, data |-> response, for |-> req]
  <2>1. entry \in Entry
    <3>1. response \in Seq(Packet) /\ req \in 0 .. MaxRequests
      BY <1>0 DEF IInv, StateType
    <3> QED
      BY <3>1, Zenon DEF Entry
  <2>2. entry.for = req /\ entry.data = response
    OBVIOUS
  <2>3. \/ cache' = cache
        \/ /\ op \in Cached /\ cache' = [cache EXCEPT ![op] = entry]
           /\ op \in Gzip => Inflates(response)
    BY Zenon DEF Use
  <2> HIDE DEF entry
  <2>4. CASE cache' = cache
    BY <1>0, <1>1, <2>4, CacheStays DEF IInv, StateType
  <2>5. CASE /\ op \in Cached /\ cache' = [cache EXCEPT ![op] = entry]
             /\ op \in Gzip => Inflates(response)
    <3>1. req \in early \/ channel[req] \in {"end", "error"}
      <4>1. channel[req] # "none" /\ (Owed(req) => req \in early)
        BY <1>0, <1>1, <1>3 DEF IInv, ChannelInv, OwedInv
      <4>2. channel[req] = "open" => Owed(req)
        BY <1>3, Zenon DEF Owed
      <4> QED
        BY <1>0, <1>3, <4>1, <4>2 DEF IInv, StateType
    <3>2. ASSUME req \notin late
          PROVE  /\ response = SubSeq(Answer(req), 1, Len(response))
                 /\ op \in Gzip \/ channel[req] = "end" => response = Answer(req)
      <4>1. response = SubSeq(Answer(req), 1, sent[req]) /\ sent[req] \in 0 .. Packets
        BY <1>0, <1>3, <3>2 DEF IInv, ResponseInv, StateType
      <4>2. Len(response) = sent[req]
        BY <1>3, <4>1, PrefixLength
      <4>3. op \in Gzip => sent[req] = Packets
        BY <2>5, <4>1, <4>2 DEF Inflates
      <4>4. channel[req] = "end" => sent[req] = Packets
        BY <1>0, <1>3 DEF IInv, ChannelInv
      <4> QED
        BY <1>3, <4>1, <4>2, <4>3, <4>4, AnswerIsItsPrefix
    <3>3. Proper(op, entry)
      <4>1. req <= req
        BY <1>0 DEF IInv, StateType
      <4> QED
        BY <1>3, <2>2, <3>1, <3>2, <4>1 DEF Proper
    <3>4. \A o \in Cached : cache'[o] = IF o = op THEN entry ELSE cache[o]
      BY <1>0, <2>5 DEF IInv, CacheInv
    <3>5. cache' \in [Cached -> Entry]
      BY <1>0, <2>1, <2>5, Zenon DEF IInv, CacheInv
    <3>6. \A o \in Cached : cache[o].stored => Proper(o, cache[o])
      BY <1>0 DEF IInv, CacheInv
    <3>7. \A o \in Cached : cache'[o].stored => Proper(o, cache'[o])
      BY <3>3, <3>4, <3>6
    <3>8. \A o \in Cached : Proper(o, cache'[o]) => Proper(o, cache[o])'
      BY <1>1 DEF Proper, Answer
    <3> QED
      BY <3>5, <3>7, <3>8 DEF CacheInv
  <2> QED
    BY <2>3, <2>4, <2>5
<1> QED
  BY <1>4, <1>5, <1>6, <1>7, <1>8, <1>9 DEF IInv

(* The response is freed. *)
LEMMA FreeStep ==
    ASSUME IInv, Free
    PROVE  IInv'
<1>0. IInv
  OBVIOUS
<1>1. /\ api = "parsed" /\ api' = "idle" /\ response' = <<>>
      /\ UNCHANGED <<op, req, channel, sent, cache, early, late>>
  BY DEF Free
<1>2. freed' = TRUE /\ UNCHANGED <<list_of_lists, connected, used>>
  BY Zenon DEF Free
<1>3. StateType'
  <2>1. <<>> \in Seq(Packet)
    OBVIOUS
  <2> QED
    BY <1>0, <1>1, <2>1 DEF IInv, StateType
<1>4. FlagType' /\ ResponseInv'
  BY <1>0, <1>2, Zenon DEF IInv, FlagType, ResponseInv
<1>5. HistoryInv' /\ ChannelInv' /\ CallInv'
  BY <1>0, <1>1 DEF IInv, HistoryInv, ChannelInv, CallInv
<1>6. OwedInv'
  <2>1. \A r \in Requests : Owed(r)' <=> Owed(r)
    BY <1>1, <1>2, Zenon DEF Owed
  <2>2. \A r \in Requests : Owed(r) => r \in early
    BY <1>0, <1>1 DEF IInv, OwedInv
  <2>3. used' = TRUE => early' # {}
    BY <1>0, <1>1, <1>2, Zenon DEF IInv, OwedInv
  <2>4. req' \notin late' => \A r \in Requests : Owed(r) => r = req'
    BY <1>0, <1>1, Zenon DEF IInv, OwedInv
  <2> QED
    BY <1>1, <2>1, <2>2, <2>3, <2>4, Zenon DEF OwedInv
<1>7. CacheInv'
  BY <1>0, <1>1, CacheStays DEF IInv, StateType
<1> QED
  BY <1>3, <1>4, <1>5, <1>6, <1>7 DEF IInv

(* A packet of an answer, the current call's or an earlier one's. *)
LEMMA DataStep ==
    ASSUME IInv, NEW r \in Requests, Data(r)
    PROVE  IInv'
<1> USE BoundsAssumption
<1>0. IInv
  OBVIOUS
<1> DEFINE p == [req |-> r, no |-> sent[r] + 1]
<1>1. /\ Owed(r) /\ sent[r] \in 0 .. Packets - 1
      /\ sent' = [sent EXCEPT ![r] = sent[r] + 1]
      /\ UNCHANGED <<api, op, req, channel, cache, early, late>>
  BY <1>0 DEF Data, IInv, StateType
<1>2. UNCHANGED <<freed, list_of_lists, connected>>
  BY Zenon DEF Data
<1>3. \/ freed = TRUE /\ used' = TRUE /\ response' = response
      \/ freed = FALSE /\ used' = used /\ response' = Append(response, p)
  BY <1>0, Zenon DEF Data, IInv, FlagType
<1>4. p \in Packet
  BY <1>1 DEF Packet
<1>5. \A q \in Requests : sent'[q] = IF q = r THEN sent[r] + 1 ELSE sent[q]
  BY <1>0, <1>1 DEF IInv, StateType
<1>6. channel[r] = "open"
  BY <1>1, Zenon DEF Owed
<1> HIDE DEF p
<1>7. StateType'
  <2>1. sent' \in [Requests -> 0 .. Packets]
    BY <1>0, <1>1 DEF IInv, StateType
  <2>2. response' \in Seq(Packet)
    <3>1. response \in Seq(Packet)
      BY <1>0 DEF IInv, StateType
    <3>2. Append(response, p) \in Seq(Packet)
      BY <3>1, <1>4
    <3> QED
      BY <1>3, <3>1, <3>2, Zenon
  <2> QED
    BY <1>0, <1>1, <2>1, <2>2 DEF IInv, StateType
<1>8. FlagType'
  BY <1>0, <1>2, <1>3, Zenon DEF IInv, FlagType
<1>9. HistoryInv' /\ CallInv'
  BY <1>0, <1>1, <1>2 DEF IInv, HistoryInv, CallInv
<1>10. ChannelInv'
  BY <1>0, <1>1, <1>5, <1>6 DEF IInv, ChannelInv
<1>11. OwedInv'
  <2>1. \A q \in Requests : Owed(q)' <=> Owed(q)
    BY <1>1, <1>2, Zenon DEF Owed
  <2>2. freed = TRUE => api = "idle"
    BY <1>0, Zenon DEF IInv, CallInv
  <2>3. api = "idle" => r \in early
    BY <1>0, <1>1 DEF IInv, OwedInv
  <2>4. used' = TRUE => early' # {}
    <3>1. used = TRUE => early # {}
      BY <1>0, Zenon DEF IInv, OwedInv
    <3> QED
      BY <1>1, <1>3, <2>2, <2>3, <3>1, Zenon
  <2>5. \A q \in Requests : Owed(q) => q \in early' \/ (q = req' /\ api' \in {"sent", "wait"})
    BY <1>0, <1>1 DEF IInv, OwedInv
  <2>6. req' \notin late' => \A q \in Requests : Owed(q) => q = req'
    BY <1>0, <1>1, Zenon DEF IInv, OwedInv
  <2> QED
    BY <2>1, <2>4, <2>5, <2>6, Zenon DEF OwedInv
<1>12. ResponseInv'
  <2> SUFFICES ASSUME req \in Requests, req \notin late, freed = FALSE
               PROVE  response' = SubSeq(Answer(req), 1, sent'[req])
    BY <1>1, <1>2, Zenon DEF ResponseInv, Answer
  <2>1. r = req /\ response = SubSeq(Answer(r), 1, sent[r])
    BY <1>0, <1>1 DEF IInv, OwedInv, ResponseInv
  <2>2. Append(SubSeq(Answer(r), 1, sent[r]), p) = SubSeq(Answer(r), 1, sent[r] + 1)
    BY <1>1, AnswerGrows DEF p
  <2>3. response' = Append(response, p)
    BY <1>3, Zenon
  <2> QED
    BY <1>5, <2>1, <2>2, <2>3
<1>13. CacheInv'
  BY <1>0, <1>1, CacheStays DEF IInv, StateType
<1> QED
  BY <1>7, <1>8, <1>9, <1>10, <1>11, <1>12, <1>13 DEF IInv

(* The end of an answer, which wakes whoever sleeps. *)
LEMMA DoneStep ==
    ASSUME IInv, NEW r \in Requests, End(r) \/ Error(r)
    PROVE  IInv'
<1>0. IInv
  OBVIOUS
<1>1. PICK how \in {"end", "error"} : Done(r, how) /\ (how = "end" => sent[r] = Packets)
  BY DEF End, Error
<1>2. Owed(r)
  BY DEF End, Error
<1>3. /\ channel' = [channel EXCEPT ![r] = how]
      /\ UNCHANGED <<op, req, response, sent, cache, late>>
  BY <1>1 DEF Done
<1>4. UNCHANGED <<freed, list_of_lists, connected, used>>
  BY <1>1, Zenon DEF Done
<1>5. \/ /\ api = "wait" /\ api' = "woken"
         /\ early' = IF r # req /\ Owed(req) THEN early \union {req} ELSE early
      \/ api # "wait" /\ api' = api /\ early' = early
  BY <1>1 DEF Done
<1>6. \A q \in Requests : channel'[q] = IF q = r THEN how ELSE channel[q]
  BY <1>0, <1>3 DEF IInv, StateType
<1>7. channel[r] = "open"
  BY <1>2, Zenon DEF Owed
<1>8. api = "wait" => req \in Requests
  BY <1>0 DEF IInv, CallInv
<1>9. StateType'
  BY <1>0, <1>3, <1>5 DEF IInv, StateType
<1>10. FlagType'
  BY <1>0, <1>4, Zenon DEF IInv, FlagType
<1>11. HistoryInv'
  <2>1. early' \subseteq early \union {req} /\ (early' # early => req \in Requests)
    BY <1>5, <1>8
  <2> QED
    BY <1>0, <1>3, <2>1 DEF IInv, HistoryInv, StateType
<1>12. CallInv'
  BY <1>0, <1>3, <1>4, <1>5, Zenon DEF IInv, CallInv
<1>13. ChannelInv'
  <2>1. \A q \in Requests : channel'[q] = "none" => channel[q] = "none"
    BY <1>6
  <2>2. \A q \in Requests : channel'[q] = "end" => sent[q] = Packets
    BY <1>0, <1>1, <1>6 DEF IInv, ChannelInv
  <2>3. r <= req
    BY <1>0, <1>7 DEF IInv, ChannelInv, StateType, Requests
  <2>4. \A q \in Requests : q > req => channel'[q] = "none"
    BY <1>0, <1>6, <2>3 DEF IInv, ChannelInv, StateType, Requests
  <2>5. api' = "send" => api = "send"
    BY <1>5
  <2>6. api' = "send" => channel'[req] = "none"
    BY <1>0, <1>6, <1>7, <2>5 DEF IInv, ChannelInv, CallInv
  <2>7. api' \in {"sent", "wait", "woken", "parsed"} => channel'[req] # "none"
    <3>1. api' \in {"sent", "wait", "woken", "parsed"}
            => api \in {"sent", "wait", "woken", "parsed"}
      BY <1>5
    <3>2. api \in {"sent", "wait", "woken", "parsed"}
            => req \in Requests /\ channel[req] # "none"
      BY <1>0 DEF IInv, ChannelInv, CallInv
    <3> QED
      BY <2>1, <3>1, <3>2
  <2> QED
    BY <1>0, <1>3, <2>1, <2>2, <2>4, <2>6, <2>7 DEF IInv, ChannelInv
<1>14. OwedInv'
  <2>1. \A q \in Requests : Owed(q)' => Owed(q) /\ q # r
    BY <1>4, <1>6, Zenon DEF Owed
  <2>2. \A q \in Requests : Owed(q) => q \in early \/ (q = req /\ api \in {"sent", "wait"})
    BY <1>0, Zenon DEF IInv, OwedInv
  <2>3. \A q \in Requests : Owed(q)' => q \in early' \/ (q = req' /\ api' \in {"sent", "wait"})
    <3>1. CASE api = "wait"
      BY <1>3, <1>5, <2>1, <2>2, <3>1
    <3>2. CASE api # "wait"
      BY <1>3, <1>5, <2>1, <2>2, <3>2
    <3> QED
      BY <3>1, <3>2
  <2>4. used' = TRUE => early' # {}
    <3>1. early \subseteq early'
      BY <1>5
    <3>2. used = TRUE => early # {}
      BY <1>0, Zenon DEF IInv, OwedInv
    <3> QED
      BY <1>4, <3>1, <3>2, Zenon
  <2>5. req' \notin late' => \A q \in Requests : Owed(q)' => q = req'
    <3>1. req \notin late => \A q \in Requests : Owed(q) => q = req
      BY <1>0, Zenon DEF IInv, OwedInv
    <3> QED
      BY <1>3, <2>1, <3>1
  <2> QED
    BY <2>3, <2>4, <2>5, Zenon DEF OwedInv
<1>15. ResponseInv'
  BY <1>0, <1>3, <1>4, Zenon DEF IInv, ResponseInv, Answer
<1>16. CacheInv'
  <2>1. \A q \in Requests : channel[q] \in {"end", "error"} => channel'[q] = channel[q]
    BY <1>6, <1>7
  <2>2. early \subseteq early'
    BY <1>5
  <2> QED
    BY <1>0, <1>3, <2>1, <2>2, CacheStays DEF IInv, StateType
<1> QED
  BY <1>9, <1>10, <1>11, <1>12, <1>13, <1>14, <1>15, <1>16 DEF IInv

LEMMA NextIInv ==
    ASSUME IInv, [Next]_vars
    PROVE  IInv'
<1>1. CASE UNCHANGED vars
  <2>1. UNCHANGED <<api, op, req, response, channel, sent, cache, early, late>>
    BY <1>1 DEF vars
  <2>2. UNCHANGED <<freed, list_of_lists, connected, used>>
    BY <1>1, Zenon DEF vars
  <2>3. StateType' /\ HistoryInv' /\ CallInv' /\ ChannelInv'
    BY <2>1, <2>2 DEF IInv, StateType, HistoryInv, CallInv, ChannelInv
  <2>4. FlagType' /\ OwedInv' /\ ResponseInv'
    BY <2>1, <2>2, Zenon DEF IInv, FlagType, OwedInv, Owed, ResponseInv, Answer
  <2>5. CacheInv'
    BY <2>1, CacheStays DEF IInv, StateType
  <2> QED
    BY <2>3, <2>4, <2>5 DEF IInv
<1>2. ASSUME NEW r \in Requests, Data(r) \/ End(r) \/ Error(r) PROVE IInv'
  BY <1>2, DataStep, DoneStep
<1> QED
  BY <1>1, <1>2, CallStep, LeaveStep, SendStep, UseStep, FreeStep, Zenon
  DEF Next, Caller, Network

-----------------------------------------------------------------------------
(* What a call reads when it was woken is its own answer.                   *)
LEMMA IInvResponse == IInv => ResponseIsMine
<1> SUFFICES ASSUME IInv PROVE ResponseIsMine
  OBVIOUS
<1>1. TypeOK
  <2>1. \A o \in Cached : cache[o].data \in Seq(Packet)
    BY DEF IInv, CacheInv, Entry
  <2>2. /\ list_of_lists \in BOOLEAN /\ connected \in BOOLEAN
        /\ freed \in BOOLEAN /\ used \in BOOLEAN
    BY Zenon DEF IInv, FlagType
  <2>3. StateType /\ HistoryInv
    BY DEF IInv
  <2> QED
    BY <2>1, <2>2, <2>3, Zenon DEF StateType, HistoryInv, TypeOK
<1>2. used => early # {}
  BY Zenon DEF IInv, FlagType, OwedInv
<1>3. ASSUME api = "woken", req \notin late
      PROVE  /\ response = SubSeq(Answer(req), 1, sent[req])
             /\ req \in early \/ channel[req] \in {"end", "error"}
             /\ channel[req] = "end" => sent[req] = Packets
  <2>1. req \in Requests /\ freed = FALSE /\ connected = TRUE
    BY <1>3, Zenon DEF IInv, CallInv
  <2>2. response = SubSeq(Answer(req), 1, sent[req])
    BY <1>3, <2>1 DEF IInv, ResponseInv
  <2>3. channel[req] = "open" => req \in early
    <3>1. Owed(req) => req \in early
      BY <1>3, <2>1 DEF IInv, OwedInv
    <3> QED
      BY <2>1, <3>1, Zenon DEF Owed
  <2>4. channel[req] # "none"
    BY <1>3 DEF IInv, ChannelInv
  <2> QED
    BY <2>1, <2>2, <2>3, <2>4 DEF IInv, StateType, ChannelInv
<1> QED
  BY <1>1, <1>2, <1>3, Zenon DEF ResponseIsMine

(* What is in the cache is the answer it was stored for.                    *)
LEMMA IInvCache == IInv => CachedAsAnswered
BY DEF IInv, CacheInv, Proper, CachedAsAnswered

-----------------------------------------------------------------------------
(* However slow the server is, whether it answers, fails or never answers, and  *)
(* whatever wakes a caller: a call of libdespotify that was told its answer is  *)
(* there finds in ds->response what the server sent for it, in order and        *)
(* unmixed, and all of it unless its wait ended early; if only the answers to   *)
(* the calls before it were over when it was made.  And a callback appends to a *)
(* freed response only after some wait ended early.  For any number and kind of *)
(* calls and any lengths of answers (despotify_wait_timeout,                    *)
(* despotify_plain_callback).                                                   *)
THEOREM ResponseIsOwn == Spec => []ResponseIsMine
<1>1. ASSUME IInv, [Next]_vars PROVE IInv'
  BY <1>1, NextIInv
<1>2. IInv /\ [Next]_vars => IInv'
  BY <1>1
<1> QED
  BY InitIInv, <1>2, IInvResponse, PTL DEF Spec

(* And what cache_store is given is the answer to the request it is stored for: *)
(* all of it where it was inflated first, even if the caller was woken for      *)
(* nothing; where it was not (playlists, images) it is all of it unless the     *)
(* wait ended early or the server broke the answer off.                         *)
THEOREM CacheHoldsAnswers == Spec => []CachedAsAnswered
<1>1. ASSUME IInv, [Next]_vars PROVE IInv'
  BY <1>1, NextIInv
<1>2. IInv /\ [Next]_vars => IInv'
  BY <1>1
<1> QED
  BY InitIInv, <1>2, IInvCache, PTL DEF Spec
=============================================================================
