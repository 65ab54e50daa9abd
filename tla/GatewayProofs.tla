---------------------------- MODULE GatewayProofs ----------------------------
(***************************************************************************)
(* Proofs about the gateway (Gateway).  ConnInv and RestInv are about the  *)
(* connections, SessionInv about the sessions; they hold whoever shares a  *)
(* session.  OwnerInv needs that no two connections use one session.       *)
(***************************************************************************)
EXTENDS Gateway, SequenceTheorems, TLAPS

-----------------------------------------------------------------------------
(* Arrays *)

(* a[i] = a[--n] takes exactly one element out, wherever it was.            *)
(* (gw-core.c 163-202.)                                                     *)
LEMMA Removed ==
    ASSUME NEW S, NEW a \in Seq(S), NEW i \in 1 .. Len(a), IsInjective(a)
    PROVE  /\ ReplacedByLast(a, i) \in Seq(S)
           /\ IsInjective(ReplacedByLast(a, i))
           /\ Range(ReplacedByLast(a, i)) = Range(a) \ {a[i]}
<1> DEFINE n == Len(a)
           b == [a EXCEPT ![i] = Last(a)]
           c == ReplacedByLast(a, i)
<1>1. n \in Nat /\ n >= 1 /\ i <= n
  OBVIOUS
<1>2. Last(a) = a[n] /\ a[n] \in S
  BY <1>1 DEF Last
<1>3. b \in Seq(S) /\ Len(b) = n /\ \A j \in 1 .. n : b[j] = IF j = i THEN a[n] ELSE a[j]
  BY <1>1, <1>2
<1>4. c \in Seq(S) /\ Len(c) = n - 1 /\ \A j \in 1 .. n - 1 : c[j] = b[j]
  <2>1. c = SubSeq(b, 1, n - 1)
    BY <1>3 DEF ReplacedByLast, Front
  <2> QED
    BY <2>1, <1>1, <1>3
<1>5. DOMAIN a = 1 .. n /\ DOMAIN c = 1 .. n - 1
  BY <1>4
<1>6. \A j \in 1 .. n - 1 : c[j] = IF j = i THEN a[n] ELSE a[j]
  BY <1>1, <1>3, <1>4
<1> HIDE DEF b, c, n
<1>7. \A j, k \in 1 .. n : a[j] = a[k] => j = k
  BY <1>5 DEF IsInjective
<1>8. IsInjective(c)
  BY <1>1, <1>5, <1>6, <1>7 DEF IsInjective
<1>9. ASSUME NEW j \in 1 .. n - 1 PROVE c[j] \in Range(a) \ {a[i]}
  <2>1. CASE j = i
    BY <2>1, <1>1, <1>5, <1>6, <1>7 DEF Range
  <2>2. CASE j # i
    BY <2>2, <1>1, <1>5, <1>6, <1>7 DEF Range
  <2> QED
    BY <2>1, <2>2
<1>10. ASSUME NEW j \in 1 .. n, a[j] # a[i] PROVE a[j] \in Range(c)
  <2>1. CASE j = n
    <3>1. i \in 1 .. n - 1 /\ c[i] = a[j]
      BY <2>1, <1>1, <1>6, <1>10
    <3> QED
      BY <3>1, <1>5 DEF Range
  <2>2. CASE j # n
    <3>1. j \in 1 .. n - 1 /\ c[j] = a[j]
      BY <2>2, <1>1, <1>6, <1>10
    <3> QED
      BY <3>1, <1>5 DEF Range
  <2> QED
    BY <2>1, <2>2
<1>11. Range(c) = Range(a) \ {a[i]}
  BY <1>5, <1>9, <1>10 DEF Range
<1> QED
  BY <1>4, <1>8, <1>11 DEF c

(* A new element at the end of an array.  (gw-core.c 100-118.)              *)
LEMMA Added ==
    ASSUME NEW S, NEW a \in Seq(S), NEW e \in S, e \notin Range(a), IsInjective(a)
    PROVE  /\ Append(a, e) \in Seq(S)
           /\ IsInjective(Append(a, e))
           /\ Range(Append(a, e)) = Range(a) \union {e}
<1> DEFINE n == Len(a)
           c == Append(a, e)
<1>1. n \in Nat /\ DOMAIN a = 1 .. n
  OBVIOUS
<1>2. /\ c \in Seq(S) /\ DOMAIN c = 1 .. n + 1
      /\ \A j \in 1 .. n : c[j] = a[j]
      /\ c[n + 1] = e
  OBVIOUS
<1> HIDE DEF n, c
<1>3. \A j \in 1 .. n : a[j] # e
  BY <1>1 DEF Range
<1>4. \A j, k \in 1 .. n : a[j] = a[k] => j = k
  BY <1>1 DEF IsInjective
<1>5. \A j \in 1 .. n + 1 : j \in 1 .. n \/ j = n + 1
  BY <1>1
<1>6. IsInjective(c)
  BY <1>2, <1>3, <1>4, <1>5, Zenon DEF IsInjective
<1>7. \A j \in 1 .. n : j \in 1 .. n + 1
  BY <1>1
<1>8. n + 1 \in 1 .. n + 1
  BY <1>1
<1>9. Range(c) = Range(a) \union {e}
  BY <1>1, <1>2, <1>5, <1>7, <1>8 DEF Range
<1> QED
  BY <1>2, <1>6, <1>9 DEF c

-----------------------------------------------------------------------------
(* The connections *)

ConnType == [state : RestStates, input : 0 .. MaxLines,
             user : User \union {Null}, client : Session \union {Null},
             httpreq : BOOLEAN, owed : {"no", "yes", "forgotten"}]

HasLine == {"PROCESS_INIT", "PROCESS_CLIENT", "PROCESS_HTTP", "WAITING"}

(* a connection: what its state says of its session, and of the reply it is *)
(* owed; a request over HTTP takes several lines and one reply              *)
ConnOK(r) ==
    /\ r \in ConnType
    /\ r.state \in {"PROCESS_CLIENT", "WAITING", "FREE_CLIENT"} => r.client # Null
    /\ r.state = "CLOSED" => r.client = Null
    /\ r.state \in {"PROCESS_INIT", "PROCESS_CLIENT"} => ~r.httpreq
    /\ r.state = "PROCESS_HTTP" => r.httpreq
    /\ r.state \in HasLine \/ r.httpreq => r.owed # "no"
    /\ r.owed = "yes" => r.state \in HasLine \/ r.httpreq

ConnInv ==
    /\ conn = [x \in Rest |-> conn[x]]
    /\ \A x \in Rest : ConnOK(conn[x])

PosType == pos \in [phase : {"rest", "clients"}, i : Nat \ {0}]
SockType == sock \in [Rest -> {"quiet", "data", "gone"}]
FaultInv == fault \in {"none", "freed", "null", "assert", "offset", "other"}

(* main's array of connections *)
RestInv ==
    /\ rest \in Seq(Rest) /\ IsInjective(rest)
    /\ Range(rest) = {x \in Rest : conn[x].state # "CLOSED"}

(* The connections as they are accepted, and closed.  (gw-core.c 100-118.)  *)
LEMMA NewConnOK ==
    /\ ConnOK(Accepted) /\ ConnOK(Closed)
    /\ Accepted.state = "READING" /\ Closed.state = "CLOSED"
    /\ Accepted.client = Null /\ Closed.client = Null
<1>1. 0 \in 0 .. MaxLines
  BY MaxLinesAssumption
<1>2. Accepted \in ConnType /\ Closed \in ConnType
  BY <1>1, Zenon DEF Accepted, Closed, ConnType, RestStates
<1>3. /\ Accepted.state = "READING" /\ Closed.state = "CLOSED"
      /\ Accepted.client = Null /\ Closed.client = Null
      /\ Accepted.owed = "no" /\ Closed.owed = "no"
      /\ ~Accepted.httpreq /\ ~Closed.httpreq
  BY DEF Accepted, Closed
<1> QED
  BY <1>2, <1>3 DEF ConnOK, HasLine

(* A reply, of any kind.  (rest_fsm.)                                       *)
LEMMA RepliedOK ==
    ASSUME NEW r, ConnOK(r)
    PROVE  /\ ~r.httpreq => ConnOK(Replied(r))
           /\ ConnOK(HttpReplied(r))
           /\ ConnOK(Answered(r))
           /\ Replied(r).state = "LOAD_COMMAND" /\ Replied(r).client = r.client
           /\ HttpReplied(r).state = "LOAD_COMMAND" /\ HttpReplied(r).client = r.client
           /\ Answered(r).state = "LOAD_COMMAND" /\ Answered(r).client = r.client
<1>1. ~r.httpreq => ConnOK(Replied(r))
  BY DEF ConnOK, Replied, ConnType, RestStates, HasLine
<1>2. ConnOK(HttpReplied(r))
  BY DEF ConnOK, HttpReplied, Replied, ConnType, RestStates, HasLine
<1>3. ConnOK(Answered(r))
  BY <1>1, <1>2, Zenon DEF Answered
<1>4. /\ Replied(r).state = "LOAD_COMMAND" /\ Replied(r).client = r.client
      /\ HttpReplied(r).state = "LOAD_COMMAND" /\ HttpReplied(r).client = r.client
  BY DEF ConnOK, HttpReplied, Replied, ConnType
<1>5. Answered(r).state = "LOAD_COMMAND" /\ Answered(r).client = r.client
  BY <1>4, Zenon DEF Answered
<1> QED
  BY <1>1, <1>2, <1>3, <1>4, <1>5, Zenon

(* Loading a line.  (rest_fsm, REST_STATE_LOAD_COMMAND.)                    *)
LEMMA LoadedOK ==
    ASSUME NEW r, ConnOK(r), r.state \in {"READING", "LOAD_COMMAND"}, NEW l \in Loaded(r)
    PROVE  ConnOK(l) /\ l.state \notin {"CLOSED", "WAITING"} /\ l.client = r.client
<1>0. r.input # 0 => r.input - 1 \in 0 .. MaxLines
  BY MaxLinesAssumption DEF ConnOK, ConnType
<1>1. CASE r.input = 0
  BY <1>1 DEF Loaded, ConnOK, ConnType, RestStates, HasLine
<1>2. CASE r.input # 0 /\ l = Load(r)
  BY <1>0, <1>2 DEF Load, ConnOK, ConnType, RestStates, HasLine
<1>3. CASE r.input # 0 /\ ~r.httpreq /\ l = [r EXCEPT !.state = "LOAD_COMMAND", !.input = @ - 1]
  BY <1>0, <1>3 DEF ConnOK, ConnType, RestStates, HasLine
<1> QED
  BY <1>1, <1>2, <1>3 DEF Loaded

(* The turn passes on.  (main's two loops.)                                 *)
LEMMA TurnType == PosType /\ rest \in Seq(Rest) /\ NextTurn => PosType'
BY DEF PosType, NextTurn

(* rest_fsm returns to main, which keeps the connection or closes it.       *)
LEMMA ReturnKeeps ==
    ASSUME ConnInv, RestInv, PosType, SockType, NEW x \in Rest, RestTurn(x),
           NEW r, ConnOK(r), r.state # "CLOSED", NEW ok \in BOOLEAN, Return(x, r, ok)
    PROVE  /\ ConnInv' /\ RestInv' /\ PosType' /\ SockType'
           /\ \A y \in Rest \ {x} : conn'[y] = conn[y]
           /\ IF ok THEN conn'[x] = r ELSE conn'[x] = Closed
<1>0. pos.i \in 1 .. Len(rest) /\ rest[pos.i] = x /\ DOMAIN rest = 1 .. Len(rest)
  BY DEF RestTurn, PosType, RestInv
<1>1. x \in Range(rest) /\ conn[x].state # "CLOSED"
  BY <1>0 DEF RestInv, Range
<1>2. CASE ok
  <2>1. conn' = [conn EXCEPT ![x] = r] /\ NextTurn /\ rest' = rest /\ sock' = sock
    BY <1>2 DEF Return
  <2>2. ConnInv' /\ conn'[x] = r /\ \A y \in Rest \ {x} : conn'[y] = conn[y]
    BY <2>1 DEF ConnInv
  <2>3. RestInv'
    BY <2>1, <2>2, <1>1 DEF RestInv
  <2> QED
    BY <1>2, <2>1, <2>2, <2>3, TurnType DEF RestInv, SockType
<1>3. CASE ~ok
  <2>1. /\ conn' = [conn EXCEPT ![x] = Closed]
        /\ sock' = [sock EXCEPT ![x] = "quiet"]
        /\ rest' = ReplacedByLast(rest, pos.i)
        /\ pos' = [phase |-> "clients", i |-> 1]
    BY <1>3 DEF Return
  <2>2. ConnInv' /\ conn'[x] = Closed /\ \A y \in Rest \ {x} : conn'[y] = conn[y]
    BY <2>1, NewConnOK DEF ConnInv
  <2>3. rest' \in Seq(Rest) /\ IsInjective(rest') /\ Range(rest') = Range(rest) \ {x}
    BY <2>1, <1>0, Removed DEF RestInv
  <2>4. RestInv'
    BY <2>2, <2>3, NewConnOK DEF RestInv
  <2>5. PosType' /\ SockType'
    BY <2>1 DEF PosType, SockType
  <2> QED
    BY <1>3, <2>2, <2>4, <2>5
<1> QED
  BY <1>2, <1>3

-----------------------------------------------------------------------------
(* The sessions, and what holds of main's loop whoever shares a session *)

SesType == [state : ClientStates, session : BOOLEAN, connected : BOOLEAN,
            user : User \union {Null}, http : BOOLEAN, output : Rest \union {Null}]

SessionInv ==
    /\ client \in Seq(Session) /\ IsInjective(client)
    /\ Range(client) = {s \in Session : ses[s].state # "FREED"}
    /\ ses \in [Session -> SesType]
    /\ chan \in [Session -> Seq([kind : Requests, by : Rest])]
    /\ wire \in [Session -> {"none", "other", "end", "error", "keyerr", "broken"}]
    \* the server ends only what was asked
    /\ \A s \in Session : wire[s] \in {"end", "error", "keyerr"} => chan[s] # <<>>

ConnSide == ConnInv /\ RestInv /\ PosType /\ SockType /\ FaultInv
BaseInv == ConnSide /\ SessionInv

(* the other connections are left alone *)
OthersKept(x) == \A y \in Rest \ {x} : conn'[y] = conn[y]

(* the steps of rest_fsm that look at no session but their own, and change  *)
(* none                                                                     *)
Quiet(x) ==
    \/ REST_STATE_READING(x) \/ REST_STATE_LOAD_COMMAND(x)
    \/ Quit(x) \/ Init_GET(x) \/ Invalid(x)
    \/ Http_header(x) \/ http_reply(x)
    \/ Client_logout(x) \/ Client_id(x) \/ Client_malformed(x)

(* Such a step leaves the connection's pointer as it is or clears it.       *)
(* (rest_fsm.)                                                              *)
LEMMA QuietStep ==
    ASSUME BaseInv, NEW x \in Rest, Quiet(x)
    PROVE  /\ BaseInv'
           /\ OthersKept(x)
           /\ conn'[x].client \in {conn[x].client, Null}
           /\ conn[x].state # "WAITING" /\ conn'[x].state # "WAITING"
           /\ UNCHANGED <<client, ses, chan, wire>>
           /\ fault' = "freed" => Dangling(x)
           /\ fault' # "other"
<1> DEFINE r == conn[x]
           Goal == /\ ConnSide'
                   /\ OthersKept(x)
                   /\ conn'[x].client \in {conn[x].client, Null}
                   /\ conn'[x].state # "WAITING"
                   /\ fault' = "freed" => Dangling(x)
                   /\ fault' # "other"
<1>1. ConnInv /\ RestInv /\ PosType /\ SockType /\ FaultInv /\ ConnOK(r)
  BY DEF BaseInv, ConnSide, ConnInv
<1>2. RestTurn(x) /\ r.state # "WAITING"
  BY DEF Quiet, REST_STATE_READING, REST_STATE_LOAD_COMMAND, Quit, Init_GET, Invalid, InitLine,
         ClientLine, HttpLine, Http_header, http_reply, Client_logout, Client_id, Client_malformed
<1>3. fault = "none"
  BY <1>2 DEF RestTurn, Running
<1>4. UNCHANGED <<client, ses, chan, wire>>
  BY DEF Quiet, REST_STATE_READING, REST_STATE_LOAD_COMMAND, Quit, Init_GET, Invalid,
         Http_header, http_reply, Client_logout, Client_id, Client_malformed
<1>5. ASSUME NEW q, ConnOK(q), q.state \notin {"CLOSED", "WAITING"}, q.client = r.client,
             NEW ok \in BOOLEAN, Return(x, q, ok),
             fault' \in {"none", Looked(x)}
      PROVE  Goal
  <2>1. /\ ConnInv' /\ RestInv' /\ PosType' /\ SockType' /\ OthersKept(x)
        /\ conn'[x] = q \/ conn'[x] = Closed
    BY <1>1, <1>2, <1>5, ReturnKeeps DEF OthersKept
  <2>2. fault' \in {"none", "freed"} /\ (fault' = "freed" => Dangling(x))
    BY <1>3, <1>5 DEF Looked
  <2>3. FaultInv'
    BY <2>2 DEF FaultInv
  <2> QED
    BY <1>5, <2>1, <2>2, <2>3, NewConnOK DEF ConnSide
<1>s. SessionInv'
  BY <1>4 DEF BaseInv, SessionInv
<1> SUFFICES Goal
  BY <1>2, <1>4, <1>s DEF BaseInv
<1> HIDE DEF Goal
<1>6. ASSUME r.state \in HasLine, Reply(x, fault) PROVE fault' = "none"
  BY <1>1, <1>3, <1>6 DEF Reply, ConnOK
<1>7. r.state \in HasLine /\ Reply(x, Looked(x)) => fault' = Looked(x)
  BY <1>1, <1>3 DEF Reply, ConnOK
<1>8. CASE REST_STATE_READING(x)
  <2>0. r.state = "READING" /\ fault' = "none"
    BY <1>3, <1>8 DEF REST_STATE_READING
  <2>1. CASE \E ok \in BOOLEAN : Return(x, r, ok)
    BY <2>0, <2>1, <1>1, <1>5
  <2>2. CASE /\ \E n \in 0 .. MaxLines : \E l \in Loaded([r EXCEPT !.input = n]) :
                   conn' = [conn EXCEPT ![x] = l]
             /\ sock' = [sock EXCEPT ![x] = "quiet"]
             /\ NextTurn
             /\ rest' = rest
    <3>1. PICK n \in 0 .. MaxLines : \E l \in Loaded([r EXCEPT !.input = n]) :
                   conn' = [conn EXCEPT ![x] = l]
      BY <2>2
    <3> DEFINE q == [r EXCEPT !.input = n]
    <3>2. ConnOK(q) /\ q.state = "READING" /\ q.client = r.client
      BY <1>1, <2>0 DEF ConnOK, ConnType
    <3> HIDE DEF q
    <3>3. PICK l \in Loaded(q) : conn' = [conn EXCEPT ![x] = l]
      BY <3>1 DEF q
    <3>4. ConnOK(l) /\ l.state \notin {"CLOSED", "WAITING"} /\ l.client = r.client
      BY <3>2, <3>3, LoadedOK
    <3>5. conn'[x] = l /\ OthersKept(x) /\ ConnInv'
      BY <1>1, <3>3, <3>4 DEF ConnInv, OthersKept
    <3>6. RestInv'
      BY <1>1, <2>0, <2>2, <3>4, <3>5 DEF RestInv, OthersKept
    <3>7. SockType'
      BY <1>1, <2>2 DEF SockType
    <3>8. PosType'
      BY <1>1, <2>2, TurnType DEF RestInv
    <3>9. FaultInv'
      BY <2>0 DEF FaultInv
    <3> QED
      BY <2>0, <3>4, <3>5, <3>6, <3>7, <3>8, <3>9 DEF ConnSide, Goal
  <2> QED
    BY <1>8, <2>1, <2>2 DEF REST_STATE_READING
<1>9. CASE REST_STATE_LOAD_COMMAND(x)
  <2>1. r.state = "LOAD_COMMAND" /\ fault' = "none"
    BY <1>3, <1>9 DEF REST_STATE_LOAD_COMMAND
  <2>2. PICK l \in Loaded(r) : Return(x, l, TRUE)
    BY <1>9 DEF REST_STATE_LOAD_COMMAND
  <2>3. ConnOK(l) /\ l.state \notin {"CLOSED", "WAITING"} /\ l.client = r.client
    BY <1>1, <2>1, LoadedOK
  <2> QED
    BY <1>5, <2>1, <2>2, <2>3
<1>10. CASE Quit(x)
  <2>1. r.state \in {"PROCESS_INIT", "PROCESS_CLIENT"} /\ Reply(x, fault) /\ Return(x, r, FALSE)
    BY <1>10 DEF Quit, InitLine, ClientLine
  <2>2. fault' = "none"
    BY <1>6, <2>1 DEF HasLine
  <2> QED
    BY <1>1, <1>5, <2>1, <2>2
<1>11. CASE Init_GET(x)
  <2> DEFINE q == [r EXCEPT !.state = "LOAD_COMMAND", !.httpreq = TRUE]
  <2>1. r.state = "PROCESS_INIT" /\ Return(x, q, TRUE) /\ fault' = "none"
    BY <1>3, <1>11 DEF Init_GET, InitLine
  <2>2. ConnOK(q) /\ q.state = "LOAD_COMMAND" /\ q.client = r.client
    BY <1>1, <2>1 DEF ConnOK, ConnType, RestStates, HasLine
  <2> HIDE DEF q
  <2> QED
    BY <1>5, <2>1, <2>2
<1>12. CASE Invalid(x)
  <2>1. PICK ok \in BOOLEAN : Return(x, Replied(r), ok)
    BY <1>12 DEF Invalid, Write
  <2>2. r.state \in {"PROCESS_INIT", "PROCESS_CLIENT"} /\ Reply(x, fault)
    BY <1>12 DEF Invalid, InitLine, ClientLine
  <2>3. ~r.httpreq /\ fault' = "none"
    BY <1>1, <1>6, <2>2 DEF HasLine, ConnOK
  <2> QED
    BY <1>1, <1>5, <2>1, <2>3, RepliedOK
<1>13. CASE Http_header(x)
  <2> DEFINE q == [r EXCEPT !.state = "LOAD_COMMAND"]
  <2>1. r.state = "PROCESS_HTTP" /\ Return(x, q, TRUE) /\ fault' = "none"
    BY <1>3, <1>13 DEF Http_header, HttpLine
  <2>2. ConnOK(q) /\ q.state = "LOAD_COMMAND" /\ q.client = r.client
    BY <1>1, <2>1 DEF ConnOK, ConnType, RestStates, HasLine
  <2> HIDE DEF q
  <2> QED
    BY <1>5, <2>1, <2>2
<1>14. CASE http_reply(x)
  <2>1. PICK ok \in BOOLEAN : Return(x, HttpReplied(r), ok)
    BY <1>14 DEF http_reply, Write
  <2>2. r.state = "PROCESS_HTTP" /\ Reply(x, fault)
    BY <1>14 DEF http_reply, HttpLine
  <2>3. fault' = "none"
    BY <1>6, <2>2 DEF HasLine
  <2> QED
    BY <1>1, <1>5, <2>1, <2>3, RepliedOK
<1>15. CASE Client_logout(x)
  <2> DEFINE q == [Replied(r) EXCEPT !.state = "FREE_CLIENT"]
  <2>1. r.state = "PROCESS_CLIENT" /\ Return(x, q, TRUE) /\ Reply(x, fault)
    BY <1>15 DEF Client_logout, ClientLine
  <2>2. fault' = "none"
    BY <1>6, <2>1 DEF HasLine
  <2>3. ConnOK(q) /\ q.state = "FREE_CLIENT" /\ q.client = r.client
    BY <1>1, <2>1 DEF ConnOK, ConnType, RestStates, HasLine, Replied
  <2> HIDE DEF q
  <2> QED
    BY <1>5, <2>1, <2>2, <2>3
<1>16. CASE Client_id(x) \/ Client_malformed(x)
  <2>1. r.state = "PROCESS_CLIENT" /\ Return(x, Replied(r), TRUE)
    BY <1>16 DEF Client_id, Client_malformed, ClientLine
  <2>2. fault' \in {"none", Looked(x)}
    BY <1>6, <1>7, <1>16, <2>1 DEF Client_id, Client_malformed, HasLine
  <2>3. ~r.httpreq
    BY <1>1, <2>1 DEF ConnOK
  <2> QED
    BY <1>1, <1>5, <2>1, <2>2, <2>3, RepliedOK
<1> QED
  BY <1>8, <1>9, <1>10, <1>11, <1>12, <1>13, <1>14, <1>15, <1>16 DEF Quiet

(* session takes a session that nobody else uses, or none.  (rest_fsm.)     *)
LEMMA PickStep ==
    ASSUME BaseInv, NEW x \in Rest, Init_session(x)
    PROVE  /\ BaseInv'
           /\ OthersKept(x)
           /\ \/ conn'[x].client = Null
              \/ conn'[x].client \in Range(client) /\ MayUse(x, conn'[x].client)
           /\ conn[x].state # "WAITING" /\ conn'[x].state # "WAITING"
           /\ UNCHANGED <<client, ses, chan, wire>>
           /\ fault' = "none"
<1> DEFINE r == conn[x]
<1>1. ConnInv /\ RestInv /\ PosType /\ SockType /\ ConnOK(r) /\ SessionInv
  BY DEF BaseInv, ConnSide, ConnInv
<1>2. RestTurn(x) /\ r.state = "PROCESS_INIT" /\ UNCHANGED <<client, ses, chan, wire>>
  BY DEF Init_session, InitLine
<1>3. fault' = "none"
  BY <1>1, <1>2 DEF Init_session, Reply, RestTurn, Running, ConnOK, HasLine
<1>4. PICK s \in {t \in Range(client) : MayUse(x, t)} \union {Null}, ok \in BOOLEAN :
        Return(x, Replied([r EXCEPT !.client = s]), ok)
  BY DEF Init_session, Write
<1>5. Range(client) \subseteq Session
  BY <1>1 DEF SessionInv
<1> DEFINE q == [r EXCEPT !.client = s]
<1>6. ConnOK(q) /\ ~q.httpreq /\ q.client = s
  BY <1>1, <1>2, <1>5 DEF ConnOK, ConnType, HasLine
<1> HIDE DEF q
<1>7. ConnOK(Replied(q)) /\ Replied(q).state = "LOAD_COMMAND" /\ Replied(q).client = s
  BY <1>6, RepliedOK
<1>8. /\ ConnInv' /\ RestInv' /\ PosType' /\ SockType' /\ OthersKept(x)
      /\ conn'[x] = Replied(q) \/ conn'[x] = Closed
  BY <1>1, <1>2, <1>4, <1>7, ReturnKeeps DEF OthersKept, q
<1>9. SessionInv'
  BY <1>1, <1>2 DEF SessionInv
<1>10. FaultInv'
  BY <1>3 DEF FaultInv
<1> QED
  BY <1>2, <1>3, <1>4, <1>7, <1>8, <1>9, <1>10, NewConnOK DEF BaseInv, ConnSide

(* spotify_client_allocate adds a session that is in no array.              *)
LEMMA AllocateStep ==
    ASSUME SessionInv, NEW x \in Rest, NEW u \in User, NEW s \in Session, NEW http \in BOOLEAN,
           spotify_client_allocate(x, u, s, http)
    PROVE  /\ SessionInv'
           /\ \/ /\ s \in Range(client) /\ MayUse(x, s) /\ UNCHANGED <<client, chan, wire>>
                 /\ ses' = IF http THEN [ses EXCEPT ![s].http = TRUE] ELSE ses
              \/ /\ s \notin Range(client) /\ Existing(u) = {}
                 /\ \A x1 \in Rest : conn[x1].client # s
                 /\ Range(client') = Range(client) \union {s}
                 /\ ses' = [ses EXCEPT ![s] = [NewClient(u) EXCEPT !.http = http]]
                 /\ chan' = [chan EXCEPT ![s] = <<>>]
                 /\ wire' = [wire EXCEPT ![s] = "none"]
<1>1. CASE /\ s \in Existing(u) /\ MayUse(x, s)
           /\ ses' = IF http THEN [ses EXCEPT ![s].http = TRUE] ELSE ses
           /\ UNCHANGED <<client, chan, wire>>
  <2>1. s \in Range(client)
    BY <1>1 DEF Existing
  <2>2. ses' \in [Session -> SesType] /\ \A t \in Session : ses'[t].state = ses[t].state
    <3>1. CASE ~http
      BY <1>1, <3>1 DEF SessionInv
    <3>2. CASE http
      <4>1. ses' = [ses EXCEPT ![s].http = TRUE] /\ ses \in [Session -> SesType]
        BY <1>1, <3>2 DEF SessionInv
      <4> QED
        BY <4>1 DEF SesType
    <3> QED
      BY <3>1, <3>2
  <2>3. SessionInv'
    BY <1>1, <2>2 DEF SessionInv
  <2> QED
    BY <1>1, <2>1, <2>3
<1>2. CASE /\ Existing(u) = {} /\ s \in Fresh
           /\ ses' = [ses EXCEPT ![s] = [NewClient(u) EXCEPT !.http = http]]
           /\ client' = Append(client, s)
           /\ chan' = [chan EXCEPT ![s] = <<>>]
           /\ wire' = [wire EXCEPT ![s] = "none"]
  <2> DEFINE c == [NewClient(u) EXCEPT !.http = http]
  <2>1. s \notin Range(client) /\ \A x1 \in Rest : conn[x1].client # s
    BY <1>2 DEF Fresh, SessionInv
  <2>2. client' \in Seq(Session) /\ IsInjective(client') /\ Range(client') = Range(client) \union {s}
    BY <1>2, <2>1, Added DEF SessionInv
  <2>3. c \in SesType
    BY Zenon DEF NewClient, SesType, ClientStates
  <2>4. c.state = "ALLOCATE"
    BY DEF NewClient
  <2> HIDE DEF c
  <2>5. ses' = [ses EXCEPT ![s] = c]
    BY <1>2 DEF c
  <2>6. ses' \in [Session -> SesType] /\ \A t \in Session : ses'[t] = IF t = s THEN c ELSE ses[t]
    BY <2>3, <2>5 DEF SessionInv
  <2>7. Range(client') = {t \in Session : ses'[t].state # "FREED"}
    BY <2>2, <2>4, <2>6 DEF SessionInv
  <2>8. <<>> \in Seq([kind : Requests, by : Rest])
    OBVIOUS
  <2>9. chan' \in [Session -> Seq([kind : Requests, by : Rest])]
    BY <1>2, <2>8 DEF SessionInv
  <2>10. wire' \in [Session -> {"none", "other", "end", "error", "keyerr", "broken"}]
    BY <1>2 DEF SessionInv
  <2>11. \A t \in Session : wire'[t] \in {"end", "error", "keyerr"} => chan'[t] # <<>>
    BY <1>2 DEF SessionInv
  <2>12. SessionInv'
    BY <2>2, <2>6, <2>7, <2>9, <2>10, <2>11 DEF SessionInv
  <2> QED
    BY <1>2, <2>1, <2>2, <2>12
<1> QED
  BY <1>1, <1>2 DEF spotify_client_allocate

(* A login, plain or over HTTP: the connection points to the session, and   *)
(* waits for it if it is new.  (rest_fsm, http_handle_request.)             *)
LEMMA LoginStep ==
    ASSUME BaseInv, NEW x \in Rest, Init_login(x) \/ http_handle_request(x)
    PROVE  /\ BaseInv'
           /\ OthersKept(x)
           /\ conn[x].state # "WAITING"
           /\ fault' = "none"
           /\ \E u \in User, s \in Session, http \in BOOLEAN :
                /\ spotify_client_allocate(x, u, s, http)
                /\ http => spotify_find_http_client = {}
                /\ conn'[x].client \in {s, Null}
                /\ s \notin Range(client) => conn'[x].client = s /\ conn'[x].state = "WAITING"
<1> DEFINE r == conn[x]
<1>1. ConnInv /\ RestInv /\ PosType /\ SockType /\ ConnOK(r) /\ SessionInv
  BY DEF BaseInv, ConnSide, ConnInv
<1>2. RestTurn(x) /\ r.state \in {"PROCESS_INIT", "PROCESS_HTTP"}
  BY DEF Init_login, http_handle_request, HttpLine
<1>3. fault = "none" /\ r.owed # "no"
  BY <1>1, <1>2 DEF RestTurn, Running, ConnOK, HasLine
<1>4. ASSUME NEW u \in User, NEW s \in Session, NEW http \in BOOLEAN,
             spotify_client_allocate(x, u, s, http),
             http => spotify_find_http_client = {},
             NEW q, ConnOK(q), q.state # "CLOSED", q.client = s,
             NEW ok \in BOOLEAN, Return(x, q, ok), fault' = "none",
             s \notin Range(client) => ok /\ q.state = "WAITING"
      PROVE  /\ BaseInv'
             /\ OthersKept(x)
             /\ conn'[x].client \in {s, Null}
             /\ s \notin Range(client) => conn'[x].client = s /\ conn'[x].state = "WAITING"
  <2>1. /\ ConnInv' /\ RestInv' /\ PosType' /\ SockType' /\ OthersKept(x)
        /\ IF ok THEN conn'[x] = q ELSE conn'[x] = Closed
    BY <1>1, <1>2, <1>4, ReturnKeeps DEF OthersKept
  <2>2. SessionInv'
    BY <1>1, <1>4, AllocateStep
  <2>3. FaultInv'
    BY <1>4 DEF FaultInv
  <2> QED
    BY <1>4, <2>1, <2>2, <2>3, NewConnOK DEF BaseInv, ConnSide
<1>5. CASE Init_login(x)
  <2>0. r.state = "PROCESS_INIT"
    BY <1>5 DEF Init_login
  <2>1. PICK u \in User, s \in Session :
          /\ spotify_client_allocate(x, u, s, FALSE)
          /\ LET c == [r EXCEPT !.client = s, !.user = Null]
             IN  \/ /\ s \notin Range(client)
                    /\ Return(x, [c EXCEPT !.state = "WAITING"], TRUE)
                    /\ UNCHANGED fault
                 \/ /\ s \in Range(client) /\ ses[s].state = "ALLOCATE"
                    /\ Return(x, [c EXCEPT !.user = u], TRUE)
                    /\ UNCHANGED fault
                 \/ /\ s \in Range(client) /\ ses[s].state # "ALLOCATE"
                    /\ Reply(x, fault)
                    /\ \E ok \in Write(x) : Return(x, Replied(c), ok)
    <3>1. r.user # Null => r.user \in User
      BY <1>1 DEF ConnOK, ConnType
    <3> QED
      BY <1>5, <3>1 DEF Init_login
  <2> DEFINE c == [r EXCEPT !.client = s, !.user = Null]
             c1 == [c EXCEPT !.state = "WAITING"]
             c2 == [c EXCEPT !.user = u]
  <2>2. ConnOK(c) /\ ~c.httpreq /\ c.client = s
    BY <1>1, <2>0 DEF ConnOK, ConnType, HasLine
  <2>3. ConnOK(c1) /\ c1.state = "WAITING" /\ c1.client = s
    BY <1>1, <2>0, NullAssumption DEF ConnOK, ConnType, HasLine, RestStates
  <2>4. ConnOK(c2) /\ c2.state = "PROCESS_INIT" /\ c2.client = s
    BY <1>1, <2>0 DEF ConnOK, ConnType, HasLine
  <2>5. ConnOK(Replied(c)) /\ Replied(c).state = "LOAD_COMMAND" /\ Replied(c).client = s
    <3> HIDE DEF c
    <3> QED
      BY <2>2, RepliedOK
  <2>6. \/ s \notin Range(client) /\ Return(x, c1, TRUE) /\ fault' = "none"
        \/ s \in Range(client) /\ Return(x, c2, TRUE) /\ fault' = "none"
        \/ /\ s \in Range(client) /\ Reply(x, fault)
           /\ \E ok \in BOOLEAN : Return(x, Replied(c), ok)
    BY <1>3, <2>1 DEF Write
  <2>7. Reply(x, fault) => fault' = "none"
    BY <1>3 DEF Reply
  <2> HIDE DEF c, c1, c2
  <2>8. /\ BaseInv'
        /\ OthersKept(x)
        /\ conn'[x].client \in {s, Null}
        /\ s \notin Range(client) => conn'[x].client = s /\ conn'[x].state = "WAITING"
        /\ fault' = "none"
    <3>1. CASE s \notin Range(client) /\ Return(x, c1, TRUE) /\ fault' = "none"
      BY <3>1, <1>4, <2>1, <2>3
    <3>2. CASE s \in Range(client) /\ Return(x, c2, TRUE) /\ fault' = "none"
      BY <3>2, <1>4, <2>1, <2>4
    <3>3. CASE /\ s \in Range(client) /\ Reply(x, fault)
               /\ \E ok \in BOOLEAN : Return(x, Replied(c), ok)
      <4>1. PICK ok \in BOOLEAN : Return(x, Replied(c), ok)
        BY <3>3
      <4> QED
        BY <3>3, <4>1, <1>4, <2>1, <2>5, <2>7
    <3> QED
      BY <2>6, <3>1, <3>2, <3>3
  <2> QED
    BY <2>0, <2>1, <2>8
<1>6. CASE http_handle_request(x)
  <2>0. r.state = "PROCESS_HTTP" /\ spotify_find_http_client = {}
    BY <1>6 DEF http_handle_request, HttpLine
  <2>1. PICK u \in User, s \in Session :
          /\ spotify_client_allocate(x, u, s, TRUE)
          /\ IF s \in Range(client) /\ ses[s].state = "IDLE_CONNECTED"
             THEN /\ Reply(x, fault)
                  /\ \E ok \in Write(x) : Return(x, HttpReplied([r EXCEPT !.client = s]), ok)
             ELSE /\ Return(x, [r EXCEPT !.client = s, !.state = "WAITING"], TRUE)
                  /\ UNCHANGED fault
    BY <1>6 DEF http_handle_request
  <2> DEFINE c == [r EXCEPT !.client = s]
             c1 == [r EXCEPT !.client = s, !.state = "WAITING"]
  <2>2. ConnOK(c) /\ c.client = s
    BY <1>1, <2>0 DEF ConnOK, ConnType, HasLine
  <2>3. ConnOK(c1) /\ c1.state = "WAITING" /\ c1.client = s
    BY <1>1, <2>0, NullAssumption DEF ConnOK, ConnType, HasLine, RestStates
  <2>4. ConnOK(HttpReplied(c)) /\ HttpReplied(c).state = "LOAD_COMMAND" /\ HttpReplied(c).client = s
    <3> HIDE DEF c
    <3> QED
      BY <2>2, RepliedOK
  <2>5. \/ Return(x, c1, TRUE) /\ fault' = "none"
        \/ /\ s \in Range(client) /\ Reply(x, fault)
           /\ \E ok \in BOOLEAN : Return(x, HttpReplied(c), ok)
    BY <1>3, <2>1 DEF Write
  <2>6. Reply(x, fault) => fault' = "none"
    BY <1>3 DEF Reply
  <2> HIDE DEF c, c1
  <2>7. /\ BaseInv'
        /\ OthersKept(x)
        /\ conn'[x].client \in {s, Null}
        /\ s \notin Range(client) => conn'[x].client = s /\ conn'[x].state = "WAITING"
        /\ fault' = "none"
    <3>1. CASE Return(x, c1, TRUE) /\ fault' = "none"
      BY <3>1, <1>4, <2>0, <2>1, <2>3
    <3>2. CASE /\ s \in Range(client) /\ Reply(x, fault)
               /\ \E ok \in BOOLEAN : Return(x, HttpReplied(c), ok)
      <4>1. PICK ok \in BOOLEAN : Return(x, HttpReplied(c), ok)
        BY <3>2
      <4>2. s \in Range(client) /\ fault' = "none"
        BY <3>2, <2>6
      <4> DEFINE q == HttpReplied(c)
      <4>3. ConnOK(q) /\ q.state # "CLOSED" /\ q.client = s /\ Return(x, q, ok)
        BY <2>4, <4>1
      <4>4. spotify_client_allocate(x, u, s, TRUE)
        BY <2>1
      <4> HIDE DEF q
      <4> QED
        BY <2>0, <4>2, <4>3, <4>4, <1>4
    <3> QED
      BY <2>5, <3>1, <3>2
  <2> QED
    BY <2>0, <2>1, <2>7
<1> QED
  BY <1>5, <1>6

(* Changing one field of a session that stays in the array.                 *)
LEMMA SessionKept ==
    ASSUME SessionInv, UNCHANGED client, ses' \in [Session -> SesType],
           \A s \in Session : ses[s].state = "FREED" <=> ses'[s].state = "FREED",
           chan' \in [Session -> Seq([kind : Requests, by : Rest])],
           wire' \in [Session -> {"none", "other", "end", "error", "keyerr", "broken"}],
           \A s \in Session : wire'[s] \in {"end", "error", "keyerr"} => chan'[s] # <<>>
    PROVE  SessionInv'
BY DEF SessionInv

(* A request opens a channel and waits; or it could not be sent, and the    *)
(* connection is closed.  (gw_search, gw_browse, ...)                       *)
LEMMA RequestStep ==
    ASSUME BaseInv, NEW x \in Rest, NEW k, gw_request(x, k)
    PROVE  LET s == conn[x].client
           IN  /\ BaseInv'
               /\ OthersKept(x)
               /\ s \in Session /\ conn[x].state = "PROCESS_CLIENT"
               /\ ses' = [ses EXCEPT ![s].output = x]
               /\ UNCHANGED <<client, wire>>
               /\ \/ chan' = chan /\ conn'[x] = Closed
                  \/ /\ chan' = [chan EXCEPT ![s] = Append(@, [kind |-> k, by |-> x])]
                     /\ conn'[x].state = "WAITING" /\ conn'[x].client = s
                     /\ k \in Requests
               /\ fault' = "freed" => Dangling(x)
               /\ fault' # "other"
<1> DEFINE r == conn[x]
           s == r.client
           q == [r EXCEPT !.state = "WAITING"]
           p == [kind |-> k, by |-> x]
<1>1. ConnInv /\ RestInv /\ PosType /\ SockType /\ ConnOK(r) /\ SessionInv
  BY DEF BaseInv, ConnSide, ConnInv
<1>2. /\ RestTurn(x) /\ r.state = "PROCESS_CLIENT" /\ k \in Requests
      /\ ses' = [ses EXCEPT ![s].output = x]
      /\ client' = client /\ wire' = wire /\ fault' = Looked(x)
  BY DEF gw_request, ClientLine
<1>3. s \in Session
  BY <1>1, <1>2 DEF ConnOK, ConnType
<1>4. PICK sent \in BOOLEAN :
        /\ chan' = IF sent THEN [chan EXCEPT ![s] = Append(@, p)] ELSE chan
        /\ Return(x, q, sent)
  BY DEF gw_request, Sends
<1>5. ConnOK(q) /\ q.state = "WAITING" /\ q.client = s
  BY <1>1, <1>2 DEF ConnOK, ConnType, HasLine, RestStates
<1>6. p \in [kind : Requests, by : Rest]
  BY <1>2
<1> HIDE DEF q, p
<1>7. /\ ConnInv' /\ RestInv' /\ PosType' /\ SockType' /\ OthersKept(x)
      /\ IF sent THEN conn'[x] = q ELSE conn'[x] = Closed
  BY <1>1, <1>2, <1>4, <1>5, ReturnKeeps DEF OthersKept
<1>8. /\ fault' \in {"none", "freed"} /\ (fault' = "freed" => Dangling(x))
  BY <1>2 DEF Looked, RestTurn, Running
<1>9. FaultInv'
  BY <1>8 DEF FaultInv
<1>10. chan' \in [Session -> Seq([kind : Requests, by : Rest])]
       /\ \A t \in Session : chan[t] # <<>> => chan'[t] # <<>>
  <2>1. CASE ~sent
    BY <1>1, <1>4, <2>1 DEF SessionInv
  <2>2. CASE sent
    <3>1. chan[s] \in Seq([kind : Requests, by : Rest])
      BY <1>1, <1>3 DEF SessionInv
    <3>2. Append(chan[s], p) \in Seq([kind : Requests, by : Rest]) /\ Append(chan[s], p) # <<>>
      BY <1>6, <3>1
    <3> QED
      BY <1>1, <1>3, <1>4, <2>2, <3>2 DEF SessionInv
  <2> QED
    BY <2>1, <2>2
<1>11. ses' \in [Session -> SesType] /\ \A t \in Session : ses'[t].state = ses[t].state
  <2> DEFINE n == [ses[s] EXCEPT !.output = x]
  <2>1. ses \in [Session -> SesType] /\ ses' = [ses EXCEPT ![s] = n]
    BY <1>1, <1>2 DEF SessionInv
  <2>2. n \in SesType /\ n.state = ses[s].state
    BY <1>3, <2>1 DEF SesType
  <2> HIDE DEF n
  <2> QED
    BY <1>3, <2>1, <2>2
<1>12. SessionInv'
  BY <1>1, <1>2, <1>10, <1>11, SessionKept DEF SessionInv
<1>13. \/ chan' = chan /\ conn'[x] = Closed
       \/ /\ chan' = [chan EXCEPT ![s] = Append(@, p)]
          /\ conn'[x].state = "WAITING" /\ conn'[x].client = s
  BY <1>4, <1>5, <1>7
<1> QED
  BY <1>2, <1>3, <1>7, <1>8, <1>9, <1>12, <1>13 DEF BaseInv, ConnSide, p

(* A connection that waits finds its session done with its login or its     *)
(* command, or failed: it replies, and leaves the session idle.             *)
LEMMA WaitStep ==
    ASSUME BaseInv, NEW x \in Rest, Waiting_command(x) \/ Waiting_login(x) \/ Waiting_error(x)
    PROVE  LET s == conn[x].client
           IN  /\ BaseInv'
               /\ OthersKept(x)
               /\ s \in Session /\ conn[x].state = "WAITING"
               /\ ses[s].state \in Errors \union {"COMMAND_COMPLETE", "LOGIN_COMPLETE"}
               /\ \A t \in Session \ {s} : ses'[t] = ses[t]
               /\ ses'[s].state \in {"IDLE_CONNECTED", "IDLE_DISCONNECTED"}
               /\ ses'[s].user = ses[s].user /\ ses'[s].http = ses[s].http
               /\ UNCHANGED <<client, chan, wire>>
               /\ conn'[x].state # "WAITING" /\ conn'[x].client \in {s, Null}
               /\ fault' # "freed"
               /\ fault' = "other" => ses[s].state = "COMMAND_COMPLETE" /\ ses[s].output \notin {x, Null}
<1> DEFINE r == conn[x]
           s == r.client
           q1 == Answered(r)
           q2 == [Answered(r) EXCEPT !.state = "FREE_CLIENT"]
<1>1. ConnInv /\ RestInv /\ PosType /\ SockType /\ ConnOK(r) /\ SessionInv
  BY DEF BaseInv, ConnSide, ConnInv
<1>2. /\ RestTurn(x) /\ r.state = "WAITING"
      /\ ses[s].state \in Errors \union {"COMMAND_COMPLETE", "LOGIN_COMPLETE"}
      /\ UNCHANGED <<client, chan, wire>>
  BY DEF Waiting_command, Waiting_login, Waiting_error, Waits
<1>3. s \in Session /\ ses[s] \in SesType
  BY <1>1, <1>2 DEF ConnOK, ConnType, SessionInv
<1>4. fault = "none" /\ r.owed # "no"
  BY <1>1, <1>2 DEF RestTurn, Running, ConnOK, HasLine
<1>5. ConnOK(q1) /\ q1.state = "LOAD_COMMAND" /\ q1.client = s
  BY <1>1, RepliedOK
<1>6. ConnOK(q2) /\ q2.state = "FREE_CLIENT" /\ q2.client = s
  <2> HIDE DEF q1
  <2>1. s # Null
    BY <1>3, NullAssumption
  <2>2. q2 = [q1 EXCEPT !.state = "FREE_CLIENT"]
    BY DEF q1
  <2> HIDE DEF q2
  <2> QED
    BY <1>5, <2>1, <2>2 DEF ConnOK, ConnType, HasLine, RestStates
<1> HIDE DEF q1, q2
<1>7. PICK ok \in BOOLEAN : Return(x, q1, ok) \/ Return(x, q2, ok)
  BY DEF Waiting_command, Waiting_login, Waiting_error, Write, q1, q2
<1>8. /\ ConnInv' /\ RestInv' /\ PosType' /\ SockType' /\ OthersKept(x)
      /\ conn'[x] = q1 \/ conn'[x] = q2 \/ conn'[x] = Closed
  BY <1>1, <1>2, <1>5, <1>6, <1>7, ReturnKeeps DEF OthersKept
<1>9. /\ fault' \in {"none", "other"}
      /\ fault' = "other" => ses[s].state = "COMMAND_COMPLETE" /\ ses[s].output \notin {x, Null}
  BY <1>4 DEF Waiting_command, Waiting_login, Waiting_error, Waits, Reply
<1>10. FaultInv'
  BY <1>9 DEF FaultInv
<1>11. /\ ses' \in [Session -> SesType] /\ \A t \in Session \ {s} : ses'[t] = ses[t]
       /\ ses'[s].state \in {"IDLE_CONNECTED", "IDLE_DISCONNECTED"}
       /\ ses'[s].user = ses[s].user /\ ses'[s].http = ses[s].http
  <2>1. ses \in [Session -> SesType]
    BY <1>1 DEF SessionInv
  <2>2. CASE Waiting_command(x)
    BY <1>3, <2>1, <2>2 DEF Waiting_command, SesType, ClientStates
  <2>3. CASE Waiting_login(x)
    BY <1>3, <2>1, <2>3 DEF Waiting_login, SesType, ClientStates
  <2>4. CASE Waiting_error(x)
    BY <1>3, <2>1, <2>4 DEF Waiting_error, SesType, ClientStates
  <2> QED
    BY <2>2, <2>3, <2>4
<1>12. SessionInv'
  <2>1. \A t \in Session : ses[t].state = "FREED" <=> ses'[t].state = "FREED"
    BY <1>2, <1>11 DEF Errors
  <2>2. client' = client /\ chan' = chan /\ wire' = wire
    BY <1>2
  <2> QED
    BY <1>1, <1>11, <2>1, <2>2 DEF SessionInv
<1> QED
  BY <1>2, <1>3, <1>5, <1>6, <1>7, <1>8, <1>9, <1>10, <1>11, <1>12, NewConnOK DEF BaseInv, ConnSide

(* A session is freed: it leaves the array, and nothing of it is left.      *)
LEMMA FreedStep ==
    ASSUME SessionInv, NEW i \in 1 .. Len(client), NEW s \in Session, client[i] = s,
           client' = ReplacedByLast(client, i),
           ses' = [ses EXCEPT ![s] = Freed],
           chan' = [chan EXCEPT ![s] = <<>>],
           wire' = [wire EXCEPT ![s] = "none"]
    PROVE  SessionInv' /\ Range(client') = Range(client) \ {s} /\ s \in Range(client)
<1>1. Freed \in SesType
  BY Zenon DEF Freed, NewClient, SesType, ClientStates
<1>2. Freed.state = "FREED"
  BY DEF Freed, NewClient
<1>3. /\ client' \in Seq(Session) /\ IsInjective(client')
      /\ Range(client') = Range(client) \ {s}
  BY Removed DEF SessionInv
<1>4. s \in Range(client)
  BY DEF Range, SessionInv
<1>5. ses' \in [Session -> SesType] /\ \A t \in Session : ses'[t] = IF t = s THEN Freed ELSE ses[t]
  BY <1>1 DEF SessionInv
<1>6. Range(client') = {t \in Session : ses'[t].state # "FREED"}
  BY <1>2, <1>3, <1>5 DEF SessionInv
<1>7. <<>> \in Seq([kind : Requests, by : Rest])
  OBVIOUS
<1>8. chan' \in [Session -> Seq([kind : Requests, by : Rest])]
  BY <1>7 DEF SessionInv
<1>9. /\ wire' \in [Session -> {"none", "other", "end", "error", "keyerr", "broken"}]
      /\ \A t \in Session : wire'[t] \in {"end", "error", "keyerr"} => chan'[t] # <<>>
  BY DEF SessionInv
<1> QED
  BY <1>3, <1>4, <1>5, <1>6, <1>8, <1>9 DEF SessionInv

(* REST_STATE_FREE_CLIENT frees the session of the connection.              *)
LEMMA FreeStep ==
    ASSUME BaseInv, NEW x \in Rest, REST_STATE_FREE_CLIENT(x), fault' # "assert"
    PROVE  LET s == conn[x].client
           IN  /\ BaseInv'
               /\ OthersKept(x)
               /\ s \in Range(client) /\ conn[x].state = "FREE_CLIENT"
               /\ conn'[x].client = Null /\ conn'[x].state = "LOAD_COMMAND"
               /\ Range(client') = Range(client) \ {s}
               /\ ses' = [ses EXCEPT ![s] = Freed]
               /\ chan' = [chan EXCEPT ![s] = <<>>]
               /\ wire' = [wire EXCEPT ![s] = "none"]
               /\ fault' = "none"
<1> DEFINE r == conn[x]
           s == r.client
           q == [r EXCEPT !.client = Null, !.state = "LOAD_COMMAND"]
<1>1. ConnInv /\ RestInv /\ PosType /\ SockType /\ ConnOK(r) /\ SessionInv
  BY DEF BaseInv, ConnSide, ConnInv
<1>2. /\ RestTurn(x) /\ r.state = "FREE_CLIENT"
      /\ \E i \in {i \in DOMAIN client : client[i] = s} : client' = ReplacedByLast(client, i)
      /\ ses' = [ses EXCEPT ![s] = Freed]
      /\ chan' = [chan EXCEPT ![s] = <<>>]
      /\ wire' = [wire EXCEPT ![s] = "none"]
      /\ Return(x, q, TRUE)
      /\ fault' = fault
  BY DEF REST_STATE_FREE_CLIENT
<1>3. ConnOK(q) /\ q.state = "LOAD_COMMAND" /\ q.client = Null
  BY <1>1, <1>2 DEF ConnOK, ConnType, HasLine, RestStates
<1> HIDE DEF q
<1>4. /\ ConnInv' /\ RestInv' /\ PosType' /\ SockType' /\ OthersKept(x)
      /\ conn'[x] = q
  BY <1>1, <1>2, <1>3, ReturnKeeps DEF OthersKept
<1>5. PICK i \in 1 .. Len(client) : client[i] = s /\ client' = ReplacedByLast(client, i)
  BY <1>1, <1>2 DEF SessionInv
<1>6. s \in Session
  BY <1>1, <1>2 DEF ConnOK, ConnType
<1>7. SessionInv' /\ Range(client') = Range(client) \ {s} /\ s \in Range(client)
  BY <1>1, <1>2, <1>5, <1>6, FreedStep
<1>8. fault' = "none"
  BY <1>2 DEF RestTurn, Running
<1>9. FaultInv'
  BY <1>8 DEF FaultInv
<1> QED
  BY <1>2, <1>3, <1>4, <1>7, <1>8, <1>9 DEF BaseInv, ConnSide

(* the steps of rest_fsm that only pass on the turn, and those that end in  *)
(* an assertion                                                             *)
Stopped(x) ==
    /\ UNCHANGED <<rest, client, conn, ses, chan, sock, wire, pos>>
    /\ fault' \in {"assert", "offset", "freed", "null"}
    /\ fault' = "freed" => Dangling(x)

(* Every step of rest_fsm is one of those above.                            *)
LEMMA RestFsmSteps ==
    ASSUME BaseInv, NEW x \in Rest, rest_fsm(x)
    PROVE  \/ Quiet(x)
           \/ Init_session(x)
           \/ Init_login(x) \/ http_handle_request(x)
           \/ \E k : gw_request(x, k)
           \/ Waiting_command(x) \/ Waiting_login(x) \/ Waiting_error(x)
           \/ Waiting_idle(x)
           \/ REST_STATE_FREE_CLIENT(x) /\ fault' # "assert"
           \/ Stopped(x)
<1>1. gw_file_stream(x) => gw_request(x, "substream") \/ Stopped(x)
  BY DEF gw_file_stream, Stopped
<1>2. Waiting_default(x) => Stopped(x)
  BY DEF Waiting_default, Stopped
<1>3. REST_STATE_FREE_CLIENT(x) /\ fault' = "assert" => Stopped(x)
  BY DEF REST_STATE_FREE_CLIENT, Stopped, RestTurn, Running
<1>4. gw_search(x) \/ gw_browse(x) \/ gw_image(x) \/ gw_getplaylist(x) \/ gw_file_key(x)
        => \E k : gw_request(x, k)
  BY DEF gw_search, gw_browse, gw_image, gw_getplaylist, gw_file_key
<1>5. gw_request(x, "substream") => \E k : gw_request(x, k)
  BY Zenon
<1> QED
  BY <1>1, <1>2, <1>3, <1>4, <1>5, Zenon DEF rest_fsm, Quiet

-----------------------------------------------------------------------------
(* The steps of a session *)

(* A login that succeeds or fails.  (CLIENT_STATE_ALLOCATE.)                *)
LEMMA ConnectStep ==
    ASSUME BaseInv, NEW s \in Session, CLIENT_STATE_ALLOCATE(s)
    PROVE  /\ BaseInv'
           /\ UNCHANGED <<client, conn, chan, wire, fault>>
           /\ ses[s].state = "ALLOCATE"
           /\ \A t \in Session \ {s} : ses'[t] = ses[t]
           /\ ses'[s].state \in Errors \union {"LOGIN_COMPLETE"}
           /\ ses'[s].user = ses[s].user /\ ses'[s].http = ses[s].http
<1> DEFINE with(state, session, connected) ==
             [ses EXCEPT ![s].state = state, ![s].session = session, ![s].connected = connected]
<1>1. /\ ses[s].state = "ALLOCATE" /\ NextTurn
      /\ UNCHANGED <<rest, client, conn, chan, sock, wire, fault>>
  BY DEF CLIENT_STATE_ALLOCATE
<1>2. PICK state \in Errors \union {"LOGIN_COMPLETE"}, session \in BOOLEAN, connected \in BOOLEAN :
        ses' = with(state, session, connected)
  BY DEF CLIENT_STATE_ALLOCATE, Errors
<1>3. ses \in [Session -> SesType]
  BY DEF BaseInv, SessionInv
<1>4. /\ ses' \in [Session -> SesType]
      /\ \A t \in Session \ {s} : ses'[t] = ses[t]
      /\ ses'[s].state = state
      /\ ses'[s].user = ses[s].user /\ ses'[s].http = ses[s].http
  <2> DEFINE c == [ses[s] EXCEPT !.state = state, !.session = session, !.connected = connected]
  <2>1. ses[s] \in SesType
    BY <1>3
  <2>2. c \in SesType /\ c.state = state /\ c.user = ses[s].user /\ c.http = ses[s].http
    BY <2>1 DEF SesType, ClientStates, Errors
  <2>3. ses' = [ses EXCEPT ![s] = c]
    BY <1>2, <1>3, <2>1 DEF SesType
  <2> HIDE DEF c
  <2> QED
    BY <1>3, <2>2, <2>3
<1>5. \A t \in Session : ses[t].state = "FREED" <=> ses'[t].state = "FREED"
  BY <1>1, <1>4 DEF Errors
<1>6. SessionInv'
  BY <1>1, <1>4, <1>5, SessionKept DEF BaseInv, SessionInv
<1>7. ConnSide'
  BY <1>1, TurnType DEF BaseInv, ConnSide, ConnInv, RestInv, SockType, FaultInv
<1> QED
  BY <1>1, <1>4, <1>6, <1>7 DEF BaseInv

(* A packet for nobody.  (ReadOther.)                                       *)
LEMMA OtherStep ==
    ASSUME BaseInv, NEW s \in Session, ReadOther(s)
    PROVE  /\ BaseInv'
           /\ UNCHANGED <<client, conn, ses, fault>>
           /\ \A t \in Session \ {s} : chan'[t] = chan[t]
           /\ chan'[s] = chan[s] \/ (chan[s] # <<>> /\ chan'[s] = Tail(chan[s]))
<1>1. /\ wire[s] \in {"other", "keyerr"}
      /\ chan' = IF wire[s] = "keyerr" THEN [chan EXCEPT ![s] = Tail(@)] ELSE chan
      /\ wire' = [wire EXCEPT ![s] = "none"]
      /\ NextTurn
      /\ UNCHANGED <<rest, client, conn, ses, sock, fault>>
  BY DEF ReadOther
<1>2. SessionInv
  BY DEF BaseInv
<1>3. wire[s] = "keyerr" => chan[s] # <<>> /\ Tail(chan[s]) \in Seq([kind : Requests, by : Rest])
  <2> DEFINE R == [kind : Requests, by : Rest]
  <2>1. chan[s] \in Seq(R) /\ (wire[s] = "keyerr" => chan[s] # <<>>)
    BY <1>2 DEF SessionInv
  <2> HIDE DEF R
  <2>2. chan[s] # <<>> => Tail(chan[s]) \in Seq(R)
    BY <2>1
  <2> QED
    BY <2>1, <2>2 DEF R
<1>4. /\ chan' \in [Session -> Seq([kind : Requests, by : Rest])]
      /\ \A t \in Session \ {s} : chan'[t] = chan[t]
      /\ chan'[s] = chan[s] \/ (chan[s] # <<>> /\ chan'[s] = Tail(chan[s]))
  <2>1. CASE wire[s] = "keyerr"
    <3>1. chan' = [chan EXCEPT ![s] = Tail(chan[s])]
      BY <1>1, <2>1
    <3> QED
      BY <1>2, <1>3, <2>1, <3>1 DEF SessionInv
  <2>2. CASE wire[s] # "keyerr"
    BY <1>1, <1>2, <2>2 DEF SessionInv
  <2> QED
    BY <2>1, <2>2
<1>5. /\ wire' \in [Session -> {"none", "other", "end", "error", "keyerr", "broken"}]
      /\ wire'[s] = "none" /\ \A t \in Session \ {s} : wire'[t] = wire[t]
  BY <1>1, <1>2 DEF SessionInv
<1>6. SessionInv'
  BY <1>1, <1>2, <1>4, <1>5 DEF SessionInv
<1>7. ConnSide'
  BY <1>1, TurnType DEF BaseInv, ConnSide, ConnInv, RestInv, SockType, FaultInv
<1> QED
  BY <1>1, <1>4, <1>6, <1>7 DEF BaseInv

(* the callbacks of the gateway *)
Callback(s) ==
    \/ gw_search_result_callback(s) \/ gw_browse_result_callback(s)
    \/ gw_image_result_callback(s) \/ gw_getplaylist_result_callback(s)
    \/ gw_file_stream_callback(s) \/ gw_file_key_callback(s)

(* A callback with data, or with the end of the answer.                     *)
LEMMA CallbackStep ==
    ASSUME BaseInv, NEW s \in Session, Callback(s)
    PROVE  /\ BaseInv'
           /\ UNCHANGED <<client, conn>>
           /\ chan[s] # <<>> /\ ses[s].state = "IDLE_CONNECTED"
           /\ fault' = "freed" => ses[s].output = Null
           /\ fault' # "other"
           /\ \/ UNCHANGED <<ses, chan>>
              \/ /\ \A t \in Session \ {s} : ses'[t] = ses[t] /\ chan'[t] = chan[t]
                 /\ ses'[s].state = "COMMAND_COMPLETE"
                 /\ ses'[s].output \in {Head(chan[s]).by, Null}
                 /\ ses'[s].user = ses[s].user /\ ses'[s].http = ses[s].http
                 /\ chan'[s] = Tail(chan[s])
<1>1. /\ ClientTurn(s) /\ chan[s] # <<>> /\ ses[s].state = "IDLE_CONNECTED"
      /\ CallbackData(s) \/ CallbackEnd(s)
  BY DEF Callback, gw_search_result_callback, gw_browse_result_callback,
         gw_image_result_callback, gw_getplaylist_result_callback, gw_file_stream_callback,
         gw_file_key_callback, Calls, Reads
<1>2. SessionInv
  BY DEF BaseInv
<1>3. /\ NextTurn /\ UNCHANGED <<rest, client, conn, sock>>
      /\ wire' = [wire EXCEPT ![s] = "none"]
      /\ fault' = Follow(s)
  BY <1>1 DEF CallbackData, CallbackEnd
<1>4. fault' \in {"none", "freed"} /\ (fault' = "freed" => ses[s].output = Null)
  BY <1>1, <1>3 DEF Follow, ClientTurn, Running
<1>5. /\ wire' \in [Session -> {"none", "other", "end", "error", "keyerr", "broken"}]
      /\ wire'[s] = "none" /\ \A t \in Session \ {s} : wire'[t] = wire[t]
  BY <1>2, <1>3 DEF SessionInv
<1>6. ConnSide'
  <2>1. FaultInv'
    BY <1>4 DEF FaultInv
  <2> QED
    BY <1>3, <2>1, TurnType DEF BaseInv, ConnSide, ConnInv, RestInv, SockType
<1>7. CASE CallbackData(s)
  <2>1. ses' = ses /\ chan' = chan
    BY <1>7 DEF CallbackData
  <2>2. SessionInv'
    BY <1>2, <1>3, <1>5, <2>1 DEF SessionInv
  <2> QED
    BY <1>1, <1>3, <1>4, <1>6, <2>1, <2>2 DEF BaseInv
<1>8. CASE CallbackEnd(s)
  <2>1. /\ Head(chan[s]) \in [kind : Requests, by : Rest]
        /\ Tail(chan[s]) \in Seq([kind : Requests, by : Rest])
    <3> DEFINE R == [kind : Requests, by : Rest]
    <3>1. chan[s] \in Seq(R) /\ chan[s] # <<>>
      BY <1>1, <1>2 DEF SessionInv
    <3> HIDE DEF R
    <3>2. Head(chan[s]) \in R /\ Tail(chan[s]) \in Seq(R)
      BY <3>1
    <3> QED
      BY <3>2 DEF R
  <2>2. PICK o \in {Head(chan[s]).by, Null} :
          ses' = [ses EXCEPT ![s].state = "COMMAND_COMPLETE", ![s].output = o]
    BY <1>8 DEF CallbackEnd
  <2>3. o \in Rest \union {Null}
    BY <2>1
  <2>4. /\ ses' \in [Session -> SesType] /\ \A t \in Session \ {s} : ses'[t] = ses[t]
        /\ ses'[s].state = "COMMAND_COMPLETE" /\ ses'[s].output = o
        /\ ses'[s].user = ses[s].user /\ ses'[s].http = ses[s].http
    <3> DEFINE c == [ses[s] EXCEPT !.state = "COMMAND_COMPLETE", !.output = o]
    <3>1. ses \in [Session -> SesType] /\ ses[s] \in SesType
      BY <1>2 DEF SessionInv
    <3>2. /\ c \in SesType /\ c.state = "COMMAND_COMPLETE" /\ c.output = o
          /\ c.user = ses[s].user /\ c.http = ses[s].http
      BY <2>3, <3>1 DEF SesType, ClientStates
    <3>3. ses' = [ses EXCEPT ![s] = c]
      BY <2>2, <3>1 DEF SesType
    <3> HIDE DEF c
    <3> QED
      BY <3>1, <3>2, <3>3
  <2>5. chan' = [chan EXCEPT ![s] = Tail(@)]
    BY <1>8 DEF CallbackEnd
  <2>6. /\ chan' \in [Session -> Seq([kind : Requests, by : Rest])]
        /\ \A t \in Session \ {s} : chan'[t] = chan[t]
        /\ chan'[s] = Tail(chan[s])
    BY <1>2, <2>1, <2>5 DEF SessionInv
  <2>7. \A t \in Session : ses[t].state = "FREED" <=> ses'[t].state = "FREED"
    BY <1>1, <2>4
  <2>8. \A t \in Session : wire'[t] \in {"end", "error", "keyerr"} => chan'[t] # <<>>
    BY <1>2, <1>5, <2>6 DEF SessionInv
  <2>9. SessionInv'
    BY <1>2, <1>3, <1>5, <2>4, <2>6, <2>7, <2>8, SessionKept
  <2> QED
    BY <1>1, <1>3, <1>4, <1>6, <2>4, <2>6, <2>9 DEF BaseInv
<1> QED
  BY <1>1, <1>7, <1>8

(* main drops a session: no connection points to it any more.               *)
(* (gw-core.c 163-202.)                                                     *)
LEMMA DropStep ==
    ASSUME BaseInv, NEW s \in Session, Drop(s)
    PROVE  /\ BaseInv'
           /\ \A x \in Rest : IF conn[x].client = s
                              THEN conn'[x].client = Null /\ conn'[x].state = "LOAD_COMMAND"
                              ELSE conn'[x] = conn[x]
           /\ s \in Range(client) /\ Range(client') = Range(client) \ {s}
           /\ ses' = [ses EXCEPT ![s] = Freed]
           /\ chan' = [chan EXCEPT ![s] = <<>>]
           /\ fault' = fault
<1>1. /\ ClientTurn(s) /\ conn' = DroppedFrom(s)
      /\ client' = ReplacedByLast(client, pos.i)
      /\ ses' = [ses EXCEPT ![s] = Freed]
      /\ chan' = [chan EXCEPT ![s] = <<>>]
      /\ wire' = [wire EXCEPT ![s] = "none"]
      /\ NextTurn
      /\ UNCHANGED <<rest, sock, fault>>
  BY DEF Drop
<1>2. SessionInv /\ ConnInv /\ RestInv /\ PosType /\ SockType /\ FaultInv
  BY DEF BaseInv, ConnSide
<1>3. pos.i \in 1 .. Len(client) /\ client[pos.i] = s
  BY <1>1, <1>2 DEF ClientTurn, PosType, SessionInv
<1>4. SessionInv' /\ Range(client') = Range(client) \ {s} /\ s \in Range(client)
  BY <1>1, <1>2, <1>3, FreedStep
<1>5. conn' = [x \in Rest |-> conn'[x]]
  BY <1>1 DEF DroppedFrom
<1>6. ASSUME NEW x \in Rest
      PROVE  /\ ConnOK(conn'[x])
             /\ conn'[x].state = "CLOSED" <=> conn[x].state = "CLOSED"
             /\ IF conn[x].client = s
                THEN conn'[x].client = Null /\ conn'[x].state = "LOAD_COMMAND"
                ELSE conn'[x] = conn[x]
  <2>1. ConnOK(conn[x])
    BY <1>2 DEF ConnInv
  <2>2. CASE conn[x].client # s
    BY <1>1, <2>1, <2>2 DEF DroppedFrom
  <2>3. CASE conn[x].client = s
    <3> DEFINE r == conn[x]
               q == [r EXCEPT !.client = Null, !.state = "LOAD_COMMAND",
                              !.owed = IF @ = "yes" THEN "forgotten" ELSE @]
    <3>1. conn'[x] = q
      BY <1>1, <2>3 DEF DroppedFrom
    <3>2. ConnOK(q) /\ q.client = Null /\ q.state = "LOAD_COMMAND"
      BY <2>1 DEF ConnOK, ConnType, RestStates, HasLine
    <3>3. r.state # "CLOSED"
      BY <2>1, <2>3, NullAssumption DEF ConnOK
    <3> QED
      BY <2>3, <3>1, <3>2, <3>3
  <2> QED
    BY <2>2, <2>3
<1>7. ConnInv'
  BY <1>5, <1>6 DEF ConnInv
<1>8. RestInv'
  BY <1>1, <1>2, <1>6 DEF RestInv
<1>9. PosType' /\ SockType' /\ FaultInv'
  BY <1>1, <1>2, TurnType DEF RestInv, SockType, FaultInv
<1> QED
  BY <1>1, <1>4, <1>6, <1>7, <1>8, <1>9 DEF BaseInv, ConnSide

(* Every step of spotify_fsm is one of those above, or does nothing.        *)
LEMMA SpotifyFsmSteps ==
    ASSUME NEW s \in Session, spotify_fsm(s)
    PROVE  CLIENT_STATE_ALLOCATE(s) \/ ReadOther(s) \/ Callback(s) \/ Idle(s)
BY Zenon DEF spotify_fsm, Callback

-----------------------------------------------------------------------------
(* select *)

(* A new connection, data from a peer or its end, a packet, a timeout, and  *)
(* main reading a session that has no structure.                            *)
Event ==
    \/ \E x \in Rest : PeerSends(x) \/ PeerGoes(x)
    \/ \E s \in Session : ServerOther(s) \/ ServerBreaks(s) \/ ServerAnswers(s)
    \/ SelectTimeout \/ SelectNull

(* What select reports changes no pointer.  (main.)                         *)
LEMMA EventStep ==
    ASSUME BaseInv, Event
    PROVE  /\ BaseInv'
           /\ UNCHANGED <<client, conn, ses, chan>>
           /\ fault' \notin {"freed", "other"} \/ fault' = fault
<1>0. SessionInv /\ ConnInv /\ RestInv /\ PosType /\ SockType /\ FaultInv
  BY DEF BaseInv, ConnSide
<1>1. ASSUME Select PROVE PosType'
  BY <1>1 DEF Select, PosType
<1>2. ASSUME NEW x \in Rest, NEW d \in {"data", "gone"}, Peer(x, d)
      PROVE  BaseInv' /\ UNCHANGED <<client, conn, ses, chan, fault>>
  <2>1. /\ Select /\ sock' = [sock EXCEPT ![x] = d]
        /\ UNCHANGED <<rest, client, conn, ses, chan, wire, fault>>
    BY <1>2 DEF Peer
  <2>2. SockType'
    BY <1>0, <2>1 DEF SockType
  <2> QED
    BY <1>0, <1>1, <2>1, <2>2 DEF BaseInv, ConnSide, ConnInv, RestInv, SessionInv, FaultInv
<1>3. ASSUME NEW s \in Session, NEW p \in {"other", "broken", "end", "error", "keyerr"}, Packet(s, p),
             p \in {"end", "error", "keyerr"} => chan[s] # <<>>
      PROVE  BaseInv' /\ UNCHANGED <<client, conn, ses, chan, fault>>
  <2>1. /\ Select /\ wire' = [wire EXCEPT ![s] = p]
        /\ UNCHANGED <<rest, client, conn, ses, chan, sock, fault>>
    BY <1>3 DEF Packet
  <2>2. /\ wire' \in [Session -> {"none", "other", "end", "error", "keyerr", "broken"}]
        /\ wire'[s] = p /\ \A t \in Session \ {s} : wire'[t] = wire[t]
    BY <1>0, <2>1 DEF SessionInv
  <2>3. SessionInv'
    BY <1>0, <1>3, <2>1, <2>2 DEF SessionInv
  <2>4. ConnSide'
    BY <1>0, <1>1, <2>1 DEF ConnSide, ConnInv, RestInv, SockType, FaultInv
  <2> QED
    BY <2>1, <2>3, <2>4 DEF BaseInv
<1>4. CASE \E x \in Rest : PeerSends(x) \/ PeerGoes(x)
  BY <1>2, <1>4 DEF PeerSends, PeerGoes
<1>5. CASE \E s \in Session : ServerOther(s) \/ ServerBreaks(s)
  BY <1>3, <1>5 DEF ServerOther, ServerBreaks
<1>6. CASE \E s \in Session : ServerAnswers(s)
  BY <1>3, <1>6 DEF ServerAnswers
<1>7. CASE SelectTimeout
  <2>1. Select /\ UNCHANGED <<rest, client, conn, ses, chan, sock, wire, fault>>
    BY <1>7 DEF SelectTimeout
  <2> QED
    BY <1>0, <1>1, <2>1 DEF BaseInv, ConnSide, ConnInv, RestInv, SockType, SessionInv, FaultInv
<1>8. CASE SelectNull
  <2>1. fault' = "null" /\ UNCHANGED <<rest, client, conn, ses, chan, sock, wire, pos>>
    BY <1>8 DEF SelectNull
  <2>2. FaultInv'
    BY <2>1 DEF FaultInv
  <2> QED
    BY <1>0, <2>1, <2>2 DEF BaseInv, ConnSide, ConnInv, RestInv, PosType, SockType, SessionInv
<1> QED
  BY <1>4, <1>5, <1>6, <1>7, <1>8 DEF Event

(* A connection is accepted.  (gw-core.c 100-118.)                          *)
LEMMA AcceptStep ==
    ASSUME BaseInv, NEW x \in Rest, Accept(x)
    PROVE  /\ BaseInv'
           /\ OthersKept(x)
           /\ conn[x].state = "CLOSED" /\ conn'[x] = Accepted
           /\ UNCHANGED <<client, ses, chan, wire, fault>>
<1>0. SessionInv /\ ConnInv /\ RestInv /\ PosType /\ SockType /\ FaultInv
  BY DEF BaseInv, ConnSide
<1>1. /\ conn[x].state = "CLOSED" /\ rest' = Append(rest, x) /\ Select
      /\ conn' = [conn EXCEPT ![x] = Accepted]
      /\ UNCHANGED <<client, ses, chan, sock, wire, fault>>
  BY DEF Accept
<1>2. ConnInv' /\ conn'[x] = Accepted /\ OthersKept(x)
  BY <1>0, <1>1, NewConnOK DEF ConnInv, OthersKept
<1>3. x \notin Range(rest)
  BY <1>0, <1>1 DEF RestInv
<1>4. rest' \in Seq(Rest) /\ IsInjective(rest') /\ Range(rest') = Range(rest) \union {x}
  BY <1>0, <1>1, <1>3, Added DEF RestInv
<1>5. RestInv'
  BY <1>0, <1>2, <1>4, NewConnOK DEF RestInv, OthersKept
<1>6. PosType'
  BY <1>1 DEF Select, PosType
<1>7. SockType' /\ FaultInv' /\ SessionInv'
  BY <1>0, <1>1 DEF SockType, FaultInv, SessionInv
<1> QED
  BY <1>1, <1>2, <1>5, <1>6, <1>7 DEF BaseInv, ConnSide

-----------------------------------------------------------------------------
(* What holds whoever shares a session *)

(* main before its first round.                                             *)
LEMMA InitBase == Init => BaseInv
<1> SUFFICES ASSUME Init PROVE BaseInv
  OBVIOUS
<1>1. ConnInv
  BY NewConnOK DEF Init, ConnInv
<1>2. RestInv
  BY NewConnOK DEF Init, RestInv, Range, IsInjective
<1>3. PosType /\ SockType /\ FaultInv
  BY DEF Init, PosType, SockType, FaultInv
<1>4. SessionInv
  <2>1. Freed \in SesType
    BY Zenon DEF Freed, NewClient, SesType, ClientStates
  <2>2. Freed.state = "FREED"
    BY DEF Freed, NewClient
  <2>3. <<>> \in Seq([kind : Requests, by : Rest]) /\ <<>> \in Seq(Session)
    OBVIOUS
  <2>4. ses \in [Session -> SesType] /\ \A s \in Session : ses[s].state = "FREED"
    BY <2>1, <2>2 DEF Init
  <2>5. chan \in [Session -> Seq([kind : Requests, by : Rest])]
    BY <2>3 DEF Init
  <2>6. /\ wire \in [Session -> {"none", "other", "end", "error", "keyerr", "broken"}]
        /\ \A s \in Session : wire[s] = "none"
    BY DEF Init
  <2>7. client \in Seq(Session) /\ IsInjective(client) /\ Range(client) = {}
    BY <2>3 DEF Init, Range, IsInjective
  <2> QED
    BY <2>4, <2>5, <2>6, <2>7 DEF SessionInv
<1> QED
  BY <1>1, <1>2, <1>3, <1>4 DEF BaseInv, ConnSide


(* Every step is one of those above.                                        *)
LEMMA Steps ==
    ASSUME BaseInv, Next
    PROVE  \/ \E x \in Rest : Quiet(x) \/ Init_session(x) \/ Init_login(x) \/ http_handle_request(x)
           \/ \E x \in Rest : \E k : gw_request(x, k)
           \/ \E x \in Rest : Waiting_command(x) \/ Waiting_login(x) \/ Waiting_error(x)
           \/ \E x \in Rest : REST_STATE_FREE_CLIENT(x) /\ fault' # "assert"
           \/ \E x \in Rest : Waiting_idle(x) \/ Stopped(x) \/ Accept(x)
           \/ \E s \in Session : CLIENT_STATE_ALLOCATE(s) \/ ReadOther(s) \/ Callback(s)
           \/ \E s \in Session : Idle(s) \/ Drop(s)
           \/ Event
<1>1. CASE \E x \in Rest : rest_fsm(x)
  BY <1>1, RestFsmSteps
<1>2. CASE \E s \in Session : spotify_fsm(s)
  BY <1>2, SpotifyFsmSteps
<1>3. ASSUME Next, ~(\E x \in Rest : rest_fsm(x)), ~(\E s \in Session : spotify_fsm(s))
      PROVE  \/ \E s \in Session : Drop(s)
             \/ \E x \in Rest : Accept(x)
             \/ Event
  BY <1>3, Zenon DEF Next, Loop, Event
<1> QED
  BY <1>1, <1>2, <1>3

(* A turn that changes nothing, and a failed assertion.                     *)
LEMMA StillStep ==
    ASSUME BaseInv,
           \/ \E x \in Rest : Waiting_idle(x) \/ Stopped(x)
           \/ \E s \in Session : Idle(s)
           \/ UNCHANGED vars
    PROVE  /\ BaseInv'
           /\ UNCHANGED <<client, conn, ses, chan>>
           /\ fault' = "freed" => fault = "freed" \/ \E x \in Rest : Dangling(x)
           /\ fault' = "other" => fault = "other"
<1>0. SessionInv /\ ConnInv /\ RestInv /\ PosType /\ SockType /\ FaultInv
  BY DEF BaseInv, ConnSide
<1>1. ASSUME UNCHANGED <<rest, client, conn, ses, chan, sock, wire>>, PosType', FaultInv'
      PROVE  BaseInv'
  BY <1>0, <1>1 DEF BaseInv, ConnSide, ConnInv, RestInv, SockType, SessionInv
<1>2. ASSUME NEW x \in Rest, Waiting_idle(x)
      PROVE  PosType' /\ FaultInv' /\ UNCHANGED <<rest, client, conn, ses, chan, sock, wire, fault>>
  <2>1. /\ Return(x, conn[x], TRUE) /\ UNCHANGED <<client, ses, chan, wire, fault>>
    BY <1>2 DEF Waiting_idle
  <2>2. conn' = conn /\ NextTurn /\ rest' = rest /\ sock' = sock
    BY <1>0, <2>1 DEF Return, ConnInv
  <2> QED
    BY <1>0, <2>1, <2>2, TurnType DEF RestInv, FaultInv
<1>3. ASSUME NEW x \in Rest, Stopped(x)
      PROVE  /\ PosType' /\ FaultInv' /\ UNCHANGED <<rest, client, conn, ses, chan, sock, wire>>
             /\ fault' # "other" /\ (fault' = "freed" => Dangling(x))
  BY <1>0, <1>3 DEF Stopped, PosType, FaultInv
<1>4. ASSUME NEW s \in Session, Idle(s)
      PROVE  PosType' /\ FaultInv' /\ UNCHANGED <<rest, client, conn, ses, chan, sock, wire, fault>>
  BY <1>0, <1>4, TurnType DEF Idle, RestInv, FaultInv
<1>5. ASSUME UNCHANGED vars
      PROVE  PosType' /\ FaultInv' /\ UNCHANGED <<rest, client, conn, ses, chan, sock, wire, fault>>
  BY <1>0, <1>5 DEF vars, PosType, FaultInv
<1> QED
  BY <1>1, <1>2, <1>3, <1>4, <1>5

(* BaseInv is inductive.                                                    *)
LEMMA NextBase == BaseInv /\ [Next]_vars => BaseInv'
<1> SUFFICES ASSUME BaseInv, [Next]_vars PROVE BaseInv'
  OBVIOUS
<1>1. CASE UNCHANGED vars
  BY <1>1, StillStep
<1>2. CASE Next
  BY <1>2, Steps, QuietStep, PickStep, LoginStep, RequestStep, WaitStep, FreeStep, StillStep,
     AcceptStep, ConnectStep, OtherStep, CallbackStep, DropStep, EventStep
<1> QED
  BY <1>1, <1>2

(* One reply to each line of a connection: rest_fsm replies only where a    *)
(* line is being processed or waited for, and leaves such a state only with *)
(* a reply, or because main dropped the session; for any numbers of         *)
(* connections, sessions and lines, shared sessions or not (gw-core.c).     *)
THEOREM RepliesMatchLines == Spec => []OneReplyEach
<1>1. BaseInv => OneReplyEach
  BY DEF BaseInv, ConnSide, ConnInv, FaultInv, ConnOK, HasLine, OneReplyEach
<1> QED
  BY InitBase, NextBase, <1>1, PTL DEF Spec

-----------------------------------------------------------------------------
(* One session for each account *)

(* No step makes two sessions for one account, or two for HTTP.             *)
(* (spotify_client_allocate.)                                               *)
LEMMA NextUsers == BaseInv /\ OneSessionPerUser /\ [Next]_vars => OneSessionPerUser'
<1> SUFFICES ASSUME BaseInv, OneSessionPerUser, [Next]_vars PROVE OneSessionPerUser'
  OBVIOUS
<1>0. SessionInv /\ ses \in [Session -> SesType] /\ Range(client) \subseteq Session
  BY DEF BaseInv, SessionInv
<1>1. ASSUME Range(client') \subseteq Range(client),
             \A t \in Range(client') : ses'[t].user = ses[t].user /\ ses'[t].http = ses[t].http
      PROVE  OneSessionPerUser'
  BY <1>1 DEF OneSessionPerUser
<1>2. CASE client' = client /\ ses' = ses
  BY <1>1, <1>2
<1>3. ASSUME NEW x \in Rest, Init_login(x) \/ http_handle_request(x) PROVE OneSessionPerUser'
  <2>1. PICK u \in User, s \in Session, http \in BOOLEAN :
          spotify_client_allocate(x, u, s, http) /\ (http => spotify_find_http_client = {})
    BY <1>3, LoginStep
  <2>2. CASE s \in Range(client)
    <3>1. client' = client /\ ses' = IF http THEN [ses EXCEPT ![s].http = TRUE] ELSE ses
      BY <1>0, <2>1, <2>2, AllocateStep
    <3>2. CASE ~http
      BY <1>2, <3>1, <3>2
    <3>3. CASE http
      <4>1. \A t \in Range(client) : ~ses[t].http
        BY <2>1, <3>3 DEF spotify_find_http_client
      <4>2. \A t \in Range(client) : ses'[t].user = ses[t].user /\ (t # s => ses'[t] = ses[t])
        BY <1>0, <3>1, <3>3 DEF SesType
      <4> QED
        BY <3>1, <4>1, <4>2 DEF OneSessionPerUser
    <3> QED
      BY <3>2, <3>3
  <2>3. CASE s \notin Range(client)
    <3> DEFINE c == [NewClient(u) EXCEPT !.http = http]
    <3>1. /\ Existing(u) = {} /\ Range(client') = Range(client) \union {s}
          /\ ses' = [ses EXCEPT ![s] = c]
      BY <1>0, <2>1, <2>3, AllocateStep
    <3>2. c.user = u /\ c.http = http
      BY DEF NewClient
    <3> HIDE DEF c
    <3>3. \A t \in Range(client) : ses[t].user # u /\ ses'[t] = ses[t]
      BY <1>0, <2>3, <3>1 DEF Existing
    <3>4. ses'[s] = c
      BY <1>0, <3>1
    <3>5. http => \A t \in Range(client) : ~ses[t].http
      BY <2>1 DEF spotify_find_http_client
    <3> QED
      BY <3>1, <3>2, <3>3, <3>4, <3>5 DEF OneSessionPerUser
  <2> QED
    BY <2>2, <2>3
<1>4. ASSUME NEW x \in Rest, \E k : gw_request(x, k) PROVE OneSessionPerUser'
  <2>1. client' = client /\ ses' = [ses EXCEPT ![conn[x].client].output = x]
    BY <1>4, RequestStep
  <2>2. \A t \in Session : ses'[t].user = ses[t].user /\ ses'[t].http = ses[t].http
    BY <1>0, <2>1 DEF SesType
  <2> QED
    BY <1>0, <1>1, <2>1, <2>2
<1>5. ASSUME NEW x \in Rest, Waiting_command(x) \/ Waiting_login(x) \/ Waiting_error(x)
      PROVE  OneSessionPerUser'
  <2>1. /\ client' = client
        /\ \A t \in Session : ses'[t].user = ses[t].user /\ ses'[t].http = ses[t].http
    BY <1>5, WaitStep
  <2> QED
    BY <1>0, <1>1, <2>1
<1>6. ASSUME NEW s \in Session, Range(client') = Range(client) \ {s}, ses' = [ses EXCEPT ![s] = Freed]
      PROVE  OneSessionPerUser'
  BY <1>0, <1>1, <1>6
<1>7. ASSUME NEW x \in Rest, REST_STATE_FREE_CLIENT(x), fault' # "assert" PROVE OneSessionPerUser'
  BY <1>0, <1>6, <1>7, FreeStep
<1>8. ASSUME NEW s \in Session, Drop(s) PROVE OneSessionPerUser'
  BY <1>6, <1>8, DropStep
<1>9. ASSUME NEW s \in Session, CLIENT_STATE_ALLOCATE(s) PROVE OneSessionPerUser'
  <2>1. /\ client' = client
        /\ \A t \in Session : ses'[t].user = ses[t].user /\ ses'[t].http = ses[t].http
    BY <1>9, ConnectStep
  <2> QED
    BY <1>0, <1>1, <2>1
<1>10. ASSUME NEW s \in Session, Callback(s) PROVE OneSessionPerUser'
  <2>1. /\ client' = client
        /\ \A t \in Session : ses'[t].user = ses[t].user /\ ses'[t].http = ses[t].http
    BY <1>10, CallbackStep
  <2> QED
    BY <1>0, <1>1, <2>1
<1>11. ASSUME \/ \E x \in Rest : Quiet(x) \/ Init_session(x) \/ Waiting_idle(x) \/ Stopped(x) \/ Accept(x)
              \/ \E s \in Session : ReadOther(s) \/ Idle(s)
              \/ Event
              \/ UNCHANGED vars
       PROVE  OneSessionPerUser'
  BY <1>2, <1>11, QuietStep, PickStep, StillStep, AcceptStep, OtherStep, EventStep
<1> QED
  BY <1>3, <1>4, <1>5, <1>7, <1>8, <1>9, <1>10, <1>11, Steps

(* No account, which is a username with its password, has two sessions at   *)
(* a time, and at most one session is marked for HTTP, although logins,     *)
(* plain and over HTTP, of several connections interleave with failed       *)
(* logins and dropped sessions; for any numbers of connections, sessions    *)
(* and accounts, shared sessions or not (spotify_client_allocate,           *)
(* spotify_find_http_client).                                               *)
THEOREM AccountsAreSingle == Spec => []OneSessionPerUser
<1>1. Init => OneSessionPerUser
  BY DEF Init, OneSessionPerUser, Range
<1> QED
  BY InitBase, NextBase, NextUsers, <1>1, PTL DEF Spec

-----------------------------------------------------------------------------
(* Sessions that are not shared *)

Busy == Errors \union {"ALLOCATE", "LOGIN_COMPLETE", "COMMAND_COMPLETE"}

(* connection x waits for session s *)
Waiter(x, s) == conn[x].client = s /\ conn[x].state = "WAITING"

PointerInv ==
    /\ \A x \in Rest : conn[x].client # Null => conn[x].client \in Range(client)
    /\ \A x, y \in Rest : conn[x].client = conn[y].client /\ conn[x].client # Null => x = y

(* a session with a request open is waited for by the connection that made  *)
(* it, whose output it holds; and there is one request at a time            *)
OpenInv ==
    \A s \in Session : chan[s] # <<>> =>
        /\ Len(chan[s]) = 1 /\ ses[s].state \notin Busy
        /\ Head(chan[s]).by \in Rest /\ Waiter(Head(chan[s]).by, s)
        /\ ses[s].output = Head(chan[s]).by

(* a session that logs in, or is done with something, is waited for *)
BusyInv ==
    \A s \in Session : ses[s].state \in Busy =>
        \E x \in Rest : /\ Waiter(x, s)
                        /\ ses[s].state = "COMMAND_COMPLETE" => ses[s].output \in {x, Null}

UseInv == fault \notin {"freed", "other"}

OwnerInv == PointerInv /\ OpenInv /\ BusyInv /\ UseInv

(* A pointer is never left behind.  (gw-core.c 163-202, 746-763.)           *)
LEMMA NotDangling ==
    ASSUME BaseInv, PointerInv, NEW x \in Rest
    PROVE  ~Dangling(x)
BY DEF BaseInv, SessionInv, PointerInv, Dangling

(* A connection that does not wait may go anywhere that is not taken,       *)
(* while the sessions do nothing.  (rest_fsm.)                              *)
LEMMA RepointKeeps ==
    ASSUME OwnerInv, NEW x \in Rest, OthersKept(x), conn[x].state # "WAITING",
           client' = client, chan' = chan,
           \A s \in Session : ses'[s].state = ses[s].state /\ ses'[s].output = ses[s].output,
           \/ conn'[x].client \in {conn[x].client, Null}
           \/ /\ conn'[x].client \in Range(client)
              /\ \A y \in Rest \ {x} : conn[y].client # conn'[x].client
    PROVE  PointerInv' /\ OpenInv' /\ BusyInv'
<1>1. \A y \in Rest, s \in Session : Waiter(y, s) => y # x /\ Waiter(y, s)'
  BY DEF Waiter, OthersKept
<1>2. PointerInv'
  BY DEF OwnerInv, PointerInv, OthersKept
<1>3. OpenInv'
  BY <1>1 DEF OwnerInv, OpenInv
<1>4. BusyInv'
  BY <1>1 DEF OwnerInv, BusyInv
<1> QED
  BY <1>2, <1>3, <1>4

(* A new session, and the connection that waits for it.  (rest_fsm,         *)
(* http_handle_request.)                                                    *)
LEMMA NewSessionKeeps ==
    ASSUME BaseInv, OwnerInv, NEW x \in Rest, OthersKept(x), conn[x].state # "WAITING",
           NEW s \in Session, \A y \in Rest : conn[y].client # s,
           Range(client') = Range(client) \union {s},
           chan' = [chan EXCEPT ![s] = <<>>],
           NEW c, ses' = [ses EXCEPT ![s] = c], c.state = "ALLOCATE",
           conn'[x].client = s, conn'[x].state = "WAITING"
    PROVE  PointerInv' /\ OpenInv' /\ BusyInv'
<1>0. DOMAIN ses = Session /\ DOMAIN chan = Session
  BY DEF BaseInv, SessionInv
<1>1. \A y \in Rest, t \in Session : Waiter(y, t) => y # x /\ t # s /\ Waiter(y, t)'
  BY DEF Waiter, OthersKept
<1>2. /\ ses'[s] = c /\ chan'[s] = <<>>
      /\ \A t \in Session \ {s} : ses'[t] = ses[t] /\ chan'[t] = chan[t]
  BY <1>0
<1>3. PointerInv'
  BY DEF OwnerInv, PointerInv, OthersKept
<1>4. OpenInv'
  BY <1>1, <1>2 DEF OwnerInv, OpenInv
<1>5. BusyInv'
  <2>1. ASSUME NEW t \in Session, ses'[t].state \in Busy
        PROVE  \E y \in Rest : /\ Waiter(y, t)'
                               /\ ses'[t].state = "COMMAND_COMPLETE" => ses'[t].output \in {y, Null}
    <3>1. CASE t = s
      BY <1>2, <3>1 DEF Waiter
    <3>2. CASE t # s
      <4>1. PICK y \in Rest : /\ Waiter(y, t)
                              /\ ses[t].state = "COMMAND_COMPLETE" => ses[t].output \in {y, Null}
        BY <1>2, <2>1, <3>2 DEF OwnerInv, BusyInv
      <4> QED
        BY <1>1, <1>2, <3>2, <4>1
    <3> QED
      BY <3>1, <3>2
  <2> QED
    BY <2>1 DEF BusyInv
<1> QED
  BY <1>3, <1>4, <1>5

(* A request is the only one of its session.  (gw_search, gw_browse, ...)   *)
LEMMA RequestKeeps ==
    ASSUME BaseInv, OwnerInv, NEW x \in Rest, NEW k, gw_request(x, k)
    PROVE  OwnerInv'
<1> DEFINE s == conn[x].client
           p == [kind |-> k, by |-> x]
<1>0. /\ OthersKept(x) /\ s \in Session /\ conn[x].state = "PROCESS_CLIENT"
      /\ ses' = [ses EXCEPT ![s].output = x] /\ client' = client
      /\ \/ chan' = chan /\ conn'[x] = Closed
         \/ /\ chan' = [chan EXCEPT ![s] = Append(@, p)]
            /\ conn'[x].state = "WAITING" /\ conn'[x].client = s
      /\ fault' = "freed" => Dangling(x)
      /\ fault' # "other"
  BY RequestStep
<1>1. UseInv'
  BY <1>0, NotDangling DEF OwnerInv, UseInv
<1>2. \A y \in Rest, t \in Session : Waiter(y, t) => y # x /\ t # s /\ Waiter(y, t)'
  BY <1>0, NullAssumption DEF Waiter, OthersKept, OwnerInv, PointerInv
<1>3. chan[s] = <<>> /\ ses[s].state \notin Busy
  BY <1>0, <1>2 DEF OwnerInv, OpenInv, BusyInv
<1>4. \A t \in Session : ses'[t].state = ses[t].state /\ (t # s => ses'[t] = ses[t])
  BY <1>0 DEF BaseInv, SessionInv, SesType
<1>5. ses'[s].output = x
  BY <1>0 DEF BaseInv, SessionInv, SesType
<1>6. PointerInv'
  BY <1>0, NewConnOK DEF OwnerInv, PointerInv, OthersKept
<1>7. BusyInv'
  <2>1. ASSUME NEW t \in Session, ses'[t].state \in Busy
        PROVE  \E y \in Rest : /\ Waiter(y, t)'
                               /\ ses'[t].state = "COMMAND_COMPLETE" => ses'[t].output \in {y, Null}
    <3>1. t # s /\ ses'[t] = ses[t]
      BY <1>3, <1>4, <2>1
    <3>2. PICK y \in Rest : /\ Waiter(y, t)
                            /\ ses[t].state = "COMMAND_COMPLETE" => ses[t].output \in {y, Null}
      BY <2>1, <3>1 DEF OwnerInv, BusyInv
    <3> QED
      BY <1>2, <3>1, <3>2
  <2> QED
    BY <2>1 DEF BusyInv
<1>8. OpenInv'
  <2>1. \A t \in Session \ {s} : chan'[t] = chan[t]
    BY <1>0 DEF BaseInv, SessionInv
  <2>2. ASSUME NEW t \in Session \ {s}, chan'[t] # <<>>
        PROVE  /\ Len(chan'[t]) = 1 /\ ses'[t].state \notin Busy
               /\ Head(chan'[t]).by \in Rest /\ Waiter(Head(chan[t]).by, t)'
               /\ ses'[t].output = Head(chan'[t]).by
    BY <1>2, <1>4, <2>1, <2>2 DEF OwnerInv, OpenInv
  <2>3. CASE chan' = chan
    BY <1>3, <2>1, <2>2, <2>3 DEF OpenInv, Waiter
  <2>4. CASE /\ chan' = [chan EXCEPT ![s] = Append(@, p)]
             /\ conn'[x].state = "WAITING" /\ conn'[x].client = s
    <3>1. chan'[s] = Append(<<>>, p)
      BY <1>0, <1>3, <2>4 DEF BaseInv, SessionInv
    <3>2. p.by = x
      OBVIOUS
    <3> HIDE DEF p
    <3>3. Len(chan'[s]) = 1 /\ Head(chan'[s]) = p
      BY <3>1
    <3>4. ASSUME NEW t \in Session, chan'[t] # <<>>
          PROVE  /\ Len(chan'[t]) = 1 /\ ses'[t].state \notin Busy
                 /\ Head(chan'[t]).by \in Rest
                 /\ conn'[Head(chan'[t]).by].client = t /\ conn'[Head(chan'[t]).by].state = "WAITING"
                 /\ ses'[t].output = Head(chan'[t]).by
      <4>1. CASE t = s
        BY <1>0, <1>3, <1>4, <1>5, <2>4, <3>2, <3>3, <4>1
      <4>2. CASE t # s
        BY <2>1, <2>2, <3>4, <4>2 DEF Waiter
      <4> QED
        BY <4>1, <4>2
    <3> QED
      BY <3>4 DEF OpenInv, Waiter
  <2> QED
    BY <1>0, <2>3, <2>4
<1> QED
  BY <1>1, <1>6, <1>7, <1>8 DEF OwnerInv

(* The connection that waited replies with its own answer.  (rest_fsm.)     *)
LEMMA WaitKeeps ==
    ASSUME BaseInv, OwnerInv, NEW x \in Rest,
           Waiting_command(x) \/ Waiting_login(x) \/ Waiting_error(x)
    PROVE  OwnerInv'
<1> DEFINE s == conn[x].client
<1>0. /\ OthersKept(x) /\ s \in Session /\ conn[x].state = "WAITING"
      /\ ses[s].state \in Errors \union {"COMMAND_COMPLETE", "LOGIN_COMPLETE"}
      /\ \A t \in Session \ {s} : ses'[t] = ses[t]
      /\ ses'[s].state \in {"IDLE_CONNECTED", "IDLE_DISCONNECTED"}
      /\ client' = client /\ chan' = chan
      /\ conn'[x].state # "WAITING" /\ conn'[x].client \in {s, Null}
      /\ fault' # "freed"
      /\ fault' = "other" => ses[s].state = "COMMAND_COMPLETE" /\ ses[s].output \notin {x, Null}
  BY WaitStep
<1>1. \A y \in Rest, t \in Session : Waiter(y, t) => IF t = s THEN y = x ELSE y # x /\ Waiter(y, t)'
  BY <1>0, NullAssumption DEF Waiter, OthersKept, OwnerInv, PointerInv
<1>2. UseInv'
  BY <1>0, <1>1 DEF OwnerInv, BusyInv, UseInv, Busy
<1>3. PointerInv'
  BY <1>0 DEF OwnerInv, PointerInv, OthersKept
<1>4. chan[s] = <<>>
  BY <1>0 DEF OwnerInv, OpenInv, Busy
<1>5. OpenInv'
  BY <1>0, <1>1, <1>4 DEF OwnerInv, OpenInv
<1>6. BusyInv'
  BY <1>0, <1>1 DEF OwnerInv, BusyInv, Busy, Errors
<1> QED
  BY <1>2, <1>3, <1>5, <1>6 DEF OwnerInv

(* A session is freed and no connection points to it afterwards.  (rest_fsm *)
(* and main.)                                                               *)
LEMMA FreeKeeps ==
    ASSUME BaseInv, OwnerInv, NEW s \in Session,
           Range(client') = Range(client) \ {s},
           ses' = [ses EXCEPT ![s] = Freed], chan' = [chan EXCEPT ![s] = <<>>],
           \A x \in Rest : IF conn[x].client = s
                           THEN conn'[x].client = Null
                           ELSE conn'[x] = conn[x]
    PROVE  PointerInv' /\ OpenInv' /\ BusyInv'
<1>0. Freed.state = "FREED"
  BY DEF Freed, NewClient
<1>1. /\ ses'[s] = Freed /\ chan'[s] = <<>>
      /\ \A t \in Session \ {s} : ses'[t] = ses[t] /\ chan'[t] = chan[t]
  BY DEF BaseInv, SessionInv
<1>2. \A y \in Rest, t \in Session \ {s} : Waiter(y, t) => Waiter(y, t)'
  BY DEF Waiter
<1>3. PointerInv'
  BY DEF OwnerInv, PointerInv
<1>4. OpenInv'
  BY <1>1, <1>2 DEF OwnerInv, OpenInv
<1>5. BusyInv'
  BY <1>0, <1>1, <1>2 DEF OwnerInv, BusyInv, Busy, Errors
<1> QED
  BY <1>3, <1>4, <1>5

(* A callback finds the output of the connection that waits.  (gw-*.c.)     *)
LEMMA CallbackKeeps ==
    ASSUME BaseInv, OwnerInv, NEW s \in Session, Callback(s)
    PROVE  OwnerInv'
<1>0. /\ client' = client /\ conn' = conn
      /\ chan[s] # <<>> /\ ses[s].state = "IDLE_CONNECTED"
      /\ fault' = "freed" => ses[s].output = Null
      /\ fault' # "other"
      /\ \/ UNCHANGED <<ses, chan>>
         \/ /\ \A t \in Session \ {s} : ses'[t] = ses[t] /\ chan'[t] = chan[t]
            /\ ses'[s].state = "COMMAND_COMPLETE"
            /\ ses'[s].output \in {Head(chan[s]).by, Null}
            /\ chan'[s] = Tail(chan[s])
  BY CallbackStep
<1> DEFINE x == Head(chan[s]).by
<1>1. Len(chan[s]) = 1 /\ x \in Rest /\ Waiter(x, s) /\ ses[s].output = x
  BY <1>0 DEF OwnerInv, OpenInv
<1>2. UseInv'
  BY <1>0, <1>1, NullAssumption DEF UseInv
<1>3. PointerInv'
  BY <1>0 DEF OwnerInv, PointerInv
<1>4. \A y, t : Waiter(y, t) => Waiter(y, t)'
  BY <1>0 DEF Waiter
<1>5. CASE UNCHANGED <<ses, chan>>
  BY <1>2, <1>3, <1>4, <1>5 DEF OwnerInv, OpenInv, BusyInv
<1>6. CASE /\ \A t \in Session \ {s} : ses'[t] = ses[t] /\ chan'[t] = chan[t]
           /\ ses'[s].state = "COMMAND_COMPLETE"
           /\ ses'[s].output \in {x, Null}
           /\ chan'[s] = Tail(chan[s])
  <2>1. chan'[s] = <<>>
    <3> DEFINE R == [kind : Requests, by : Rest]
    <3>1. chan[s] \in Seq(R)
      BY DEF BaseInv, SessionInv
    <3> HIDE DEF R
    <3>2. Tail(chan[s]) \in Seq(R) /\ Len(Tail(chan[s])) = 0
      BY <1>0, <1>1, <3>1, HeadTailProperties
    <3>3. Tail(chan[s]) = <<>>
      BY <3>2, EmptySeq
    <3> QED
      BY <1>6, <3>3
  <2>2. OpenInv'
    BY <1>4, <1>6, <2>1 DEF OwnerInv, OpenInv
  <2>3. BusyInv'
    <3>1. ASSUME NEW t \in Session, ses'[t].state \in Busy
          PROVE  \E y \in Rest : /\ Waiter(y, t)'
                                 /\ ses'[t].state = "COMMAND_COMPLETE" => ses'[t].output \in {y, Null}
      <4>1. CASE t = s
        BY <1>1, <1>4, <1>6, <4>1
      <4>2. CASE t # s
        BY <1>4, <1>6, <3>1, <4>2 DEF OwnerInv, BusyInv
      <4> QED
        BY <4>1, <4>2
    <3> QED
      BY <3>1 DEF BusyInv
  <2> QED
    BY <1>2, <1>3, <2>2, <2>3 DEF OwnerInv
<1> QED
  BY <1>0, <1>5, <1>6

(* The invariant is inductive when no two connections use one session.      *)
LEMMA NextOwner ==
    ASSUME Shared = FALSE, BaseInv, OwnerInv, [Next]_vars
    PROVE  OwnerInv'
<1>0. SessionInv /\ \A x \in Rest : ~Dangling(x)
  BY NotDangling DEF BaseInv, OwnerInv
<1>1. ASSUME NEW x \in Rest, Quiet(x) PROVE OwnerInv'
  <2>1. UseInv'
    BY <1>0, <1>1, QuietStep DEF UseInv
  <2> QED
    BY <1>1, <2>1, QuietStep, RepointKeeps DEF OwnerInv
<1>2. ASSUME NEW x \in Rest, Init_session(x) PROVE OwnerInv'
  <2>1. UseInv'
    BY <1>2, PickStep DEF UseInv
  <2> QED
    BY <1>2, <2>1, PickStep, RepointKeeps DEF OwnerInv, MayUse
<1>3. ASSUME NEW x \in Rest, Init_login(x) \/ http_handle_request(x) PROVE OwnerInv'
  <2>1. /\ OthersKept(x) /\ conn[x].state # "WAITING" /\ fault' = "none"
    BY <1>3, LoginStep
  <2>2. PICK u \in User, s \in Session, http \in BOOLEAN :
          /\ spotify_client_allocate(x, u, s, http)
          /\ conn'[x].client \in {s, Null}
          /\ s \notin Range(client) => conn'[x].client = s /\ conn'[x].state = "WAITING"
    BY <1>3, LoginStep
  <2>3. UseInv'
    BY <2>1 DEF UseInv
  <2>4. CASE s \in Range(client)
    <3>1. /\ MayUse(x, s) /\ client' = client /\ chan' = chan
          /\ ses' = IF http THEN [ses EXCEPT ![s].http = TRUE] ELSE ses
      BY <1>0, <2>2, <2>4, AllocateStep
    <3>2. \A t \in Session : ses'[t].state = ses[t].state /\ ses'[t].output = ses[t].output
      BY <1>0, <3>1 DEF SessionInv, SesType
    <3>3. \A y \in Rest \ {x} : conn[y].client # s
      BY <3>1 DEF MayUse
    <3> QED
      BY <2>1, <2>2, <2>3, <2>4, <3>1, <3>2, <3>3, RepointKeeps DEF OwnerInv
  <2>5. CASE s \notin Range(client)
    <3> DEFINE c == [NewClient(u) EXCEPT !.http = http]
    <3>1. /\ \A y \in Rest : conn[y].client # s
          /\ Range(client') = Range(client) \union {s}
          /\ ses' = [ses EXCEPT ![s] = c]
          /\ chan' = [chan EXCEPT ![s] = <<>>]
      BY <1>0, <2>2, <2>5, AllocateStep
    <3>2. c.state = "ALLOCATE"
      BY DEF NewClient
    <3> HIDE DEF c
    <3> QED
      BY <2>1, <2>2, <2>3, <2>5, <3>1, <3>2, NewSessionKeeps DEF OwnerInv
  <2> QED
    BY <2>4, <2>5
<1>4. ASSUME NEW x \in Rest, REST_STATE_FREE_CLIENT(x), fault' # "assert" PROVE OwnerInv'
  <2> DEFINE s == conn[x].client
  <2>1. /\ OthersKept(x) /\ s \in Range(client) /\ conn'[x].client = Null
        /\ Range(client') = Range(client) \ {s}
        /\ ses' = [ses EXCEPT ![s] = Freed] /\ chan' = [chan EXCEPT ![s] = <<>>]
        /\ fault' = "none"
    BY <1>4, FreeStep
  <2>2. s \in Session /\ s # Null
    BY <1>0, <2>1, NullAssumption DEF SessionInv
  <2>3. \A y \in Rest : IF conn[y].client = s
                        THEN conn'[y].client = Null
                        ELSE conn'[y] = conn[y]
    BY <2>1, <2>2 DEF OwnerInv, PointerInv, OthersKept
  <2>4. UseInv'
    BY <2>1 DEF UseInv
  <2> QED
    BY <2>1, <2>2, <2>3, <2>4, FreeKeeps DEF OwnerInv
<1>5. ASSUME NEW s \in Session, Drop(s) PROVE OwnerInv'
  <2>1. UseInv'
    BY <1>5, DropStep DEF OwnerInv, UseInv
  <2> QED
    BY <1>5, <2>1, DropStep, FreeKeeps DEF OwnerInv
<1>6. ASSUME NEW x \in Rest, Accept(x) PROVE OwnerInv'
  <2>1. UseInv'
    BY <1>6, AcceptStep DEF OwnerInv, UseInv
  <2> QED
    BY <1>6, <2>1, AcceptStep, RepointKeeps, NewConnOK DEF OwnerInv
<1>7. ASSUME UNCHANGED <<client, conn, ses, chan>>, fault' \notin {"freed", "other"} PROVE OwnerInv'
  <2>1. \A y, t : Waiter(y, t) => Waiter(y, t)'
    BY <1>7 DEF Waiter
  <2>2. PointerInv' /\ UseInv'
    BY <1>7 DEF OwnerInv, PointerInv, UseInv
  <2>3. OpenInv'
    BY <1>7, <2>1 DEF OwnerInv, OpenInv
  <2>4. BusyInv'
    BY <1>7, <2>1 DEF OwnerInv, BusyInv
  <2> QED
    BY <2>2, <2>3, <2>4 DEF OwnerInv
<1>8. ASSUME \/ \E x \in Rest : Waiting_idle(x) \/ Stopped(x)
             \/ \E s \in Session : Idle(s)
             \/ UNCHANGED vars
      PROVE  OwnerInv'
  BY <1>0, <1>7, <1>8, StillStep DEF OwnerInv, UseInv
<1>9. ASSUME Event PROVE OwnerInv'
  BY <1>7, <1>9, EventStep DEF OwnerInv, UseInv
<1>10. ASSUME NEW s \in Session, CLIENT_STATE_ALLOCATE(s) PROVE OwnerInv'
  <2>1. /\ UNCHANGED <<client, conn, chan, fault>>
        /\ ses[s].state = "ALLOCATE"
        /\ \A t \in Session \ {s} : ses'[t] = ses[t]
        /\ ses'[s].state \in Errors \union {"LOGIN_COMPLETE"}
    BY <1>10, ConnectStep
  <2>2. \A y, t : Waiter(y, t) => Waiter(y, t)'
    BY <2>1 DEF Waiter
  <2>3. PointerInv' /\ UseInv'
    BY <2>1 DEF OwnerInv, PointerInv, UseInv
  <2>4. chan[s] = <<>>
    BY <2>1 DEF OwnerInv, OpenInv, Busy
  <2>5. OpenInv'
    BY <2>1, <2>2, <2>4 DEF OwnerInv, OpenInv
  <2>6. BusyInv'
    BY <2>1, <2>2 DEF OwnerInv, BusyInv, Busy, Errors
  <2> QED
    BY <2>3, <2>5, <2>6 DEF OwnerInv
<1>11. ASSUME NEW s \in Session, ReadOther(s) PROVE OwnerInv'
  <2>1. /\ UNCHANGED <<client, conn, ses, fault>>
        /\ \A t \in Session \ {s} : chan'[t] = chan[t]
        /\ chan'[s] = chan[s] \/ (chan[s] # <<>> /\ chan'[s] = Tail(chan[s]))
    BY <1>11, OtherStep
  <2>2. \A y, t : Waiter(y, t) => Waiter(y, t)'
    BY <2>1 DEF Waiter
  <2>3. PointerInv' /\ UseInv' /\ BusyInv'
    BY <2>1, <2>2 DEF OwnerInv, PointerInv, UseInv, BusyInv
  <2>4. chan'[s] = chan[s] \/ chan'[s] = <<>>
    <3> DEFINE R == [kind : Requests, by : Rest]
    <3>1. chan[s] \in Seq(R)
      BY <1>0 DEF SessionInv
    <3>2. chan[s] # <<>> => Len(chan[s]) = 1
      BY DEF OwnerInv, OpenInv
    <3> HIDE DEF R
    <3>3. ASSUME chan[s] # <<>> PROVE Tail(chan[s]) = <<>>
      <4>1. Tail(chan[s]) \in Seq(R) /\ Len(Tail(chan[s])) = 0
        BY <3>1, <3>2, <3>3, HeadTailProperties
      <4> QED
        BY <4>1, EmptySeq
    <3> QED
      BY <2>1, <3>3
  <2>5. OpenInv'
    BY <2>1, <2>2, <2>4 DEF OwnerInv, OpenInv
  <2> QED
    BY <2>3, <2>5 DEF OwnerInv
<1> QED
  BY <1>1, <1>2, <1>3, <1>4, <1>5, <1>6, <1>8, <1>9, <1>10, <1>11, Steps,
     RequestKeeps, WaitKeeps, CallbackKeeps

(* The two arrays and every pointer into them.                              *)
LEMMA OwnerLive == BaseInv /\ OwnerInv => ClientIsLive
<1> SUFFICES ASSUME BaseInv, OwnerInv PROVE ClientIsLive
  OBVIOUS
<1>1. conn \in [Rest -> ConnType] /\ \A x \in Rest : conn[x] \in ConnType
  BY DEF BaseInv, ConnSide, ConnInv, ConnOK
<1>2. fault \in {"none", "freed", "null", "assert", "offset", "other", "unasked"}
  BY DEF BaseInv, ConnSide, FaultInv
<1>3. TypeOK
  BY <1>1, <1>2 DEF BaseInv, ConnSide, RestInv, PosType, SockType, SessionInv, TypeOK, ConnType, SesType
<1>4. /\ IsInjective(rest) /\ Range(rest) = {x \in Rest : conn[x].state # "CLOSED"}
      /\ IsInjective(client) /\ Range(client) = {s \in Session : ses[s].state # "FREED"}
  BY DEF BaseInv, ConnSide, RestInv, SessionInv
<1>5. (\A x \in Rest : conn[x].client # Null => conn[x].client \in Range(client)) /\ fault # "freed"
  BY DEF OwnerInv, PointerInv, UseInv
<1> QED
  BY <1>3, <1>4, <1>5 DEF ClientIsLive

(* No session yet, and nobody waits.                                        *)
LEMMA InitOwner == Init => OwnerInv
<1> SUFFICES ASSUME Init PROVE OwnerInv
  OBVIOUS
<1>1. Freed.state = "FREED"
  BY DEF Freed, NewClient
<1> QED
  BY <1>1, NewConnOK DEF Init, OwnerInv, PointerInv, OpenInv, BusyInv, UseInv, Busy, Errors

(* When no two connections use one session, main's two arrays are exact and *)
(* no connection points to a freed session, whatever logs out, fails or is  *)
(* dropped while main walks them; and no callback writes to an output that  *)
(* was freed; for any numbers of connections, sessions and accounts         *)
(* (gw-core.c, gw-*.c).                                                     *)
THEOREM PointersAreLive == ASSUME Shared = FALSE PROVE Spec => []ClientIsLive
<1>1. ASSUME BaseInv, OwnerInv, [Next]_vars PROVE OwnerInv'
  BY <1>1, NextOwner
<1>2. BaseInv /\ OwnerInv /\ [Next]_vars => OwnerInv'
  BY <1>1
<1> QED
  BY InitBase, NextBase, InitOwner, <1>2, OwnerLive, PTL DEF Spec

(* And a connection is sent the answer to its own command, although the     *)
(* output belongs to the session.                                           *)
THEOREM AnswersAreOwn == ASSUME Shared = FALSE PROVE Spec => []AnswerIsMine
<1>1. ASSUME BaseInv, OwnerInv, [Next]_vars PROVE OwnerInv'
  BY <1>1, NextOwner
<1>2. BaseInv /\ OwnerInv /\ [Next]_vars => OwnerInv'
  BY <1>1
<1>3. OwnerInv => AnswerIsMine
  BY DEF OwnerInv, UseInv, AnswerIsMine
<1> QED
  BY InitBase, NextBase, InitOwner, <1>2, <1>3, PTL DEF Spec
=============================================================================
