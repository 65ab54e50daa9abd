---------------------------- MODULE ChannelProofs ----------------------------
(***************************************************************************)
(* Proofs about the channel table, for any number of channels and any      *)
(* bound on the ids: type correctness; that no two registered channels     *)
(* share an id although ids are reused and never searched for; that the    *)
(* table implements ChannelIds; the order of the callbacks; and that every *)
(* answer finds its channel unless three channels were in the table at     *)
(* once since it was last empty: until then two ids are enough.            *)
(***************************************************************************)
EXTENDS Channel, TLAPS

(* The id handed out next after a registration is a natural number above    *)
(* the id just taken and different from every registered id.                *)
LEMMA NextAfterRegisterAbove ==
    ASSUME TypeOK, NEW n \in NextAfterRegister(next_channel_id)
    PROVE  /\ n \in Nat
           /\ n > next_channel_id
           /\ \A q \in live : channel_id[q] # n
<1> DEFINE above ==
        {channel_id[r] : r \in {q \in live : channel_id[q] >= next_channel_id + 1}}
<1>1. /\ next_channel_id \in Nat
      /\ \A q \in live : channel_id[q] \in Nat
  BY DEF TypeOK
<1>2. /\ n \in {next_channel_id + 1} \union {i + 1 : i \in above}
      /\ \A i \in above : n > i
  BY DEF NextAfterRegister
<1>3. \A i \in above : i \in Nat /\ i >= next_channel_id + 1
  BY <1>1
<1>4. n \in Nat /\ n > next_channel_id
  BY <1>1, <1>2, <1>3
<1>5. ASSUME NEW q \in live PROVE channel_id[q] # n
  <2>1. CASE channel_id[q] >= next_channel_id + 1
    <3>1. channel_id[q] \in above
      BY <2>1
    <3> QED BY <3>1, <1>1, <1>2, <1>4
  <2>2. CASE ~(channel_id[q] >= next_channel_id + 1)
    BY <2>2, <1>1, <1>4
  <2> QED BY <2>1, <2>2
<1> QED BY <1>4, <1>5

-----------------------------------------------------------------------------
(* Registering a channel and freeing one keep the types. *)
LEMMA RegisterTypes ==
    ASSUME TypeOK, NEW r \in Req, NEW k \in Kinds, channel_register(r, k)
    PROVE  /\ live' \subseteq Req
           /\ channel_id' \in [Req -> Nat]
           /\ state' \in [Req -> States]
           /\ next_channel_id' \in Nat
           /\ kind' \in [Req -> Kinds]
           /\ heard' \in [Req -> States \union {"nothing"}]
<1>1. next_channel_id' \in Nat
  BY NextAfterRegisterAbove DEF channel_register
<1> QED BY <1>1 DEF TypeOK, channel_register, InitialState, States

LEMMA UnregisterTypes ==
    ASSUME TypeOK, NEW c \in Req, channel_unregister(c)
    PROVE  live' \subseteq Req /\ next_channel_id' \in Nat
BY DEF TypeOK, channel_unregister, NextAfterUnregister

(* The request a command leaves with the server is one the server can have. *)
LEMMA RequestType ==
    ASSUME TypeOK, NEW r \in Req, NEW k \in Kinds
    PROVE  [chan |-> r, id |-> WireId(next_channel_id), kind |-> k] \in Requests
<1>1. next_channel_id \in Nat
  BY DEF TypeOK
<1>2. WireId(next_channel_id) \in 0 .. WireIds - 1
  BY <1>1, WireIdsAssumption DEF WireId
<1> QED BY <1>2 DEF Requests

(* A packet that is dropped changes only what the server owes. *)
LEMMA DroppedTypes ==
    ASSUME TypeOK, NEW o \in open, Dropped(o)
    PROVE  /\ open' \subseteq Requests
           /\ UNCHANGED <<live, channel_id, state, next_channel_id, kind, heard>>
BY DEF Dropped, TypeOK

(* The kinds of step: a command, its failed writes, a packet that is dropped, *)
(* one that is passed on to the channel found, the last one, a refused key.   *)
Commands == \E r \in Req, k \in Kinds : Command(r, k) \/ CommandWriteFails(r, k)
SubstreamFails == \E r \in Req : SubstreamWriteFails(r)
Drops == \E o \in open : Dropped(o)
Passes == \E o \in open : \E c \in Found(o.id) :
              (\E headers, last \in BOOLEAN : ProcessHeader(c, headers, last))
                 \/ ProcessData(c)
Ends == \E o \in open : \E c \in Found(o.id) :
              ProcessEnd(o, c) \/ ProcessError(o, c) \/ ProcessKey(o, c)
Refusals == \E o \in open : handle_aeskeyerr(o)

LEMMA StepCases ==
    ASSUME Step
    PROVE  Commands \/ SubstreamFails \/ Drops \/ Passes \/ Ends \/ Refusals
<1>1. ASSUME NEW r \in Req, NEW k \in Kinds, Command(r, k) \/ CommandWriteFails(r, k)
      PROVE  Commands
  BY <1>1 DEF Commands
<1>2. ASSUME NEW r \in Req, SubstreamWriteFails(r) PROVE SubstreamFails
  BY <1>2 DEF SubstreamFails
<1>3. ASSUME NEW o \in open, handle_channeldata(o) PROVE Drops \/ Passes \/ Ends
  BY <1>3, Zenon DEF handle_channeldata, Drops, Passes, Ends
<1>4. ASSUME NEW o \in open, handle_channelerr(o) PROVE Drops \/ Ends
  BY <1>4, Zenon DEF handle_channelerr, Drops, Ends
<1>5. ASSUME NEW o \in open, handle_aeskey(o) PROVE Drops \/ Ends
  BY <1>5, Zenon DEF handle_aeskey, Drops, Ends
<1>6. ASSUME NEW o \in open, handle_aeskeyerr(o) PROVE Refusals
  BY <1>6 DEF Refusals
<1> QED BY <1>1, <1>2, <1>3, <1>4, <1>5, <1>6, Zenon DEF Step

(* The types of what a step changes; crowded is in Watch. *)
StepTypes ==
    /\ live' \subseteq Req
    /\ channel_id' \in [Req -> Nat]
    /\ state' \in [Req -> States]
    /\ next_channel_id' \in Nat
    /\ kind' \in [Req -> Kinds]
    /\ open' \subseteq Requests
    /\ heard' \in [Req -> States \union {"nothing"}]

LEMMA StepKeepsTypes == TypeOK /\ Step => StepTypes
<1> SUFFICES ASSUME TypeOK, Step PROVE StepTypes
  OBVIOUS
<1>1. ASSUME NEW r \in Req, NEW k \in Kinds, Command(r, k) PROVE StepTypes
  BY <1>1, RegisterTypes, RequestType DEF Command, TypeOK, StepTypes
<1>2. ASSUME NEW r \in Req, NEW k \in Kinds, CommandWriteFails(r, k) PROVE StepTypes
  BY <1>2, RegisterTypes DEF CommandWriteFails, TypeOK, StepTypes
<1>3. ASSUME NEW r \in Req, SubstreamWriteFails(r) PROVE StepTypes
  BY <1>3 DEF SubstreamWriteFails, TypeOK, States, Kinds, StepTypes
<1>4. ASSUME NEW o \in open, Dropped(o) PROVE StepTypes
  BY <1>4, DroppedTypes DEF TypeOK, StepTypes
<1>5. ASSUME NEW o \in open, NEW c \in Found(o.id),
             \/ \E headers, last \in BOOLEAN : ProcessHeader(c, headers, last)
             \/ ProcessData(c)
             \/ ProcessEnd(o, c)
      PROVE  StepTypes
  <2>0. c \in Req
    BY DEF Found, TypeOK
  <2>1. ASSUME NEW headers \in BOOLEAN, NEW last \in BOOLEAN,
               ProcessHeader(c, headers, last)
        PROVE  StepTypes
    BY <2>0, <2>1 DEF ProcessHeader, TypeOK, States, StepTypes
  <2>2. CASE ProcessData(c)
    BY <2>0, <2>2 DEF ProcessData, TypeOK, States, StepTypes
  <2>3. CASE ProcessEnd(o, c)
    BY <2>0, <2>3, UnregisterTypes DEF ProcessEnd, TypeOK, States, StepTypes
  <2> QED BY <1>5, <2>1, <2>2, <2>3
<1>6. ASSUME NEW o \in open, NEW c \in Found(o.id), ProcessError(o, c) PROVE StepTypes
  <2>0. c \in Req
    BY DEF Found, TypeOK
  <2> QED BY <1>6, <2>0, UnregisterTypes DEF ProcessError, TypeOK, States, StepTypes
<1>7. ASSUME NEW o \in open, NEW c \in Found(o.id), ProcessKey(o, c) PROVE StepTypes
  <2>0. c \in Req
    BY DEF Found, TypeOK
  <2> QED BY <1>7, <2>0, UnregisterTypes DEF ProcessKey, TypeOK, StepTypes
<1>8. ASSUME NEW o \in open, handle_aeskeyerr(o) PROVE StepTypes
  BY <1>8 DEF handle_aeskeyerr, TypeOK, StepTypes
<1> QED BY <1>1, <1>2, <1>3, <1>4, <1>5, <1>6, <1>7, <1>8, StepCases, Zenon
        DEF Commands, SubstreamFails, Drops, Passes, Ends, Refusals

(* Every step of the channel table keeps the types. *)
LEMMA TypeStep == TypeOK /\ [Next]_vars => TypeOK'
<1>1. ASSUME TypeOK, Step, Watch PROVE TypeOK'
  <2>1. StepTypes
    BY <1>1, StepKeepsTypes
  <2>2. crowded' \in BOOLEAN
    BY <1>1 DEF Watch
  <2> QED BY <2>1, <2>2 DEF TypeOK, StepTypes
<1>2. ASSUME TypeOK, UNCHANGED vars PROVE TypeOK'
  BY <1>2 DEF vars, TypeOK
<1> QED BY <1>1, <1>2 DEF Next

LEMMA InitTypes == Init => TypeOK
<1> SUFFICES ASSUME Init PROVE TypeOK
  OBVIOUS
<1>1. crowded \in BOOLEAN
  BY Zenon DEF Init
<1>2. /\ live \subseteq Req /\ channel_id \in [Req -> Nat] /\ state \in [Req -> States]
      /\ next_channel_id \in Nat /\ kind \in [Req -> Kinds] /\ open \subseteq Requests
      /\ heard \in [Req -> States \union {"nothing"}]
  BY DEF Init, States, Kinds
<1> QED BY <1>1, <1>2, Zenon DEF TypeOK

(* The channel table is well typed in every reachable state. *)
THEOREM TypeCorrect == Spec => []TypeOK
<1>1. Init => TypeOK
  BY Zenon, InitTypes
<1> QED BY <1>1, TypeStep, PTL DEF Spec

-----------------------------------------------------------------------------
(* What a step does to the table: it registers one channel, frees one, or    *)
(* leaves the table and the ids in it as they are.                           *)
SameTable ==
    /\ UNCHANGED <<live, next_channel_id>>
    /\ \A q \in live : channel_id'[q] = channel_id[q]

TableStep ==
    \/ \E r \in Req, k \in Kinds : channel_register(r, k)
    \/ \E c \in live : channel_unregister(c) /\ UNCHANGED channel_id
    \/ SameTable

LEMMA EveryStepIsTableStep == TypeOK /\ [Next]_vars => TableStep
<1> SUFFICES ASSUME TypeOK, [Next]_vars PROVE TableStep
  OBVIOUS
<1>1. ASSUME NEW r \in Req, NEW k \in Kinds, Command(r, k) \/ CommandWriteFails(r, k)
      PROVE  TableStep
  BY <1>1 DEF Command, CommandWriteFails, TableStep
<1>2. ASSUME NEW r \in Req, SubstreamWriteFails(r) PROVE SameTable
  BY <1>2 DEF SubstreamWriteFails, TypeOK, SameTable
<1>3. ASSUME NEW o \in open, Dropped(o) PROVE SameTable
  BY <1>3 DEF Dropped, SameTable
<1>4. ASSUME NEW o \in open, NEW c \in Found(o.id),
             (\E headers, last \in BOOLEAN : ProcessHeader(c, headers, last))
                \/ ProcessData(c)
      PROVE  SameTable
  BY <1>4 DEF ProcessHeader, ProcessData, SameTable
<1>5. ASSUME NEW o \in open, NEW c \in Found(o.id),
             ProcessEnd(o, c) \/ ProcessError(o, c) \/ ProcessKey(o, c)
      PROVE  TableStep
  BY <1>5 DEF ProcessEnd, ProcessError, ProcessKey, Found, TableStep
<1>6. ASSUME NEW o \in open, handle_aeskeyerr(o) PROVE SameTable
  BY <1>6 DEF handle_aeskeyerr, SameTable
<1>7. CASE UNCHANGED vars
  BY <1>7 DEF vars, SameTable, TableStep
<1>8. SameTable => TableStep
  BY DEF TableStep
<1> QED BY <1>1, <1>2, <1>3, <1>4, <1>5, <1>6, <1>7, <1>8, StepCases, Zenon
        DEF Commands, SubstreamFails, Drops, Passes, Ends, Refusals, Next

-----------------------------------------------------------------------------
(* The inductive invariant: ids are unique because the next id is free. *)
IdInv == UniqueIds /\ NextIdFree

(* channel_register keeps it: the new channel takes the free id and the next *)
(* id is above it and unused.                                                *)
LEMMA RegisterKeepsIdInv ==
    ASSUME TypeOK, IdInv, NEW r \in Req, NEW k \in Kinds, channel_register(r, k)
    PROVE  IdInv'
<1>1. /\ next_channel_id' \in Nat
      /\ next_channel_id' > next_channel_id
      /\ \A q \in live : channel_id[q] # next_channel_id'
  BY NextAfterRegisterAbove DEF channel_register
<1>2. /\ next_channel_id \in Nat
      /\ live' = live \union {r}
      /\ r \notin live
      /\ channel_id'[r] = next_channel_id
      /\ \A q \in live : channel_id'[q] = channel_id[q]
  BY DEF channel_register, TypeOK
<1>3. NextIdFree'
  BY <1>1, <1>2 DEF NextIdFree
<1>4. UniqueIds'
  BY <1>2 DEF IdInv, UniqueIds, NextIdFree
<1> QED BY <1>3, <1>4 DEF IdInv

(* channel_unregister keeps it: the next id is either the id given back, which *)
(* no other channel has, or the one that was free before.                      *)
LEMMA UnregisterKeepsIdInv ==
    ASSUME TypeOK, IdInv, NEW c \in live, channel_unregister(c), UNCHANGED channel_id
    PROVE  IdInv'
BY DEF TypeOK, IdInv, UniqueIds, NextIdFree, channel_unregister, NextAfterUnregister

(* A step that changes neither the table nor the ids in it keeps it. *)
LEMMA SameTableKeepsIdInv ==
    ASSUME IdInv, SameTable
    PROVE  IdInv'
BY DEF IdInv, UniqueIds, NextIdFree, SameTable

LEMMA IdStep == TypeOK /\ IdInv /\ [Next]_vars => IdInv'
BY EveryStepIsTableStep, RegisterKeepsIdInv, UnregisterKeepsIdInv, SameTableKeepsIdInv
   DEF TableStep

(* channel_register never hands out an id that is in use: for any number of  *)
(* channels, however their answers, errors and failed writes interleave.     *)
THEOREM IdsAreUnique == Spec => []UniqueIds
<1>1. Init => IdInv
  BY DEF Init, IdInv, UniqueIds, NextIdFree
<1>2. IdInv => UniqueIds
  BY DEF IdInv
<1> QED BY <1>1, <1>2, IdStep, TypeCorrect, PTL DEF Spec

-----------------------------------------------------------------------------
(* The refinement.  A step of the table registers one channel, frees one, or *)
(* leaves the ids of the registered channels as they are.                    *)

IdsOf == [r \in live |-> channel_id[r]]

LEMMA RegisterRefines ==
    ASSUME TypeOK, IdInv, NEW r \in Req, NEW k \in Kinds, channel_register(r, k)
    PROVE  Contract!Next
<1>1. /\ r \notin live
      /\ next_channel_id \in (0 .. MaxId) \ {IdsOf[c] : c \in live}
  BY MaxIdAssumption DEF channel_register, TypeOK, IdInv, NextIdFree, IdsOf
<1>2. IdsOf' = [d \in live \union {r} |-> IF d = r THEN next_channel_id ELSE IdsOf[d]]
  BY DEF channel_register, TypeOK, IdsOf
<1> QED BY <1>1, <1>2 DEF Contract!Next, Contract!Register, Contract!InUse, IdsOf

LEMMA UnregisterRefines ==
    ASSUME TypeOK, NEW c \in live, channel_unregister(c), UNCHANGED channel_id
    PROVE  Contract!Next
<1>1. c \in Req
  BY DEF TypeOK
<1>2. IdsOf' = [d \in live \ {c} |-> IdsOf[d]]
  BY DEF channel_unregister, IdsOf
<1> QED BY <1>1, <1>2 DEF Contract!Next, Contract!Unregister, IdsOf

LEMMA SameTableRefines ==
    ASSUME SameTable
    PROVE  UNCHANGED IdsOf
BY DEF IdsOf, SameTable

LEMMA RefinementStep == TypeOK /\ IdInv /\ [Next]_vars => [Contract!Next]_IdsOf
BY EveryStepIsTableStep, RegisterRefines, UnregisterRefines, SameTableRefines
   DEF TableStep

(* The channel table of channel.c, its operations taken as atomic, implements *)
(* the contract of ChannelIds: for any number of channels, each registration  *)
(* gives one channel an id that is free, and nothing else changes an id.      *)
THEOREM TableImplementsContract == Spec => ImplementsContract
<1>1. Init => Contract!Init
  BY DEF Init, Contract!Init
<1>2. Init => IdInv
  BY DEF Init, IdInv, UniqueIds, NextIdFree
<1> QED BY <1>1, <1>2, IdStep, RefinementStep, TypeCorrect, PTL
        DEF Spec, ImplementsContract, Contract!Spec, IdsOf
-----------------------------------------------------------------------------
(* The order of the callbacks.  What a registered channel's callback has    *)
(* heard never runs ahead of the channel's state.                           *)
CallbackInv ==
    \A c \in live :
        /\ state[c] \in {"HEADER", "DATA"}
        /\ heard[c] \in {"nothing", "HEADER", "DATA"}
        /\ state[c] = "HEADER" => heard[c] # "DATA"

(* What one step tells one callback, as CallbackOrder states it. *)
CallbackStep(r) ==
    heard'[r] # heard[r] =>
       \/ /\ heard'[r] = "nothing"
          /\ r \notin live
       \/ /\ Rank[heard[r]] < Rank[heard'[r]]
          /\ r \in live
          /\ Rank[heard'[r]] = 3 => r \notin live'

LEMMA RegisterCallback ==
    ASSUME TypeOK, CallbackInv, NEW r \in Req, NEW k \in Kinds, channel_register(r, k)
    PROVE  CallbackInv' /\ \A q \in Req : CallbackStep(q)
<1>1. /\ live' = live \union {r}
      /\ state'[r] \in {"HEADER", "DATA"}
      /\ heard'[r] = "nothing"
      /\ \A q \in Req : q # r => state'[q] = state[q] /\ heard'[q] = heard[q]
  BY DEF channel_register, TypeOK, InitialState
<1>2. CallbackInv'
  BY <1>1 DEF CallbackInv, TypeOK
<1>3. \A q \in Req : CallbackStep(q)
  BY <1>1 DEF CallbackStep, channel_register
<1> QED BY <1>2, <1>3

LEMMA CallbackInvStep ==
    TypeOK /\ CallbackInv /\ [Next]_vars =>
        CallbackInv' /\ ((\A q \in Req : CallbackStep(q)) \/ UNCHANGED vars)
<1> SUFFICES ASSUME TypeOK, CallbackInv, [Next]_vars
             PROVE  CallbackInv' /\ ((\A q \in Req : CallbackStep(q)) \/ UNCHANGED vars)
  OBVIOUS
<1> DEFINE Told == CallbackInv' /\ \A q \in Req : CallbackStep(q)
<1>1. ASSUME NEW r \in Req, NEW k \in Kinds, Command(r, k) \/ CommandWriteFails(r, k)
      PROVE  Told
  BY <1>1, RegisterCallback DEF Command, CommandWriteFails
<1>2. ASSUME NEW r \in Req, SubstreamWriteFails(r) PROVE Told
  <2>1. \A q \in Req : q # r => state'[q] = state[q] /\ heard'[q] = heard[q]
    BY <1>2 DEF SubstreamWriteFails, TypeOK
  <2>2. r \notin live /\ live' = live /\ heard'[r] = "nothing"
    BY <1>2 DEF SubstreamWriteFails, TypeOK
  <2>3. CallbackInv'
    BY <2>1, <2>2 DEF CallbackInv, TypeOK
  <2>4. \A q \in Req : CallbackStep(q)
    BY <2>1, <2>2 DEF CallbackStep
  <2> QED BY <2>3, <2>4
<1>3. ASSUME NEW o \in open, Dropped(o) PROVE Told
  BY <1>3 DEF Dropped, CallbackInv, CallbackStep
<1>4. ASSUME NEW o \in open, NEW c \in Found(o.id),
             \/ \E headers, last \in BOOLEAN : ProcessHeader(c, headers, last)
             \/ ProcessData(c)
             \/ ProcessEnd(o, c)
      PROVE  Told
  <2>0. c \in live /\ c \in Req
    BY DEF Found, TypeOK
  <2>1. ASSUME NEW headers \in BOOLEAN, NEW last \in BOOLEAN,
               ProcessHeader(c, headers, last)
        PROVE  Told
    <3>1. /\ live' = live
          /\ state[c] = "HEADER"
          /\ state'[c] \in {"HEADER", "DATA"}
          /\ heard'[c] = heard[c] \/ heard'[c] = "HEADER"
          /\ \A q \in Req : q # c => state'[q] = state[q] /\ heard'[q] = heard[q]
      BY <2>0, <2>1 DEF ProcessHeader, TypeOK
    <3>2. CallbackInv'
      BY <2>0, <3>1 DEF CallbackInv, TypeOK
    <3>3. \A q \in Req : CallbackStep(q)
      BY <2>0, <3>1 DEF CallbackInv, CallbackStep, Rank
    <3> QED BY <3>2, <3>3
  <2>2. CASE ProcessData(c)
    <3>1. /\ live' = live
          /\ state' = state
          /\ state[c] = "DATA"
          /\ heard'[c] = "DATA"
          /\ \A q \in Req : q # c => heard'[q] = heard[q]
      BY <2>0, <2>2 DEF ProcessData, TypeOK
    <3>2. CallbackInv'
      BY <2>0, <3>1 DEF CallbackInv, TypeOK
    <3>3. \A q \in Req : CallbackStep(q)
      BY <2>0, <3>1 DEF CallbackInv, CallbackStep, Rank
    <3> QED BY <3>2, <3>3
  <2>3. CASE ProcessEnd(o, c)
    <3>1. /\ live' = live \ {c}
          /\ heard'[c] = "END"
          /\ \A q \in Req : q # c => state'[q] = state[q] /\ heard'[q] = heard[q]
      BY <2>0, <2>3 DEF ProcessEnd, channel_unregister, TypeOK
    <3>2. CallbackInv'
      BY <2>0, <3>1 DEF CallbackInv, TypeOK
    <3>3. \A q \in Req : CallbackStep(q)
      BY <2>0, <3>1 DEF CallbackInv, CallbackStep, Rank
    <3> QED BY <3>2, <3>3
  <2> QED BY <1>4, <2>1, <2>2, <2>3
<1>5. ASSUME NEW o \in open, NEW c \in Found(o.id), ProcessError(o, c) PROVE Told
  <2>0. c \in live /\ c \in Req
    BY DEF Found, TypeOK
  <2>1. /\ live' = live \ {c}
        /\ heard'[c] = "ERROR"
        /\ \A q \in Req : q # c => state'[q] = state[q] /\ heard'[q] = heard[q]
    BY <1>5, <2>0 DEF ProcessError, channel_unregister, TypeOK
  <2>2. CallbackInv'
    BY <2>0, <2>1 DEF CallbackInv, TypeOK
  <2>3. \A q \in Req : CallbackStep(q)
    BY <2>0, <2>1 DEF CallbackInv, CallbackStep, Rank
  <2> QED BY <2>2, <2>3
<1>6. ASSUME NEW o \in open, NEW c \in Found(o.id), ProcessKey(o, c) PROVE Told
  <2>0. c \in live /\ c \in Req
    BY DEF Found, TypeOK
  <2>1. /\ live' = live \ {c}
        /\ state' = state
        /\ heard'[c] = state[c]
        /\ \A q \in Req : q # c => heard'[q] = heard[q]
    BY <1>6, <2>0 DEF ProcessKey, channel_unregister, TypeOK
  <2>2. CallbackInv'
    BY <2>0, <2>1 DEF CallbackInv, TypeOK
  <2>3. \A q \in Req : CallbackStep(q)
    BY <2>0, <2>1 DEF CallbackInv, CallbackStep, Rank
  <2> QED BY <2>2, <2>3
<1>7. ASSUME NEW o \in open, handle_aeskeyerr(o) PROVE Told
  BY <1>7 DEF handle_aeskeyerr, CallbackInv, CallbackStep
<1>8. ASSUME UNCHANGED vars PROVE CallbackInv'
  BY <1>8 DEF vars, CallbackInv
<1> QED BY <1>1, <1>2, <1>3, <1>4, <1>5, <1>6, <1>7, <1>8, StepCases, Zenon
        DEF Commands, SubstreamFails, Drops, Passes, Ends, Refusals, Next

(* Every requester hears headers, then data, then one END or ERROR with which *)
(* its channel leaves the table: whatever the server sends, in any order, and *)
(* even where the 16 bits of the id find another requester's channel.         *)
THEOREM CallbacksInOrder == Spec => CallbackOrder
<1>1. Init => CallbackInv
  BY DEF Init, CallbackInv
<1>2. ((\A q \in Req : CallbackStep(q)) \/ UNCHANGED vars)
        <=> [\A r \in Req :
               heard'[r] # heard[r] =>
                  \/ /\ heard'[r] = "nothing"
                     /\ r \notin live
                  \/ /\ Rank[heard[r]] < Rank[heard'[r]]
                     /\ r \in live
                     /\ Rank[heard'[r]] = 3 => r \notin live']_vars
  BY DEF CallbackStep
<1> QED BY <1>1, <1>2, CallbackInvStep, TypeCorrect, PTL DEF Spec, CallbackOrder

-----------------------------------------------------------------------------
(* Answers and their channels.  While at most two channels are in the table  *)
(* at a time, every id below the next one is in use, so that ids never       *)
(* drift: 0 and 1 are enough.  Whatever happened before, the id 0 is in use  *)
(* or the next one, so that a table that was emptied starts over.            *)
ZeroInv == next_channel_id = 0 \/ \E r \in live : channel_id[r] = 0

TwoInv ==
    /\ ~Three(live)
    /\ next_channel_id \in 0 .. 2
    /\ \A r \in live : channel_id[r] \in 0 .. 1
    /\ \A i \in 0 .. 1 : i < next_channel_id => \E r \in live : channel_id[r] = i

(* What the server still owes is owed to a registered channel, with the id it *)
(* has in the table; and so is every substream's channel.                     *)
AnswerInv ==
    /\ \A o \in open : /\ o.chan \in live
                       /\ o.id = WireId(channel_id[o.chan])
                       /\ o.kind = kind[o.chan]
    /\ \A r \in live : kind[r] = "substream" => \E o \in open : o.chan = r

(* The inductive invariant. *)
CrowdInv ==
    /\ TypeOK
    /\ IdInv
    /\ ZeroInv
    /\ crowded = FALSE => TwoInv
    /\ crowded = FALSE => AnswerInv

LEMMA ZeroStep == TypeOK /\ IdInv /\ ZeroInv /\ [Next]_vars => ZeroInv'
<1> SUFFICES ASSUME TypeOK, IdInv, ZeroInv, TableStep PROVE ZeroInv'
  BY EveryStepIsTableStep
<1>1. ASSUME NEW r \in Req, NEW k \in Kinds, channel_register(r, k) PROVE ZeroInv'
  <2>1. /\ live' = live \union {r} /\ r \notin live
        /\ channel_id'[r] = next_channel_id
        /\ \A q \in live : channel_id'[q] = channel_id[q]
    BY <1>1 DEF channel_register, TypeOK
  <2> QED BY <2>1 DEF ZeroInv
<1>2. ASSUME NEW c \in live, channel_unregister(c), UNCHANGED channel_id PROVE ZeroInv'
  <2>1. channel_id[c] \in Nat /\ next_channel_id \in Nat /\ channel_id[c] # next_channel_id
    BY DEF TypeOK, IdInv, NextIdFree
  <2>2. /\ live' = live \ {c}
        /\ channel_id' = channel_id
        /\ next_channel_id' = IF channel_id[c] < next_channel_id
                              THEN channel_id[c] ELSE next_channel_id
    BY <1>2 DEF channel_unregister, NextAfterUnregister
  <2>3. CASE channel_id[c] = 0
    <3>1. next_channel_id' = 0
      BY <2>1, <2>2, <2>3
    <3> QED BY <3>1 DEF ZeroInv
  <2>4. CASE channel_id[c] # 0
    BY <2>1, <2>2, <2>4 DEF ZeroInv
  <2> QED BY <2>3, <2>4
<1>3. CASE SameTable
  BY <1>3 DEF SameTable, ZeroInv
<1> QED BY <1>1, <1>2, <1>3 DEF TableStep

(* An empty table starts over. *)
LEMMA EmptyStartsOver ==
    ASSUME TypeOK, ZeroInv, live = {}
    PROVE  TwoInv
BY DEF ZeroInv, TwoInv, Three

-----------------------------------------------------------------------------
LEMMA TwoRegister ==
    ASSUME TypeOK, IdInv, TwoInv, NEW r \in Req, NEW k \in Kinds,
           channel_register(r, k), ~Three(live')
    PROVE  TwoInv'
<1>1. /\ r \notin live
      /\ live' = live \union {r}
      /\ channel_id'[r] = next_channel_id
      /\ \A q \in live : channel_id'[q] = channel_id[q] /\ q \in Req
      /\ \A q \in live : channel_id[q] # next_channel_id
  BY DEF channel_register, TypeOK, IdInv, NextIdFree
<1>2. next_channel_id' \in NextAfterRegister(next_channel_id)
  BY DEF channel_register
<1>3. CASE live = {}
  <2>1. next_channel_id = 0
    BY <1>3 DEF TwoInv
  <2>2. next_channel_id' = 1
    BY <1>2, <1>3, <2>1 DEF NextAfterRegister
  <2> QED BY <1>1, <1>3, <2>1, <2>2 DEF TwoInv
<1>4. CASE live # {}
  <2>1. PICK o \in live : TRUE
    BY <1>4
  <2>2. \A q \in live : q = o
    BY <1>1, <2>1 DEF Three
  <2>3. live = {o} /\ channel_id[o] # next_channel_id
    BY <1>1, <2>1, <2>2
  <2>4. \/ channel_id[o] = 0 /\ next_channel_id = 1
        \/ channel_id[o] = 1 /\ next_channel_id = 0
    BY <2>3 DEF TwoInv
  <2>5. next_channel_id' = 2
    BY <1>2, <2>3, <2>4 DEF NextAfterRegister
  <2> QED BY <1>1, <2>3, <2>4, <2>5 DEF TwoInv
<1> QED BY <1>3, <1>4

LEMMA TwoUnregister ==
    ASSUME IdInv, TwoInv, NEW c \in live, channel_unregister(c), UNCHANGED channel_id
    PROVE  TwoInv'
<1>1. /\ live' = live \ {c}
      /\ next_channel_id' = IF channel_id[c] < next_channel_id
                            THEN channel_id[c] ELSE next_channel_id
  BY DEF channel_unregister, NextAfterUnregister
<1>2. /\ channel_id[c] \in 0 .. 1
      /\ next_channel_id' \in 0 .. 2
      /\ next_channel_id' <= channel_id[c]
  BY <1>1 DEF TwoInv, IdInv, NextIdFree
<1>3. ASSUME NEW i \in 0 .. 1, i < next_channel_id'
      PROVE  \E r \in live' : channel_id'[r] = i
  <2>1. i < next_channel_id /\ i # channel_id[c]
    BY <1>1, <1>2, <1>3 DEF TwoInv
  <2> QED BY <1>1, <2>1 DEF TwoInv
<1>4. ~Three(live')
  BY <1>1 DEF TwoInv, Three
<1> QED BY <1>1, <1>2, <1>3, <1>4 DEF TwoInv

LEMMA TwoStep ==
    TypeOK /\ IdInv /\ TwoInv /\ [Next]_vars /\ ~Three(live') => TwoInv'
<1> SUFFICES ASSUME TypeOK, IdInv, TwoInv, TableStep, ~Three(live') PROVE TwoInv'
  BY EveryStepIsTableStep
<1>1. ASSUME NEW r \in Req, NEW k \in Kinds, channel_register(r, k) PROVE TwoInv'
  BY <1>1, TwoRegister
<1>2. CASE SameTable
  BY <1>2 DEF SameTable, TwoInv
<1> QED BY <1>1, <1>2, TwoUnregister DEF TableStep

-----------------------------------------------------------------------------
(* An id below the modulus is its own remainder. *)
LEMMA SmallRemainder ==
    ASSUME NEW n \in Nat, NEW m \in Nat \ {0}, n < m
    PROVE  n % m = n
OBVIOUS

(* With ids that fit, a packet for o finds the channel that asked, and no other. *)
LEMMA AnswerFindsRequester ==
    ASSUME WireIds >= 2, TypeOK, IdInv, TwoInv, AnswerInv, NEW o \in open
    PROVE  Found(o.id) = {o.chan}
<1>1. /\ o.chan \in live
      /\ channel_id[o.chan] \in 0 .. 1
      /\ o.id = WireId(channel_id[o.chan])
  BY DEF AnswerInv, TwoInv
<1>2. o.id = channel_id[o.chan]
  BY <1>1, SmallRemainder, WireIdsAssumption DEF WireId
<1> QED BY <1>1, <1>2 DEF Found, IdInv, UniqueIds

(* Two requests the server owes are owed to two channels. *)
LEMMA OneRequestEach ==
    ASSUME TypeOK, AnswerInv, NEW o \in open, NEW p \in open, o.chan = p.chan
    PROVE  o = p
<1>1. o \in Requests /\ p \in Requests
  BY DEF TypeOK
<1>2. o.id = p.id /\ o.kind = p.kind
  BY DEF AnswerInv
<1> QED BY <1>1, <1>2 DEF Requests

(* A channel that is registered, with or without its request. *)
LEMMA AnswerRegister ==
    ASSUME TypeOK, AnswerInv, NEW r \in Req, NEW k \in Kinds, channel_register(r, k),
           \/ open' = open \union {[chan |-> r, id |-> WireId(next_channel_id), kind |-> k]}
           \/ k # "substream" /\ open' = open
    PROVE  AnswerInv'
<1> DEFINE new == [chan |-> r, id |-> WireId(next_channel_id), kind |-> k]
<1>1. /\ r \notin live
      /\ live' = live \union {r}
      /\ channel_id'[r] = next_channel_id
      /\ kind'[r] = k
      /\ \A q \in live : channel_id'[q] = channel_id[q] /\ kind'[q] = kind[q]
  BY DEF channel_register, TypeOK
<1>2. new.chan = r /\ new.id = WireId(next_channel_id) /\ new.kind = k
  OBVIOUS
<1>3. open' = open \union {new} \/ (k # "substream" /\ open' = open)
  OBVIOUS
<1> HIDE DEF new
<1>4. ASSUME NEW o \in open'
      PROVE  /\ o.chan \in live'
             /\ o.id = WireId(channel_id'[o.chan])
             /\ o.kind = kind'[o.chan]
  <2>1. CASE o = new
    BY <1>1, <1>2, <2>1 DEF WireId
  <2>2. CASE o \in open
    BY <1>1, <2>2 DEF AnswerInv, WireId
  <2> QED BY <1>3, <2>1, <2>2
<1>5. ASSUME NEW q \in live', kind'[q] = "substream"
      PROVE  \E o \in open' : o.chan = q
  <2>1. CASE q = r
    BY <1>1, <1>2, <1>3, <1>5, <2>1
  <2>2. CASE q \in live
    BY <1>1, <1>3, <1>5, <2>2 DEF AnswerInv
  <2> QED BY <1>1, <2>1, <2>2
<1> QED BY <1>4, <1>5 DEF AnswerInv, WireId

(* The last answer to a request frees its own channel. *)
LEMMA AnswerLast ==
    ASSUME TypeOK, AnswerInv, NEW o \in open, live' = live \ {o.chan},
           open' = open \ {o}, UNCHANGED <<channel_id, kind>>
    PROVE  AnswerInv'
<1>1. ASSUME NEW p \in open' PROVE p \in open /\ p.chan \in live'
  <2>1. p \in open /\ p # o
    BY <1>1
  <2> QED BY <2>1, OneRequestEach DEF AnswerInv
<1>2. ASSUME NEW q \in live', kind[q] = "substream" PROVE \E p \in open' : p.chan = q
  BY <1>2 DEF AnswerInv
<1> QED BY <1>1, <1>2 DEF AnswerInv, WireId

LEMMA AnswerStep ==
    WireIds >= 2 /\ TypeOK /\ IdInv /\ TwoInv /\ AnswerInv /\ [Next]_vars => AnswerInv'
<1> SUFFICES ASSUME WireIds >= 2, TypeOK, IdInv, TwoInv, AnswerInv, [Next]_vars
             PROVE  AnswerInv'
  OBVIOUS
<1>0. \A o \in open : Found(o.id) = {o.chan}
  BY AnswerFindsRequester
<1>1. ASSUME NEW r \in Req, NEW k \in Kinds, Command(r, k) PROVE AnswerInv'
  BY <1>1, AnswerRegister DEF Command
<1>2. ASSUME NEW r \in Req, NEW k \in Kinds, CommandWriteFails(r, k) PROVE AnswerInv'
  BY <1>2, AnswerRegister DEF CommandWriteFails
<1>3. ASSUME NEW r \in Req, SubstreamWriteFails(r) PROVE AnswerInv'
  <2>1. /\ r \notin live
        /\ live' = live /\ open' = open
        /\ \A q \in live : channel_id'[q] = channel_id[q] /\ kind'[q] = kind[q]
    BY <1>3 DEF SubstreamWriteFails, TypeOK
  <2> QED BY <2>1 DEF AnswerInv, WireId
<1>4. ASSUME NEW o \in open, Dropped(o) PROVE FALSE
  BY <1>0, <1>4 DEF Dropped
<1>5. ASSUME NEW o \in open, NEW c \in Found(o.id),
             (\E headers, last \in BOOLEAN : ProcessHeader(c, headers, last))
                \/ ProcessData(c)
      PROVE  AnswerInv'
  BY <1>5 DEF ProcessHeader, ProcessData, AnswerInv, WireId
<1>6. ASSUME NEW o \in open, NEW c \in Found(o.id),
             ProcessEnd(o, c) \/ ProcessError(o, c) \/ ProcessKey(o, c)
      PROVE  AnswerInv'
  <2>1. c = o.chan
    BY <1>0, <1>6
  <2>2. live' = live \ {o.chan} /\ open' = open \ {o} /\ UNCHANGED <<channel_id, kind>>
    BY <1>6, <2>1 DEF ProcessEnd, ProcessError, ProcessKey, channel_unregister
  <2> QED BY <2>2, AnswerLast
<1>7. ASSUME NEW o \in open, handle_aeskeyerr(o) PROVE AnswerInv'
  <2>1. /\ o.kind = "aeskey" /\ o.kind = kind[o.chan]
        /\ open' = open \ {o} /\ UNCHANGED <<live, channel_id, kind>>
    BY <1>7 DEF handle_aeskeyerr, AnswerInv
  <2>2. ASSUME NEW q \in live, kind[q] = "substream" PROVE \E p \in open' : p.chan = q
    <3>1. PICK p \in open : p.chan = q
      BY <2>2 DEF AnswerInv
    <3>2. p # o
      BY <2>1, <2>2, <3>1
    <3> QED BY <2>1, <3>1, <3>2
  <2> QED BY <2>1, <2>2 DEF AnswerInv, WireId
<1>8. CASE UNCHANGED vars
  BY <1>8 DEF vars, AnswerInv, WireId
<1> QED BY <1>1, <1>2, <1>3, <1>4, <1>5, <1>6, <1>7, <1>8, StepCases, Zenon
        DEF Commands, SubstreamFails, Drops, Passes, Ends, Refusals, Next

-----------------------------------------------------------------------------
(* crowded falls only where the table is empty and nothing is owed, and rises *)
(* where a third channel is registered.                                       *)
LEMMA CrowdStep == WireIds >= 2 /\ CrowdInv /\ [Next]_vars => CrowdInv'
<1> SUFFICES ASSUME WireIds >= 2, CrowdInv, [Next]_vars PROVE CrowdInv'
  OBVIOUS
<1>1. TypeOK' /\ IdInv' /\ ZeroInv'
  BY TypeStep, IdStep, ZeroStep DEF CrowdInv
<1>2. ASSUME crowded' = FALSE PROVE TwoInv' /\ AnswerInv'
  <2>1. CASE UNCHANGED vars
    <3>1. TwoInv /\ AnswerInv
      BY <1>2, <2>1 DEF CrowdInv, vars
    <3> QED BY <2>1, <3>1 DEF vars, TwoInv, AnswerInv, Three, WireId
  <2>2. CASE Watch
    <3>1. /\ ~Three(live')
          /\ crowded = FALSE \/ (live' = {} /\ open' = {})
      <4>1. crowded \in BOOLEAN
        BY DEF CrowdInv, TypeOK
      <4> QED BY <1>2, <2>2, <4>1 DEF Watch
    <3>2. CASE crowded = FALSE
      BY <3>1, <3>2, TwoStep, AnswerStep DEF CrowdInv
    <3>3. CASE live' = {} /\ open' = {}
      <4>1. TwoInv'
        BY <1>1, <3>3 DEF ZeroInv, TwoInv, Three, TypeOK
      <4> QED BY <3>3, <4>1 DEF AnswerInv
    <3> QED BY <3>1, <3>2, <3>3
  <2> QED BY <2>1, <2>2 DEF Next
<1> QED BY <1>1, <1>2 DEF CrowdInv

LEMMA CrowdInvariant ==
    ASSUME WireIds >= 2
    PROVE  Spec => []CrowdInv
<1>1. Init => CrowdInv
  <2> SUFFICES ASSUME Init PROVE CrowdInv
    OBVIOUS
  <2>1. TypeOK
    BY InitTypes
  <2>2. IdInv /\ ZeroInv /\ AnswerInv
    BY DEF Init, IdInv, UniqueIds, NextIdFree, ZeroInv, AnswerInv
  <2>3. TwoInv
    BY DEF Init, TwoInv, Three
  <2> QED BY <2>1, <2>2, <2>3 DEF CrowdInv
<1>2. CrowdInv /\ [Next]_vars => CrowdInv'
  BY CrowdStep
<1> QED BY <1>1, <1>2, PTL DEF Spec

(* However many requests follow one another and however high ids may get: as  *)
(* long as no three channels are in the table at once since it was last empty *)
(* with nothing owed, every answer reaches the channel that asked, and no     *)
(* other one.  Two values of the id are enough.                               *)
THEOREM AnswersReachTheirChannel ==
    ASSUME WireIds >= 2
    PROVE  Spec => []AnswersFindTheirChannel
<1>1. CrowdInv => AnswersFindTheirChannel
  <2> SUFFICES ASSUME CrowdInv, ~crowded, NEW o \in open PROVE Found(o.id) = {o.chan}
    BY DEF AnswersFindTheirChannel
  <2>1. crowded = FALSE
    BY DEF CrowdInv, TypeOK
  <2> QED BY <2>1, AnswerFindsRequester DEF CrowdInv
<1> QED BY <1>1, CrowdInvariant, PTL

(* Under the same condition no substream's channel is left behind in the      *)
(* table: not by a failed write, not by an error, not by another channel's    *)
(* end.                                                                       *)
THEOREM SubstreamChannelsAreFreed ==
    ASSUME WireIds >= 2
    PROVE  Spec => []SubstreamNeverLeaks
<1>1. CrowdInv => SubstreamNeverLeaks
  <2> SUFFICES ASSUME CrowdInv, ~crowded PROVE SubstreamNeverLeaks
    BY DEF SubstreamNeverLeaks
  <2>1. crowded = FALSE
    BY DEF CrowdInv, TypeOK
  <2> QED BY <2>1 DEF CrowdInv, AnswerInv, SubstreamNeverLeaks
<1> QED BY <1>1, CrowdInvariant, PTL
=============================================================================
