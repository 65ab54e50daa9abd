---------------------------- MODULE PlaybackProofs ----------------------------
(***************************************************************************)
(* Proofs about playback (Playback).                                       *)
(*                                                                         *)
(* TotbytesIsExact holds for every mix of calls, of the PCM thread and of  *)
(* the network thread.  The other theorems are about one call of           *)
(* despotify_play (OneCall), racing with both threads and with everything  *)
(* that can fail: OneSubstreamAtATime, NeverOverruns, and, for tracks that *)
(* are no shorter than a substream, PlayingNeverCrashes and                *)
(* StreamIsProper.                                                         *)
(***************************************************************************)
EXTENDS Playback, FiniteSetTheorems, SequenceTheorems, TLAPS

-----------------------------------------------------------------------------
(* What fits beside a count fits beside a smaller one.                      *)
LEMMA LessStillFits ==
    ASSUME NEW a \in Nat, NEW b \in Nat, NEW h \in Nat, NEW m \in Nat, a <= b, b + h <= m
    PROVE  a + h <= m
OBVIOUS

(* Least elements: NextPlayable, FirstStart and LeadingStarts are searches. *)

(* A search that finds something finds a first one.                         *)
LEMMA LeastNat ==
    ASSUME NEW T \in SUBSET Nat, T # {}
    PROVE  \E m \in T : \A k \in T : m <= k
<1> DEFINE R == {ss \in Nat \X Nat : ss[1] < ss[2]}
<1>1. IsWellFoundedOn(R, Nat)
  BY NatLessThanWellFounded DEF OpToRel
<1>2. \A a, b \in Nat : <<a, b>> \in R <=> a < b
  OBVIOUS
<1> HIDE DEF R
<1>3. PICK m \in T : \A k \in T : ~(<<k, m>> \in R)
  BY <1>1, WFMin
<1>4. \A k \in T : m <= k
  <2> TAKE k \in T
  <2>1. k \in Nat /\ m \in Nat
    OBVIOUS
  <2>2. ~(k < m)
    BY <1>2, <1>3, <2>1
  <2> QED
    BY <2>1, <2>2
<1> QED
  BY <1>4

(* The next playable track is a later one, or there is none.                *)
(* (despotify_next, despotify_substream_callback.)                          *)
LEMMA NextPlayableType ==
    ASSUME NEW t \in 0 .. Tracks
    PROVE  NextPlayable(t) \in Playable \union {NULL} /\ NextPlayable(t) \in 0 .. Tracks
<1> DEFINE after == {n \in Playable : n > t}
<1>1. after \in SUBSET Nat /\ after \subseteq Playable /\ Playable \subseteq 0 .. Tracks
  <2>1. Playable \subseteq 1 .. Tracks /\ Tracks \in Nat
    BY TracksAssumption DEF Track
  <2>2. \A n \in Playable : n \in Nat /\ n \in 0 .. Tracks
    BY <2>1
  <2>3. \A n \in after : n \in Playable
    OBVIOUS
  <2> HIDE DEF after
  <2> QED
    BY <2>2, <2>3, Zenon
<1>2. CASE after = {}
  BY <1>2, TracksAssumption DEF NextPlayable, NULL
<1>3. CASE after # {}
  <2> HIDE DEF after
  <2>1. \E m \in after : \A k \in after : m <= k
    BY <1>1, <1>3, LeastNat
  <2>2. (CHOOSE n \in after : \A m \in after : n <= m) \in after
    BY <2>1
  <2>3. NextPlayable(t) = CHOOSE n \in after : \A m \in after : n <= m
    BY <1>3 DEF NextPlayable, after
  <2> QED
    BY <1>1, <2>2, <2>3
<1> QED
  BY <1>2, <1>3

(* snd_next stops at the first START.                                       *)
LEMMA FirstStartType ==
    ASSUME fifo \in Seq(Buffer), Starts # {}
    PROVE  FirstStart \in 1 .. Len(fifo) /\ fifo[FirstStart].cmd = "START"
<1>1. Starts \in SUBSET Nat
  BY DEF Starts
<1>2. \E m \in Starts : \A k \in Starts : m <= k
  BY <1>1, LeastNat
<1>3. FirstStart \in Starts
  BY <1>2 DEF FirstStart
<1> QED
  BY <1>3 DEF Starts

(* snd_consume_data passes over the STARTs in front.                        *)
LEMMA LeadingStartsType ==
    ASSUME fifo \in Seq(Buffer)
    PROVE  LET k == LeadingStarts
           IN  /\ k \in 0 .. Len(fifo)
               /\ \A i \in 1 .. k : fifo[i].cmd = "START"
               /\ k < Len(fifo) => fifo[k + 1].cmd # "START"
<1> DEFINE n == Len(fifo)
           T == {i \in 1 .. n : fifo[i].cmd # "START"}
<1>1. n \in Nat /\ T \in SUBSET Nat
  OBVIOUS
<1>2. \E k \in 0 .. n : /\ \A i \in 1 .. k : fifo[i].cmd = "START"
                        /\ k < n => fifo[k + 1].cmd # "START"
  <2>1. CASE T = {}
    BY <1>1, <2>1
  <2>2. CASE T # {}
    <3>1. PICK m \in T : \A k \in T : m <= k
      BY <1>1, <2>2, LeastNat
    <3>2. m - 1 \in 0 .. n /\ fifo[(m - 1) + 1].cmd # "START"
      BY <1>1, <3>1
    <3>3. \A i \in 1 .. m - 1 : fifo[i].cmd = "START"
      BY <1>1, <3>1
    <3> QED
      BY <3>2, <3>3
  <2> QED
    BY <2>1, <2>2
<1> QED
  BY <1>2 DEF LeadingStarts

-----------------------------------------------------------------------------
(* The amount of data in a queue *)

DataIn(q) == {i \in 1 .. Len(q) : q[i].cmd = "DATA"}

(* Bytes counts a finite set.                                               *)
LEMMA BytesType ==
    ASSUME NEW q \in Seq(Buffer)
    PROVE  IsFiniteSet(DataIn(q)) /\ Bytes(q) = Cardinality(DataIn(q)) /\ Bytes(q) \in Nat
<1>1. IsFiniteSet(1 .. Len(q))
  BY FS_Interval
<1>2. IsFiniteSet(DataIn(q))
  BY <1>1, FS_Subset DEF DataIn
<1>3. Bytes(q) = Cardinality(DataIn(q))
  BY DEF Bytes, DataIn
<1> QED
  BY <1>2, <1>3, FS_CardinalityType

(* There is nothing in an empty FIFO.  (snd_reset.)                         *)
LEMMA BytesEmpty == Bytes(<<>>) = 0
<1>1. {i \in 1 .. Len(<<>>) : <<>>[i].cmd = "DATA"} = {}
  OBVIOUS
<1> QED
  BY <1>1, FS_EmptySet DEF Bytes

(* One more buffer at the end.  (snd_ioctl.)                                *)
LEMMA BytesAppend ==
    ASSUME NEW q \in Seq(Buffer), NEW b \in Buffer
    PROVE  Bytes(Append(q, b)) = Bytes(q) + (IF b.cmd = "DATA" THEN 1 ELSE 0)
<1> DEFINE n == Len(q)
           p == Append(q, b)
<1>1. n \in Nat /\ n + 1 \notin DataIn(q)
  BY DEF DataIn
<1>2. p \in Seq(Buffer) /\ Len(p) = n + 1 /\ p[n + 1] = b /\ \A i \in 1 .. n : p[i] = q[i]
  OBVIOUS
<1> HIDE DEF p
<1>3. DataIn(p) = IF b.cmd = "DATA" THEN DataIn(q) \union {n + 1} ELSE DataIn(q)
  BY <1>1, <1>2 DEF DataIn
<1>4. Cardinality(DataIn(q) \union {n + 1}) = Cardinality(DataIn(q)) + 1
  BY <1>1, BytesType, FS_AddElement
<1>5. Bytes(p) = Cardinality(DataIn(p)) /\ Bytes(q) = Cardinality(DataIn(q)) /\ Bytes(q) \in Nat
  BY <1>2, BytesType
<1> QED
  BY <1>3, <1>4, <1>5 DEF p

(* What is left of a queue when its first m buffers are gone.               *)
LEMMA BytesRest ==
    ASSUME NEW q \in Seq(Buffer), NEW m \in 0 .. Len(q)
    PROVE  LET p == SubSeq(q, m + 1, Len(q))
           IN  /\ p \in Seq(Buffer) /\ Len(p) = Len(q) - m
               /\ \A i \in 1 .. Len(q) - m : p[i] = q[m + i]
               /\ Bytes(p) = Cardinality({i \in m + 1 .. Len(q) : q[i].cmd = "DATA"})
<1> DEFINE n == Len(q)
           p == SubSeq(q, m + 1, n)
           A == {i \in m + 1 .. n : q[i].cmd = "DATA"}
           f == [i \in DataIn(p) |-> m + i]
<1>1. n \in Nat /\ m \in Nat /\ m <= n
  OBVIOUS
<1>2. p \in Seq(Buffer) /\ Len(p) = n - m /\ \A i \in 1 .. n - m : p[i] = q[m + i]
  BY <1>1, SubSeqProperties
<1> HIDE DEF p
<1>3. \A i \in DataIn(p) : i \in 1 .. n - m /\ m + i \in A
  BY <1>1, <1>2 DEF DataIn
<1>4. \A j \in A : j - m \in DataIn(p) /\ m + (j - m) = j
  BY <1>1, <1>2 DEF DataIn
<1>5. f \in [DataIn(p) -> A] /\ \A i \in DataIn(p) : f[i] = m + i
  BY <1>3
<1>6. \A i, j \in DataIn(p) : m + i = m + j => i = j
  BY <1>1, <1>3
<1> HIDE DEF A, f
<1>7. f \in Injection(DataIn(p), A)
  BY <1>5, <1>6 DEF Injection, IsInjective
<1>8. \A j \in A : \E i \in DataIn(p) : f[i] = j
  BY <1>4, <1>5
<1>9. f \in Bijection(DataIn(p), A)
  BY <1>5, <1>7, <1>8 DEF Bijection, Surjection
<1>10. ExistsBijection(DataIn(p), A)
  BY <1>9 DEF ExistsBijection
<1>11. Bytes(p) = Cardinality(A)
  BY <1>2, <1>10, BytesType, FS_Bijection
<1> QED
  BY <1>2, <1>11 DEF p, A

(* snd_consume_data takes one buffer from behind k STARTs.                  *)
LEMMA BytesConsumed ==
    ASSUME NEW q \in Seq(Buffer), NEW k \in 0 .. Len(q),
           \A i \in 1 .. k : q[i].cmd = "START"
    PROVE  LET r == SubSeq(q, k + 1, Len(q))
           IN  /\ r \in Seq(Buffer)
               /\ r = <<>> => Bytes(q) = 0
               /\ r # <<>> => /\ Head(r) = q[k + 1] /\ Head(r) \in Buffer
                              /\ Tail(r) \in Seq(Buffer)
                              /\ Bytes(q) = Bytes(Tail(r)) + (IF Head(r).cmd = "DATA" THEN 1 ELSE 0)
<1> DEFINE n == Len(q)
           r == SubSeq(q, k + 1, n)
           A == {i \in k + 1 .. n : q[i].cmd = "DATA"}
           B == {i \in k + 2 .. n : q[i].cmd = "DATA"}
<1>1. n \in Nat /\ k \in Nat /\ k <= n
  OBVIOUS
<1>2. r \in Seq(Buffer) /\ Len(r) = n - k /\ \A i \in 1 .. n - k : r[i] = q[k + i]
  BY BytesRest
<1>3. DataIn(q) = A
  BY <1>1 DEF DataIn
<1>4. Bytes(q) = Cardinality(A)
  BY <1>3, BytesType
<1> HIDE DEF r
<1>5. CASE r = <<>>
  <2>1. k = n
    BY <1>1, <1>2, <1>5
  <2>2. A = {}
    BY <1>1, <2>1
  <2>3. Bytes(q) = 0
    BY <1>4, <2>2, FS_EmptySet
  <2> QED
    BY <1>2, <1>5, <2>3 DEF r
<1>6. CASE r # <<>>
  <2>1. /\ Head(r) \in Buffer /\ Tail(r) \in Seq(Buffer) /\ Len(Tail(r)) = Len(r) - 1
        /\ \A i \in 1 .. Len(Tail(r)) : Tail(r)[i] = r[i + 1]
    BY <1>2, <1>6, HeadTailProperties
  <2>2. k + 1 <= n
    BY <1>1, <1>2, <1>6, EmptySeq
  <2>3. Head(r) = q[k + 1]
    BY <1>1, <1>2, <1>6, <2>2
  <2>4. k + 1 \in 0 .. n
    BY <1>1, <2>2
  <2> DEFINE t == SubSeq(q, (k + 1) + 1, n)
  <2>5. /\ t \in Seq(Buffer) /\ Len(t) = n - (k + 1)
        /\ \A i \in 1 .. n - (k + 1) : t[i] = q[(k + 1) + i]
        /\ Bytes(t) = Cardinality({i \in (k + 1) + 1 .. n : q[i].cmd = "DATA"})
    BY <2>4, BytesRest
  <2> HIDE DEF t
  <2>6. Len(Tail(r)) = Len(t) /\ \A i \in 1 .. Len(t) : Tail(r)[i] = t[i]
    <3>1. Len(Tail(r)) = n - (k + 1)
      BY <1>1, <1>2, <2>1
    <3>2. ASSUME NEW i \in 1 .. n - (k + 1) PROVE Tail(r)[i] = t[i]
      <4>1. i + 1 \in 1 .. n - k /\ (k + 1) + i = k + (i + 1)
        BY <1>1
      <4> QED
        BY <1>2, <2>1, <2>5, <3>1, <4>1
    <3> QED
      BY <2>5, <3>1, <3>2
  <2>7. Tail(r) = t
    BY <2>1, <2>5, <2>6, SeqEqual
  <2>8. Bytes(Tail(r)) = Cardinality(B)
    <3>1. (k + 1) + 1 = k + 2
      BY <1>1
    <3> QED
      BY <2>5, <2>7, <3>1
  <2>9. IsFiniteSet(B) /\ Cardinality(B) \in Nat /\ k + 1 \notin B
    <3>1. B \subseteq DataIn(q)
      BY <1>1 DEF DataIn
    <3>2. IsFiniteSet(B)
      BY <3>1, BytesType, FS_Subset
    <3> QED
      BY <1>1, <3>2, FS_CardinalityType
  <2>10. A = IF q[k + 1].cmd = "DATA" THEN B \union {k + 1} ELSE B
    BY <1>1, <2>2
  <2> HIDE DEF A, B
  <2>11. Cardinality(B \union {k + 1}) = Cardinality(B) + 1
    BY <2>9, FS_AddElement
  <2>12. Bytes(q) = Bytes(Tail(r)) + (IF Head(r).cmd = "DATA" THEN 1 ELSE 0)
    BY <1>4, <2>3, <2>8, <2>9, <2>10, <2>11
  <2> QED
    BY <1>2, <1>6, <2>1, <2>3, <2>12 DEF r
<1> QED
  BY <1>5, <1>6

-----------------------------------------------------------------------------
(* The inductive invariant of TotbytesExact, in groups *)

FifoInv == fifo \in Seq(Buffer) /\ totbytes = Bytes(fifo)

FlagType ==
    /\ ready \in BOOLEAN /\ dlabort \in BOOLEAN /\ play_as_list \in BOOLEAN
    /\ refill \in BOOLEAN /\ woken \in BOOLEAN

LabelType ==
    /\ lastcmd \in {"START", "DATA", "END"}
    /\ dlstate \in {"FILLING", "FILLING_BUSY", "DRAINING", "END_OF_LIST"}
    /\ codec \in {"none", "open"}
    /\ api \in {"idle", "stop", "spin", "drain", "reset", "offset", "notify", "track", "key",
                "snd_next", "advance"}
    /\ pcm \in {"idle", "fill", "abort_wait", "switch", "busy", "send", "codec", "sniff",
                "decode", "wait", "eof", "stop", "spin", "drain", "reset", "end_of_playlist"}
    /\ net \in {"idle", "append", "append_end", "advance", "end_of_track", "zero_offset",
                "next_key", "channel_end"}
    /\ callbacks \subseteq {"END_OF_PLAYLIST", "TRACK_PLAY_ERROR"}

CrashType ==
    crashed \in {"", "despotify_next", "despotify_snd_read_stream", "cmd_getsubstreams",
                 "despotify_aes_callback", "exit", "snd_ioctl", "despotify_substream_callback"}

CountType ==
    /\ track \in 0 .. Tracks /\ offset \in Nat
    /\ errorcount \in Nat /\ commands \in 0 .. MaxCommands

(* outside a call its record may hold no track (ApiAdvance at the end) *)
CallInv == call \in Call /\ (api # "idle" => call.trk \in Track)

QueueType ==
    /\ requests \in Seq(Request) /\ pending \in Buffer
    /\ aes \in [trk : 0 .. Tracks, pos : Nat]

HeardType == heard \in [trk : 0 .. Tracks, pos : Nat]

IInv == FifoInv /\ FlagType /\ LabelType /\ CrashType /\ CountType /\ CallInv /\ QueueType /\ HeardType

(* The FIFO changes in snd_stop, snd_next, snd_consume_data and snd_ioctl only. *)
LEMMA FifoQuiet ==
    ASSUME [Next]_vars, ~ApiStopReset, ~PcmStopReset, ~ApiSndNext, ~PcmConsume, ~NetAppend
    PROVE  UNCHANGED <<fifo, totbytes>>
<1>1. CASE ApiCall
  BY <1>1 DEF ApiCall
<1>2. CASE ApiStep
  BY <1>2 DEF ApiStep, ApiStopAbort, ApiStopSpin, ApiStopDrain, ApiOffset, ApiNotify, ApiTrack,
              ApiKey, ApiAdvance, fifoVars
<1>3. CASE PcmStep
  BY <1>3 DEF PcmStep, PcmEnter, PcmFill, PcmAbortWait, PcmSwitch, PcmBusy, PcmSend, PcmCodec,
              PcmSniff, PcmWake, PcmEof, PcmStopAbort, PcmStopSpin, PcmStopDrain,
              PcmEndOfPlaylist, fifoVars
<1>4. CASE NetStep
  BY <1>4 DEF NetStep, NetKey, NetKeyError, NetData, NetError, NetEnd, NetAdvance, NetEndOfTrack,
              NetZeroOffset, NetNextKey, NetChannelEnd, fifoVars
<1>5. CASE UNCHANGED vars
  BY <1>5 DEF vars, fifoVars
<1> QED
  BY <1>1, <1>2, <1>3, <1>4, <1>5 DEF Next

(* totbytes follows the FIFO.                                               *)
LEMMA FifoStep ==
    ASSUME FifoInv, QueueType, [Next]_vars
    PROVE  FifoInv'
<1> USE DEF FifoInv
<1>1. Bytes(fifo) \in Nat
  BY BytesType
<1>2. CASE StopReset
  <2>1. fifo' = <<>> /\ totbytes' = 0
    BY <1>2 DEF StopReset
  <2>2. <<>> \in Seq(Buffer)
    OBVIOUS
  <2> QED
    BY <2>1, <2>2, BytesEmpty
<1>3. CASE ApiSndNext
  <2>1. totbytes' = totbytes - (Bytes(fifo) - Bytes(fifo'))
    BY <1>3 DEF ApiSndNext
  <2>2. fifo' \in Seq(Buffer)
    <3>1. CASE Starts = {}
      <4>1. fifo' = <<>>
        BY <1>3, <3>1 DEF ApiSndNext
      <4>2. <<>> \in Seq(Buffer)
        OBVIOUS
      <4> QED
        BY <4>1, <4>2
    <3>2. CASE Starts # {}
      <4>1. fifo' = SubSeq(fifo, FirstStart, Len(fifo))
        BY <1>3, <3>2 DEF ApiSndNext
      <4>2. FirstStart \in 1 .. Len(fifo) /\ Len(fifo) \in Nat
        BY <3>2, FirstStartType
      <4>3. FirstStart - 1 \in 0 .. Len(fifo) /\ FirstStart = (FirstStart - 1) + 1
        BY <4>2
      <4> QED
        BY <4>1, <4>3, BytesRest
    <3> QED
      BY <3>1, <3>2
  <2>3. Bytes(fifo') \in Nat
    BY <2>2, BytesType
  <2>4. totbytes' = Bytes(fifo')
    BY <1>1, <2>1, <2>3
  <2>5. Bytes(fifo)' = Bytes(fifo')
    BY DEF Bytes
  <2> QED
    BY <2>2, <2>4
<1>4. CASE PcmConsume
  <2> DEFINE k == LeadingStarts
             r == SubSeq(fifo, k + 1, Len(fifo))
  <2>1. k \in 0 .. Len(fifo) /\ \A i \in 1 .. k : fifo[i].cmd = "START"
    BY LeadingStartsType
  <2>2. \/ r = <<>> /\ fifo' = <<>> /\ UNCHANGED totbytes
        \/ r # <<>> /\ Head(r).cmd = "DATA" /\ fifo' = Tail(r) /\ totbytes' = totbytes - 1
        \/ r # <<>> /\ Head(r).cmd = "END" /\ fifo' = Tail(r) /\ UNCHANGED totbytes
    BY <1>4 DEF PcmConsume
  <2> HIDE DEF k
  <2>3. /\ r = <<>> => Bytes(fifo) = 0
        /\ r # <<>> => /\ Tail(r) \in Seq(Buffer)
                       /\ Bytes(fifo) = Bytes(Tail(r)) + (IF Head(r).cmd = "DATA" THEN 1 ELSE 0)
    BY <2>1, BytesConsumed
  <2> HIDE DEF r
  <2>4. r # <<>> => Bytes(Tail(r)) \in Nat
    BY <2>3, BytesType
  <2>5. <<>> \in Seq(Buffer)
    OBVIOUS
  <2>6. fifo' \in Seq(Buffer) /\ totbytes' = Bytes(fifo')
    <3>1. CASE r = <<>> /\ fifo' = <<>> /\ UNCHANGED totbytes
      BY <2>3, <2>5, <3>1, BytesEmpty
    <3>2. CASE r # <<>> /\ Head(r).cmd = "DATA" /\ fifo' = Tail(r) /\ totbytes' = totbytes - 1
      <4>1. Bytes(fifo) = Bytes(Tail(r)) + 1
        BY <2>3, <3>2
      <4> QED
        BY <2>3, <2>4, <3>2, <4>1
    <3>3. CASE r # <<>> /\ Head(r).cmd = "END" /\ fifo' = Tail(r) /\ UNCHANGED totbytes
      <4>1. Bytes(fifo) = Bytes(Tail(r)) + 0
        BY <2>3, <3>3
      <4> QED
        BY <2>3, <2>4, <3>3, <4>1
    <3> QED
      BY <2>2, <3>1, <3>2, <3>3
  <2>7. Bytes(fifo)' = Bytes(fifo')
    BY DEF Bytes
  <2> QED
    BY <2>6, <2>7
<1>5. CASE NetAppend
  <2>1. \/ UNCHANGED <<fifo, totbytes>>
        \/ /\ fifo' = Append(fifo, pending)
           /\ totbytes' = totbytes + (IF pending.cmd = "DATA" THEN 1 ELSE 0)
    BY <1>5 DEF NetAppend
  <2>2. pending \in Buffer
    BY DEF QueueType
  <2>3. Append(fifo, pending) \in Seq(Buffer)
    BY <2>2
  <2>4. fifo' \in Seq(Buffer) /\ totbytes' = Bytes(fifo')
    BY <2>1, <2>2, <2>3, BytesAppend
  <2>5. Bytes(fifo)' = Bytes(fifo')
    BY DEF Bytes
  <2> QED
    BY <2>4, <2>5
<1>6. CASE UNCHANGED <<fifo, totbytes>>
  BY <1>6 DEF Bytes
<1> QED
  BY <1>2, <1>3, <1>4, <1>5, <1>6, FifoQuiet DEF ApiStopReset, PcmStopReset

(* Flags stay Booleans.                                                     *)
LEMMA FlagStep ==
    ASSUME FlagType, CallInv, [Next]_vars
    PROVE  FlagType'
<1> USE DEF FlagType
<1>0. call.list \in BOOLEAN
  BY DEF CallInv, Call
<1>1. CASE ApiCall
  BY <1>1, Zenon DEF ApiCall, ApiElse, trackVars, pcmVars
<1>2. CASE ApiStep
  <2>1. dlabort' \in BOOLEAN
    BY <1>2, Zenon DEF ApiStep, ApiStopAbort, ApiStopSpin, ApiStopDrain, ApiStopReset, ApiOffset,
                ApiNotify, ApiTrack, ApiKey, ApiSndNext, ApiAdvance, StopAbort, StopReset, dlVars
  <2>2. play_as_list' \in BOOLEAN /\ ready' \in BOOLEAN
    BY <1>0, <1>2, Zenon DEF ApiStep, ApiStopAbort, ApiStopSpin, ApiStopDrain, ApiStopReset,
                ApiOffset, ApiNotify, ApiTrack, ApiKey, ApiSndNext, ApiAdvance, StopAbort, StopReset,
                fifoVars, trackVars
  <2>3. refill' \in BOOLEAN /\ woken' \in BOOLEAN
    BY <1>2, Zenon DEF ApiStep, ApiStopAbort, ApiStopSpin, ApiStopDrain, ApiStopReset,
                ApiOffset, ApiNotify, ApiTrack, ApiKey, ApiSndNext, ApiAdvance, ApiElse, pcmVars
  <2> QED
    BY <2>1, <2>2, <2>3, Zenon
<1>3. CASE PcmStep
  <2>1. dlabort' \in BOOLEAN /\ ready' \in BOOLEAN /\ play_as_list' \in BOOLEAN
    BY <1>3, ZenonT(30) DEF PcmStep, PcmEnter, PcmFill, PcmAbortWait, PcmSwitch, PcmBusy, PcmSend,
                PcmCodec, PcmSniff, PcmConsume, PcmWake, PcmEof, PcmStopAbort, PcmStopSpin,
                PcmStopDrain, PcmStopReset, PcmEndOfPlaylist, StopAbort, StopReset,
                fifoVars, dlVars, trackVars
  <2>2. refill' \in BOOLEAN
    BY <1>3, ZenonT(30) DEF PcmStep, PcmEnter, PcmFill, PcmAbortWait, PcmSwitch, PcmBusy, PcmSend,
                PcmCodec, PcmSniff, PcmConsume, PcmWake, PcmEof, PcmStopAbort, PcmStopSpin,
                PcmStopDrain, PcmStopReset, PcmEndOfPlaylist
  <2>3. woken' \in BOOLEAN
    BY <1>3, ZenonT(30) DEF PcmStep, PcmEnter, PcmFill, PcmAbortWait, PcmSwitch, PcmBusy, PcmSend,
                PcmCodec, PcmSniff, PcmConsume, PcmWake, PcmEof, PcmStopAbort, PcmStopSpin,
                PcmStopDrain, PcmStopReset, PcmEndOfPlaylist
  <2> QED
    BY <2>1, <2>2, <2>3, Zenon
<1>4. CASE NetStep
  <2>1. UNCHANGED <<dlabort, play_as_list, ready>>
    BY <1>4 DEF NetStep, NetKey, NetKeyError, NetData, NetError, NetAppend, NetEnd,
                NetAdvance, NetEndOfTrack, NetZeroOffset, NetNextKey, NetChannelEnd,
                fifoVars, dlVars, trackVars
  <2>2. UNCHANGED refill
    BY <1>4, Zenon DEF NetStep, NetKey, NetKeyError, NetData, NetError, NetAppend, NetEnd,
                NetAdvance, NetEndOfTrack, NetZeroOffset, NetNextKey, NetChannelEnd, NetElse
  <2>3. woken' \in BOOLEAN
    BY <1>4, Zenon DEF NetStep, NetKey, NetKeyError, NetData, NetError, NetAppend, NetEnd,
                NetAdvance, NetEndOfTrack, NetZeroOffset, NetNextKey, NetChannelEnd
  <2> QED
    BY <2>1, <2>2, <2>3, Zenon
<1>5. CASE UNCHANGED vars
  BY <1>5, Zenon DEF vars, fifoVars, dlVars, trackVars
<1> QED
  BY <1>1, <1>2, <1>3, <1>4, <1>5 DEF Next

(* Labels stay labels.                                                      *)
LEMMA LabelStep ==
    ASSUME LabelType, QueueType, CallInv, [Next]_vars
    PROVE  LabelType'
<1> USE DEF LabelType
<1>0. pending.cmd \in {"START", "DATA", "END"} /\ call.cmd \in {"play", "next", "stop"}
  BY DEF QueueType, Buffer, CallInv, Call
<1>1. CASE ApiCall
  BY <1>1 DEF ApiCall, ApiElse, netVars, pcmVars
<1>2. CASE ApiStep
  <2>1. (lastcmd' = lastcmd) /\ dlstate' \in {dlstate, "DRAINING"} /\ codec' \in {codec, "none"}
    BY <1>2 DEF ApiStep, ApiStopAbort, ApiStopSpin, ApiStopDrain, ApiStopReset, ApiOffset,
                ApiNotify, ApiTrack, ApiKey, ApiSndNext, ApiAdvance, StopReset, fifoVars, dlVars
  <2>2. api' \in {"idle", "stop", "spin", "drain", "reset", "offset", "notify", "track", "key",
                  "snd_next", "advance"}
    BY <1>0, <1>2 DEF ApiStep, ApiStopAbort, ApiStopSpin, ApiStopDrain, ApiStopReset, ApiOffset,
                ApiNotify, ApiTrack, ApiKey, ApiSndNext, ApiAdvance
  <2>3. UNCHANGED <<pcm, net>>
    BY <1>2 DEF ApiStep, ApiStopAbort, ApiStopSpin, ApiStopDrain, ApiStopReset, ApiOffset,
                ApiNotify, ApiTrack, ApiKey, ApiSndNext, ApiAdvance, ApiElse, netVars, pcmVars
  <2>4. UNCHANGED callbacks
    BY <1>2 DEF ApiStep, ApiStopAbort, ApiStopSpin, ApiStopDrain, ApiStopReset, ApiOffset,
                ApiNotify, ApiTrack, ApiKey, ApiSndNext, ApiAdvance
  <2> QED
    BY <2>1, <2>2, <2>3, <2>4
<1>3. CASE PcmStep
  <2>1. /\ lastcmd' = lastcmd
        /\ dlstate' \in {dlstate, "DRAINING", "FILLING_BUSY"}
        /\ codec' \in {codec, "none", "open"}
    BY <1>3 DEF PcmStep, PcmEnter, PcmFill, PcmAbortWait, PcmSwitch, PcmBusy, PcmSend,
                PcmCodec, PcmSniff, PcmConsume, PcmWake, PcmEof, PcmStopAbort, PcmStopSpin,
                PcmStopDrain, PcmStopReset, PcmEndOfPlaylist, StopReset,
                fifoVars, dlVars
  <2>2. pcm' \in {"idle", "fill", "abort_wait", "switch", "busy", "send", "codec", "sniff",
                  "decode", "wait", "eof", "stop", "spin", "drain", "reset", "end_of_playlist"}
    BY <1>3 DEF PcmStep, PcmEnter, PcmFill, PcmAbortWait, PcmSwitch, PcmBusy, PcmSend,
                PcmCodec, PcmSniff, PcmConsume, PcmWake, PcmEof, PcmStopAbort, PcmStopSpin,
                PcmStopDrain, PcmStopReset, PcmEndOfPlaylist, AfterFill
  <2>3. UNCHANGED <<api, net>>
    BY <1>3 DEF PcmStep, PcmEnter, PcmFill, PcmAbortWait, PcmSwitch, PcmBusy, PcmSend,
                PcmCodec, PcmSniff, PcmConsume, PcmWake, PcmEof, PcmStopAbort, PcmStopSpin,
                PcmStopDrain, PcmStopReset, PcmEndOfPlaylist, PcmElse, netVars,
                apiVars
  <2>4. callbacks' \subseteq {"END_OF_PLAYLIST", "TRACK_PLAY_ERROR"}
    BY <1>3 DEF PcmStep, PcmEnter, PcmFill, PcmAbortWait, PcmSwitch, PcmBusy, PcmSend,
                PcmCodec, PcmSniff, PcmConsume, PcmWake, PcmEof, PcmStopAbort, PcmStopSpin,
                PcmStopDrain, PcmStopReset, PcmEndOfPlaylist
  <2> QED
    BY <2>1, <2>2, <2>3, <2>4
<1>4. CASE NetStep
  <2>1. /\ lastcmd' \in {lastcmd, pending.cmd}
        /\ dlstate' \in {dlstate, "DRAINING", "FILLING", "END_OF_LIST"}
        /\ UNCHANGED codec
    BY <1>4 DEF NetStep, NetKey, NetKeyError, NetData, NetError, NetAppend, NetEnd,
                NetAdvance, NetEndOfTrack, NetZeroOffset, NetNextKey, NetChannelEnd,
                fifoVars, dlVars
  <2>2. net' \in {"idle", "append", "append_end", "advance", "end_of_track", "zero_offset",
                  "next_key", "channel_end"}
    BY <1>4 DEF NetStep, NetKey, NetKeyError, NetData, NetError, NetAppend, NetEnd,
                NetAdvance, NetEndOfTrack, NetZeroOffset, NetNextKey, NetChannelEnd, Offer,
                netVars
  <2>3. UNCHANGED <<api, pcm>>
    BY <1>4 DEF NetStep, NetKey, NetKeyError, NetData, NetError, NetAppend, NetEnd,
                NetAdvance, NetEndOfTrack, NetZeroOffset, NetNextKey, NetChannelEnd, NetElse,
                apiVars
  <2>4. UNCHANGED callbacks
    BY <1>4 DEF NetStep, NetKey, NetKeyError, NetData, NetError, NetAppend, NetEnd,
                NetAdvance, NetEndOfTrack, NetZeroOffset, NetNextKey, NetChannelEnd
  <2> QED
    BY <1>0, <2>1, <2>2, <2>3, <2>4
<1>5. CASE UNCHANGED vars
  BY <1>5 DEF vars, fifoVars, dlVars
<1> QED
  BY <1>1, <1>2, <1>3, <1>4, <1>5 DEF Next

(* A process is running, or it is known what brought it down.               *)
LEMMA CrashStep ==
    ASSUME CrashType, [Next]_vars
    PROVE  CrashType'
<1> SUFFICES
        crashed' \in {crashed, "despotify_next", "despotify_snd_read_stream", "cmd_getsubstreams",
                      "despotify_aes_callback", "exit", "snd_ioctl", "despotify_substream_callback"}
  BY Zenon DEF CrashType
<1>1. CASE ApiCall
  BY <1>1 DEF ApiCall
<1>2. CASE ApiStep
  BY <1>2 DEF ApiStep, ApiStopAbort, ApiStopSpin, ApiStopDrain, ApiStopReset, ApiOffset,
              ApiNotify, ApiTrack, ApiKey, ApiSndNext, ApiAdvance
<1>3. CASE PcmStep
  BY <1>3 DEF PcmStep, PcmEnter, PcmFill, PcmAbortWait, PcmSwitch, PcmBusy, PcmSend,
              PcmCodec, PcmSniff, PcmConsume, PcmWake, PcmEof, PcmStopAbort, PcmStopSpin,
              PcmStopDrain, PcmStopReset, PcmEndOfPlaylist
<1>4. CASE NetStep
  BY <1>4 DEF NetStep, NetKey, NetKeyError, NetData, NetError, NetAppend, NetEnd,
              NetAdvance, NetEndOfTrack, NetZeroOffset, NetNextKey, NetChannelEnd
<1>5. CASE UNCHANGED vars
  BY <1>5 DEF vars
<1> QED
  BY <1>1, <1>2, <1>3, <1>4, <1>5 DEF Next

(* Track, offset and the counters.                                          *)
LEMMA CountStep ==
    ASSUME CountType, CallInv, QueueType, [Next]_vars
    PROVE  CountType'
<1> USE DEF CountType
<1>0. MaxCommands \in Nat /\ Tracks \in Nat /\ NULL \in 0 .. Tracks
  BY CallerAssumption, TracksAssumption DEF NULL
<1>1. CASE ApiCall
  BY <1>0, <1>1 DEF ApiCall, ApiElse, netVars, trackVars
<1>2. CASE ApiStep
  <2>0. call.trk \in 0 .. Tracks
    BY DEF CallInv, Call
  <2>1. track' \in 0 .. Tracks
    <3>1. track' \in {track, call.trk, NULL, NextPlayable(track)}
      BY <1>2 DEF ApiStep, ApiStopAbort, ApiStopSpin, ApiStopDrain, ApiStopReset, ApiOffset,
                ApiNotify, ApiTrack, ApiKey, ApiSndNext, ApiAdvance, trackVars
    <3> QED
      BY <1>0, <2>0, <3>1, NextPlayableType
  <2>2. offset' \in {offset, 0}
    BY <1>2 DEF ApiStep, ApiStopAbort, ApiStopSpin, ApiStopDrain, ApiStopReset, ApiOffset,
                ApiNotify, ApiTrack, ApiKey, ApiSndNext, ApiAdvance, trackVars
  <2>3. UNCHANGED <<errorcount, commands>>
    BY <1>2 DEF ApiStep, ApiStopAbort, ApiStopSpin, ApiStopDrain, ApiStopReset, ApiOffset,
                ApiNotify, ApiTrack, ApiKey, ApiSndNext, ApiAdvance, ApiElse, netVars
  <2> QED
    BY <2>1, <2>2, <2>3
<1>3. CASE PcmStep
  BY <1>3 DEF PcmStep, PcmEnter, PcmFill, PcmAbortWait, PcmSwitch, PcmBusy, PcmSend,
                PcmCodec, PcmSniff, PcmConsume, PcmWake, PcmEof, PcmStopAbort, PcmStopSpin,
                PcmStopDrain, PcmStopReset, PcmEndOfPlaylist, PcmElse,
              trackVars, apiVars, netVars
<1>4. CASE NetStep
  <2>1. track' \in {track, NextPlayable(track)}
    BY <1>4 DEF NetStep, NetKey, NetKeyError, NetData, NetError, NetAppend, NetEnd,
                NetAdvance, NetEndOfTrack, NetZeroOffset, NetNextKey, NetChannelEnd, trackVars
  <2>2. offset' \in Nat
    <3>1. CASE NetEnd
      <4>1. PICK i \in Answerable : offset' = offset + requests[i].got
        BY <3>1 DEF NetEnd
      <4>2. i \in 1 .. Len(requests)
        BY DEF Answerable
      <4>3. requests[i] \in Request
        BY <4>2 DEF QueueType
      <4>4. requests[i].got \in Nat
        BY <4>3 DEF Request
      <4> QED
        BY <4>1, <4>4
    <3>2. CASE ~NetEnd
      <4>1. offset' \in {offset, 0}
        BY <1>4, <3>2 DEF NetStep, NetKey, NetKeyError, NetData, NetError, NetAppend, NetEnd,
                NetAdvance, NetEndOfTrack, NetZeroOffset, NetNextKey, NetChannelEnd, trackVars
      <4> QED
        BY <4>1
    <3> QED
      BY <3>1, <3>2
  <2>3. errorcount' \in {errorcount, errorcount + 1, 0}
    BY <1>4 DEF NetStep, NetKey, NetKeyError, NetData, NetError, NetAppend, NetEnd,
                NetAdvance, NetEndOfTrack, NetZeroOffset, NetNextKey, NetChannelEnd, netVars
  <2>4. UNCHANGED commands
    BY <1>4 DEF NetStep, NetKey, NetKeyError, NetData, NetError, NetAppend, NetEnd,
                NetAdvance, NetEndOfTrack, NetZeroOffset, NetNextKey, NetChannelEnd, NetElse,
                apiVars
  <2> QED
    BY <2>1, <2>2, <2>3, <2>4, NextPlayableType
<1>5. CASE UNCHANGED vars
  BY <1>5 DEF vars, trackVars
<1> QED
  BY <1>1, <1>2, <1>3, <1>4, <1>5 DEF Next

(* A call is of a track as long as it lasts.                                *)
LEMMA CallStep ==
    ASSUME CallInv, CountType, FlagType, [Next]_vars
    PROVE  CallInv'
<1> USE DEF CallInv
<1>0. Playable \subseteq Track /\ Track \subseteq 0 .. Tracks /\ NULL \in 0 .. Tracks /\ NULL \notin Track
  BY TracksAssumption DEF NULL, Track
<1>1. CASE ApiCall
  <2>1. PICK cmd \in Commands, t \in Playable, list \in ListModes :
             call' = [cmd |-> cmd, trk |-> t, list |-> list]
    BY <1>1 DEF ApiCall
  <2>2. cmd \in {"play", "next", "stop"} /\ t \in Track /\ t \in 0 .. Tracks
    BY <1>0, CallerAssumption
  <2>3. list \in BOOLEAN
    BY CallerAssumption, Zenon
  <2>4. call' \in Call /\ call'.trk = t
    BY <2>1, <2>2, <2>3, Zenon DEF Call
  <2> QED
    BY <2>2, <2>4
<1>2. CASE ApiAdvance
  <2> DEFINE t == IF track = NULL THEN NULL ELSE NextPlayable(track)
  <2>1. /\ call' = [cmd |-> "play", trk |-> t, list |-> play_as_list]
        /\ api' = IF t = NULL THEN "idle" ELSE "stop"
    BY <1>2 DEF ApiAdvance
  <2>2. t \in 0 .. Tracks /\ (t # NULL => t \in Track)
    <3>1. NextPlayable(track) \in Playable \union {NULL}
      BY NextPlayableType DEF CountType
    <3> QED
      BY <1>0, <3>1
  <2> HIDE DEF t
  <2>3. play_as_list \in BOOLEAN
    BY DEF FlagType
  <2>4. call' \in Call /\ call'.trk = t
    BY <2>1, <2>2, <2>3, Zenon DEF Call
  <2> QED
    BY <2>1, <2>2, <2>4
<1>3. CASE UNCHANGED call /\ (api = "idle" => api' = "idle")
  BY <1>3
<1>4. CASE ApiStep /\ ~ApiAdvance
  BY <1>3, <1>4 DEF ApiStep, ApiStopAbort, ApiStopSpin, ApiStopDrain, ApiStopReset, ApiOffset,
                    ApiNotify, ApiTrack, ApiKey, ApiSndNext
<1>5. CASE PcmStep
  BY <1>3, <1>5 DEF PcmStep, PcmEnter, PcmFill, PcmAbortWait, PcmSwitch, PcmBusy, PcmSend,
                    PcmCodec, PcmSniff, PcmConsume, PcmWake, PcmEof, PcmStopAbort, PcmStopSpin,
                    PcmStopDrain, PcmStopReset, PcmEndOfPlaylist, PcmElse, apiVars
<1>6. CASE NetStep
  BY <1>3, <1>6 DEF NetStep, NetKey, NetKeyError, NetData, NetError, NetAppend, NetEnd,
                    NetAdvance, NetEndOfTrack, NetZeroOffset, NetNextKey, NetChannelEnd, NetElse,
                    apiVars
<1>7. CASE UNCHANGED vars
  BY <1>3, <1>7 DEF vars
<1> QED
  BY <1>1, <1>2, <1>4, <1>5, <1>6, <1>7 DEF Next

(* What the client has heard is a track, or nothing yet.                    *)
LEMMA HeardStep ==
    ASSUME HeardType, FifoInv, [Next]_vars
    PROVE  HeardType'
<1> USE DEF HeardType
<1>1. CASE PcmConsume
  <2> DEFINE k == LeadingStarts
             now == IF k = 0 THEN heard ELSE [trk |-> fifo[k].trk, pos |-> 0]
  <2>1. k \in 0 .. Len(fifo)
    BY LeadingStartsType DEF FifoInv
  <2>2. heard' = now \/ heard' = [now EXCEPT !.pos = @ + 1]
    BY <1>1 DEF PcmConsume
  <2>3. now \in [trk : 0 .. Tracks, pos : Nat]
    <3>1. CASE k = 0
      BY <3>1
    <3>2. CASE k # 0
      <4>1. fifo[k] \in Buffer
        BY <2>1, <3>2 DEF FifoInv
      <4>2. fifo[k].trk \in 0 .. Tracks
        BY <4>1 DEF Buffer
      <4> QED
        BY <3>2, <4>2
    <3> QED
      BY <3>1, <3>2
  <2> HIDE DEF now
  <2> QED
    BY <2>2, <2>3
<1>2. CASE UNCHANGED heard
  BY <1>2
<1>3. CASE ApiCall
  BY <1>2, <1>3 DEF ApiCall, ApiElse, pcmVars
<1>4. CASE ApiStep
  BY <1>2, <1>4 DEF ApiStep, ApiStopAbort, ApiStopSpin, ApiStopDrain, ApiStopReset, ApiOffset,
                    ApiNotify, ApiTrack, ApiKey, ApiSndNext, ApiAdvance, ApiElse, pcmVars
<1>5. CASE PcmStep /\ ~PcmConsume
  BY <1>2, <1>5 DEF PcmStep, PcmEnter, PcmFill, PcmAbortWait, PcmSwitch, PcmBusy, PcmSend,
                    PcmCodec, PcmSniff, PcmWake, PcmEof, PcmStopAbort, PcmStopSpin,
                    PcmStopDrain, PcmStopReset, PcmEndOfPlaylist
<1>6. CASE NetStep
  BY <1>2, <1>6 DEF NetStep, NetKey, NetKeyError, NetData, NetError, NetAppend, NetEnd,
                    NetAdvance, NetEndOfTrack, NetZeroOffset, NetNextKey, NetChannelEnd, NetElse
<1>7. CASE UNCHANGED vars
  BY <1>2, <1>7 DEF vars
<1> QED
  BY <1>1, <1>3, <1>4, <1>5, <1>6, <1>7 DEF Next

(* A request that is answered is taken out of the queue.                    *)
LEMMA RemoveType ==
    ASSUME NEW q \in Seq(Request), NEW i \in 1 .. Len(q)
    PROVE  Remove(q, i) \in Seq(Request)
<1> DEFINE n == Len(q)
           a == SubSeq(q, 1, i - 1)
           b == SubSeq(q, i + 1, n)
<1>1. n \in Nat /\ i \in Nat /\ 1 <= i /\ i <= n
  OBVIOUS
<1>2. a \in Seq(Request)
  BY <1>1, SubSeqProperties
<1>3. b \in Seq(Request)
  BY <1>1, SubSeqProperties
<1> HIDE DEF a, b
<1>4. a \o b \in Seq(Request)
  BY <1>2, <1>3, ConcatProperties
<1> QED
  BY <1>4 DEF Remove, a, b, n

(* Requests are typed, and so are the key and the buffer about to be queued. *)
LEMMA QueueStep ==
    ASSUME QueueType, CallInv, CountType, [Next]_vars
    PROVE  QueueType'
<1> USE DEF QueueType
<1>0. NULL \in 0 .. Tracks /\ \A t \in 0 .. Tracks : t # NULL => t \in Track
  BY TracksAssumption DEF NULL, Track
<1>1. \A t \in Track : KeyRequest(t) \in Request
  BY DEF KeyRequest, Request
<1>2. ASSUME NEW r \in Request, requests' = Append(requests, r) PROVE requests' \in Seq(Request)
  BY <1>2
<1>3. \A i \in Answerable : i \in 1 .. Len(requests) /\ requests[i] \in Request
  BY DEF Answerable
<1>4. CASE ApiCall
  BY <1>4 DEF ApiCall, ApiElse, netVars
<1>5. CASE ApiKey
  <2>1. UNCHANGED <<pending, aes>>
    BY <1>5 DEF ApiKey, ApiElse, netVars
  <2>2. call.trk \in Track
    BY <1>5 DEF ApiKey, CallInv
  <2> HIDE DEF Track
  <2>3. requests' = Append(requests, KeyRequest(call.trk)) \/ UNCHANGED requests
    BY <1>5 DEF ApiKey, WriteOk, WriteFails
  <2> QED
    BY <1>1, <1>2, <2>1, <2>2, <2>3
<1>6. CASE ApiStep /\ ~ApiKey
  <2>1. UNCHANGED <<pending, aes, requests>>
    BY <1>6 DEF ApiStep, ApiStopAbort, ApiStopSpin, ApiStopDrain, ApiStopReset, ApiOffset,
                ApiNotify, ApiTrack, ApiSndNext, ApiAdvance, ApiElse, netVars
  <2> QED
    BY <2>1
<1>7. CASE PcmSend
  <2>1. UNCHANGED <<pending, aes>>
    BY <1>7 DEF PcmSend, PcmElse, netVars
  <2>2. \/ track # NULL /\ requests' = Append(requests, SubstreamRequest(track, offset))
        \/ UNCHANGED requests
    BY <1>7 DEF PcmSend, WriteOk, WriteFails
  <2>3. track # NULL => SubstreamRequest(track, offset) \in Request
    <3>1. track # NULL => track \in Track
      BY <1>0 DEF CountType
    <3> QED
      BY <3>1 DEF SubstreamRequest, Request, CountType
  <2> QED
    BY <1>2, <2>1, <2>2, <2>3
<1>8. CASE PcmStep /\ ~PcmSend
  <2>1. UNCHANGED <<pending, aes, requests>>
    BY <1>8 DEF PcmStep, PcmEnter, PcmFill, PcmAbortWait, PcmSwitch, PcmBusy,
                PcmCodec, PcmSniff, PcmConsume, PcmWake, PcmEof, PcmStopAbort, PcmStopSpin,
                PcmStopDrain, PcmStopReset, PcmEndOfPlaylist, PcmElse, netVars
  <2> QED
    BY <2>1
<1>9. CASE NetKey
  <2>1. PICK i \in Answerable :
          /\ requests' = Remove(requests, i)
          /\ \/ UNCHANGED <<aes, pending>>
             \/ /\ aes' = [trk |-> requests[i].trk, pos |-> 0]
                /\ pending' = [cmd |-> "START", trk |-> track, off |-> 0, good |-> TRUE]
    BY <1>9 DEF NetKey, Offer
  <2>2. requests' \in Seq(Request)
    BY <1>3, <2>1, RemoveType
  <2>3. [trk |-> requests[i].trk, pos |-> 0] \in [trk : 0 .. Tracks, pos : Nat]
    <3>1. requests[i].trk \in Track
      BY <1>3 DEF Request
    <3>2. requests[i].trk \in 0 .. Tracks
      BY <3>1 DEF Track
    <3> QED
      BY <3>2
  <2>4. [cmd |-> "START", trk |-> track, off |-> 0, good |-> TRUE] \in Buffer
    BY DEF Buffer, CountType
  <2> QED
    BY <2>1, <2>2, <2>3, <2>4
<1>10. CASE NetKeyError \/ NetError
  <2>1. UNCHANGED <<pending, aes>>
    BY <1>10 DEF NetKeyError, NetError, netVars
  <2>2. PICK i \in Answerable : requests' = Remove(requests, i)
    BY <1>10 DEF NetKeyError, NetError
  <2>3. requests' \in Seq(Request)
    BY <1>3, <2>2, RemoveType
  <2> QED
    BY <2>1, <2>3
<1>11. CASE NetData
  <2>1. PICK i \in Answerable :
          /\ requests' = [requests EXCEPT ![i].got = @ + 1]
          /\ aes' = [aes EXCEPT !.pos = @ + 1]
          /\ pending' = [cmd |-> "DATA", trk |-> requests[i].trk,
                         off |-> requests[i].off + requests[i].got,
                         good |-> aes = [trk |-> requests[i].trk,
                                         pos |-> requests[i].off + requests[i].got]]
    BY <1>11 DEF NetData, Offer
  <2> DEFINE r == requests[i]
             s == [r EXCEPT !.got = @ + 1]
  <2>2. r \in Request /\ i \in 1 .. Len(requests)
    BY <1>3
  <2>3. s \in Request
    <3> HIDE DEF r
    <3>1. r \in [kind : {"key", "substream"}, trk : Track, off : Nat, got : Nat]
      BY <2>2 DEF Request
    <3>2. r.got + 1 \in Nat
      BY <3>1
    <3> QED
      BY <3>1, <3>2, Zenon DEF Request
  <2>4. requests' = [requests EXCEPT ![i] = s]
    BY <2>1
  <2>5. requests' \in Seq(Request)
    <3> HIDE DEF s
    <3> QED
      BY <2>2, <2>3, <2>4
  <2>6. aes' \in [trk : 0 .. Tracks, pos : Nat]
    BY <2>1
  <2>7. pending' \in Buffer
    <3> DEFINE at == r.off + r.got
               g == (aes = [trk |-> r.trk, pos |-> at])
    <3>1. r.trk \in 0 .. Tracks /\ at \in Nat
      <4> HIDE DEF r
      <4>1. r.trk \in Track /\ r.off \in Nat /\ r.got \in Nat
        BY <2>2 DEF Request
      <4> QED
        BY <4>1, TracksAssumption DEF Track
    <3>2. g \in BOOLEAN
      OBVIOUS
    <3>3. pending' = [cmd |-> "DATA", trk |-> r.trk, off |-> at, good |-> g]
      BY <2>1
    <3> HIDE DEF r, at, g
    <3> QED
      BY <3>1, <3>2, <3>3, Zenon DEF Buffer
  <2> QED
    BY <2>5, <2>6, <2>7
<1>12. CASE NetEnd
  <2>1. UNCHANGED <<pending, aes>>
    BY <1>12 DEF NetEnd
  <2>2. PICK i \in Answerable : requests' = Remove(requests, i)
    BY <1>12 DEF NetEnd
  <2>3. requests' \in Seq(Request)
    BY <1>3, <2>2, RemoveType
  <2> QED
    BY <2>1, <2>3
<1>13. CASE NetEndOfTrack
  <2>1. UNCHANGED <<requests, aes>> /\ pending' = NoBuffer
    BY <1>13 DEF NetEndOfTrack, Offer
  <2>2. NoBuffer \in Buffer
    BY <1>0 DEF NoBuffer, Buffer
  <2> QED
    BY <2>1, <2>2
<1>14. CASE NetNextKey
  <2>1. UNCHANGED <<pending, aes>>
    BY <1>14 DEF NetNextKey
  <2>2. \/ track # NULL /\ requests' = Append(requests, KeyRequest(track))
        \/ UNCHANGED requests
    BY <1>14 DEF NetNextKey, WriteOk, WriteFails
  <2>3. track # NULL => KeyRequest(track) \in Request
    BY <1>0, <1>1 DEF CountType
  <2> QED
    BY <1>2, <2>1, <2>2, <2>3
<1>15. CASE NetAppend \/ NetAdvance \/ NetZeroOffset \/ NetChannelEnd
  <2>1. UNCHANGED <<pending, aes, requests>>
    BY <1>15 DEF NetAppend, NetAdvance, NetZeroOffset, NetChannelEnd
  <2> QED
    BY <2>1
<1>16. CASE UNCHANGED vars
  BY <1>16 DEF vars
<1> QED
  BY <1>4, <1>5, <1>6, <1>7, <1>8, <1>9, <1>10, <1>11, <1>12, <1>13, <1>14, <1>15, <1>16
     DEF Next, NetStep

-----------------------------------------------------------------------------
(* The start: an empty FIFO.                                                *)
LEMMA InitIInv ==
    ASSUME Init
    PROVE  IInv
<1>0. Tracks \in Nat /\ MaxCommands \in Nat /\ NULL \in 0 .. Tracks
  BY TracksAssumption, CallerAssumption DEF NULL
<1>1. FifoInv
  <2>1. fifo = <<>> /\ totbytes = 0
    BY Zenon DEF Init
  <2>2. <<>> \in Seq(Buffer)
    OBVIOUS
  <2> QED
    BY <2>1, <2>2, BytesEmpty DEF FifoInv
<1>2. FlagType
  BY Zenon DEF Init, FlagType
<1>3. LabelType
  BY Zenon DEF Init, LabelType
<1>4. CrashType
  BY Zenon DEF Init, CrashType
<1>5. CountType
  <2>1. track = NULL /\ offset = 0 /\ errorcount = 0 /\ commands = 0
    BY Zenon DEF Init
  <2> QED
    BY <1>0, <2>1 DEF CountType
<1>6. CallInv
  BY <1>0, Zenon DEF Init, CallInv, Call
<1>7. QueueType
  <2>1. requests = <<>> /\ pending = NoBuffer /\ aes = [trk |-> NULL, pos |-> 0]
    BY Zenon DEF Init
  <2>2. <<>> \in Seq(Request)
    OBVIOUS
  <2>3. NoBuffer \in Buffer
    BY <1>0 DEF NoBuffer, Buffer
  <2>4. [trk |-> NULL, pos |-> 0] \in [trk : 0 .. Tracks, pos : Nat]
    BY <1>0
  <2> QED
    BY <2>1, <2>2, <2>3, <2>4 DEF QueueType
<1>8. HeardType
  <2>1. heard = [trk |-> NULL, pos |-> 0]
    BY Zenon DEF Init
  <2> QED
    BY <1>0, <2>1 DEF HeardType
<1> QED
  BY <1>1, <1>2, <1>3, <1>4, <1>5, <1>6, <1>7, <1>8 DEF IInv

(* Every step keeps the types, and totbytes exact.                          *)
LEMMA IInvStep ==
    ASSUME IInv, [Next]_vars
    PROVE  IInv'
BY FifoStep, FlagStep, LabelStep, CrashStep, CountStep, CallStep, QueueStep, HeardStep DEF IInv

(* fifo->totbytes is the amount of data queued, whoever queued, consumed or   *)
(* dropped it last: sndqueue.c adds in snd_ioctl, subtracts in                *)
(* snd_consume_data and snd_next, and clears in snd_reset, each in the        *)
(* section that changes the list.  Any mix of calls, faults and answers.      *)
THEOREM TotbytesIsExact == Spec => []TotbytesExact
<1>1. Init => IInv
  BY InitIInv
<1>2. IInv /\ [Next]_vars => IInv'
  BY IInvStep
<1>3. IInv => TotbytesExact
  <2> SUFFICES ASSUME IInv PROVE TotbytesExact
    OBVIOUS
  <2>1. totbytes \in Int
    BY BytesType DEF IInv, FifoInv
  <2> QED
    BY <2>1, Zenon DEF IInv, FifoInv, FlagType, LabelType, CrashType, CountType, CallInv, QueueType,
                       HeardType, TotbytesExact, TypeOK
<1> QED
  BY <1>1, <1>2, <1>3, PTL DEF Spec

-----------------------------------------------------------------------------
(* One call of despotify_play: what the server was asked for *)

(* The client plays a track or a list and does nothing else.                *)
OneCall == Commands = {"play"} /\ MaxCommands = 1

Keys == {i \in 1 .. Len(requests) : requests[i].kind = "key"}

(* A request is written behind the others.  (packet_write.)                 *)
LEMMA RequestWritten ==
    ASSUME QueueType, NEW r \in Request, requests' = Append(requests, r)
    PROVE  LET n == Len(requests) + 1
           IN  /\ Len(requests') = n /\ n \in Nat /\ n \notin 1 .. Len(requests)
               /\ requests'[n] = r
               /\ \A i \in 1 .. Len(requests) : requests'[i] = requests[i]
               /\ Substreams' = IF r.kind = "substream" THEN Substreams \union {n} ELSE Substreams
               /\ Keys' = IF r.kind = "key" THEN Keys \union {n} ELSE Keys
<1> DEFINE n == Len(requests) + 1
<1>1. Len(requests) \in Nat
  BY DEF QueueType
<1>2. Len(requests') = n /\ requests'[n] = r /\ \A i \in 1 .. Len(requests) : requests'[i] = requests[i]
  BY DEF QueueType
<1>3. 1 .. n = (1 .. Len(requests)) \union {n} /\ n \notin 1 .. Len(requests)
  BY <1>1
<1>4. Substreams' = {i \in 1 .. Len(requests') : requests'[i].kind = "substream"}
  BY DEF Substreams
<1> HIDE DEF n
<1>5. Substreams' = IF r.kind = "substream" THEN Substreams \union {n} ELSE Substreams
  BY <1>2, <1>3, <1>4 DEF Substreams
<1>6. Keys' = {i \in 1 .. Len(requests') : requests'[i].kind = "key"}
  BY DEF Keys
<1>7. Keys' = IF r.kind = "key" THEN Keys \union {n} ELSE Keys
  BY <1>2, <1>3, <1>6 DEF Keys
<1> QED
  BY <1>1, <1>2, <1>3, <1>5, <1>7 DEF n

(* where a request stood before the i-th was taken out *)
Before(i, j) == IF j < i THEN j ELSE j + 1

(* The other requests move up when one is answered.                         *)
LEMMA RequestAnswered ==
    ASSUME QueueType, NEW i \in 1 .. Len(requests), requests' = Remove(requests, i)
    PROVE  /\ Len(requests') = Len(requests) - 1
           /\ \A j \in 1 .. Len(requests') :
                 /\ Before(i, j) \in (1 .. Len(requests)) \ {i}
                 /\ requests'[j] = requests[Before(i, j)]
           /\ \A j \in Substreams' :
                 Before(i, j) \in Substreams \ {i} /\ requests'[j] = requests[Before(i, j)]
           /\ \A j, k \in Substreams' : Before(i, j) = Before(i, k) => j = k
           /\ \A j \in Keys' : Before(i, j) \in Keys
<1> DEFINE n == Len(requests)
           a == SubSeq(requests, 1, i - 1)
           b == SubSeq(requests, i + 1, n)
<1>1. n \in Nat /\ i \in Nat /\ 1 <= i /\ i <= n /\ requests \in Seq(Request)
  BY DEF QueueType
<1>2. a \in Seq(Request) /\ Len(a) = i - 1 /\ \A j \in 1 .. i - 1 : a[j] = requests[j]
  BY <1>1, SubSeqProperties
<1>3. b \in Seq(Request) /\ Len(b) = n - i /\ \A j \in 1 .. n - i : b[j] = requests[i + j]
  BY <1>1, SubSeqProperties
<1>4. requests' = a \o b
  BY DEF Remove
<1> HIDE DEF a, b, n
<1>5. /\ Len(requests') = n - 1
      /\ \A j \in 1 .. n - 1 : requests'[j] = IF j <= i - 1 THEN a[j] ELSE b[j - (i - 1)]
  <2>1. /\ Len(a \o b) = Len(a) + Len(b)
        /\ \A j \in 1 .. Len(a) + Len(b) :
              (a \o b)[j] = IF j <= Len(a) THEN a[j] ELSE b[j - Len(a)]
    BY <1>2, <1>3, ConcatProperties
  <2>2. Len(a) + Len(b) = n - 1
    BY <1>1, <1>2, <1>3
  <2> QED
    BY <1>2, <1>4, <2>1, <2>2
<1>6. ASSUME NEW j \in 1 .. n - 1
      PROVE  Before(i, j) \in (1 .. n) \ {i} /\ requests'[j] = requests[Before(i, j)]
  <2>1. CASE j < i
    <3>1. j \in 1 .. i - 1 /\ Before(i, j) = j
      BY <1>1, <2>1 DEF Before
    <3> QED
      BY <1>1, <1>2, <1>5, <2>1, <3>1
  <2>2. CASE ~(j < i)
    <3>1. j - (i - 1) \in 1 .. n - i /\ i + (j - (i - 1)) = j + 1 /\ Before(i, j) = j + 1
      BY <1>1, <2>2 DEF Before
    <3>2. ~(j <= i - 1)
      BY <1>1, <2>2
    <3> QED
      BY <1>1, <1>3, <1>5, <3>1, <3>2
  <2> QED
    BY <2>1, <2>2
<1>7. Substreams' = {j \in 1 .. n - 1 : requests'[j].kind = "substream"}
  BY <1>5 DEF Substreams
<1>8. ASSUME NEW j \in Substreams' PROVE Before(i, j) \in Substreams \ {i}
  BY <1>6, <1>7 DEF Substreams, n
<1>9. ASSUME NEW j \in Substreams', NEW k \in Substreams', Before(i, j) = Before(i, k) PROVE j = k
  BY <1>1, <1>7, <1>9 DEF Before
<1>10. ASSUME NEW j \in Keys' PROVE Before(i, j) \in Keys
  <2>1. j \in 1 .. n - 1 /\ requests'[j].kind = "key"
    BY <1>5 DEF Keys
  <2> QED
    BY <1>6, <2>1 DEF Keys, n
<1> QED
  BY <1>5, <1>6, <1>7, <1>8, <1>9, <1>10 DEF n

(* A packet of a substream is counted.  (despotify_substream_callback.)      *)
LEMMA PacketCounted ==
    ASSUME QueueType, NEW i \in 1 .. Len(requests),
           requests' = [requests EXCEPT ![i].got = @ + 1]
    PROVE  /\ Len(requests') = Len(requests) /\ Substreams' = Substreams /\ Keys' = Keys
           /\ \A j \in 1 .. Len(requests) :
                 /\ requests'[j].kind = requests[j].kind
                 /\ requests'[j].trk = requests[j].trk
                 /\ requests'[j].off = requests[j].off
                 /\ requests'[j].got = requests[j].got + (IF j = i THEN 1 ELSE 0)
<1>1. requests \in Seq(Request) /\ \A j \in 1 .. Len(requests) : requests[j] \in Request
  BY DEF QueueType
<1>2. Len(requests') = Len(requests)
  BY <1>1
<1>3. \A j \in 1 .. Len(requests) : requests'[j] = IF j = i THEN [requests[j] EXCEPT !.got = @ + 1]
                                                  ELSE requests[j]
  BY <1>1
<1>4. ASSUME NEW j \in 1 .. Len(requests)
      PROVE  /\ requests'[j].kind = requests[j].kind
             /\ requests'[j].trk = requests[j].trk
             /\ requests'[j].off = requests[j].off
             /\ requests'[j].got = requests[j].got + (IF j = i THEN 1 ELSE 0)
  <2>1. requests[j] \in Request
    BY <1>1
  <2> QED
    BY <1>3, <2>1 DEF Request
<1>5. Substreams' = Substreams
  BY <1>2, <1>4 DEF Substreams
<1>6. Keys' = Keys
  BY <1>2, <1>4 DEF Keys
<1> QED
  BY <1>2, <1>4, <1>5, <1>6

(* A server has no more of a track than a substream asks for.               *)
LEMMA AvailableType ==
    ASSUME NEW t \in Track, NEW off \in Nat
    PROVE  Available(t, off) \in Nat /\ Available(t, off) <= SUBSTREAM_SIZE
<1>1. Size[t] \in Nat /\ SUBSTREAM_SIZE \in Nat
  BY SizeAssumption, BufferAssumption
<1> QED
  BY <1>1 DEF Available, Min

-----------------------------------------------------------------------------
(* One call: dlstate and the requests *)

(* nothing has been asked for yet *)
Quiet ==
    /\ fifo = <<>> /\ requests = <<>> /\ net = "idle" /\ pcm = "idle"
    /\ dlstate = "FILLING" /\ ~dlabort /\ offset = 0 /\ errorcount = 0

(* the one call: despotify_play, without a snd_stop of its own *)
StartInv ==
    /\ api \in {"idle", "notify", "track", "key"}
    /\ commands = 1 <=> ready
    /\ commands = 0 => api = "idle" /\ track = NULL
    /\ (commands = 0 \/ api # "idle") => Quiet

(* only the PCM thread stops, at the end of what is queued *)
AbortInv ==
    /\ dlabort => pcm \in {"spin", "drain", "reset"}
    /\ pcm # "abort_wait"
    /\ pcm \in {"drain", "reset"} => dlstate # "FILLING_BUSY"

Ending == {"advance", "end_of_track", "append_end", "zero_offset", "next_key", "channel_end"}

(* busy, from the request for a substream to the end of its channel; after the *)
(* end of the list the state is not to be relied on, but nothing can be asked  *)
BusyInv ==
    /\ \A i, j \in Substreams : i = j
    /\ Substreams # {} =>
          /\ dlstate = "FILLING_BUSY" /\ net \notin Ending
          /\ pcm \notin {"busy", "send"} /\ track # NULL
    /\ net \in Ending =>
          track = NULL \/ (dlstate = "FILLING_BUSY" /\ pcm \notin {"busy", "send"})
    /\ pcm = "send" => track = NULL \/ dlstate = "FILLING_BUSY"

(* a packet between snd_ioctl's test of dlabort and its lock *)
Held == IF net = "append" /\ pending.cmd = "DATA" THEN 1 ELSE 0

(* room for the rest of the substream is kept *)
RoomInv ==
    /\ totbytes + Held <= maxbytes
    /\ Held = 1 => Substreams # {}
    /\ \A i \in Substreams :
          /\ requests[i].got <= SUBSTREAM_SIZE
          /\ totbytes + Held + (SUBSTREAM_SIZE - requests[i].got) <= maxbytes
    /\ pcm \in {"busy", "send"} => track = NULL \/ totbytes + SUBSTREAM_SIZE <= maxbytes
    /\ net = "append_end" => pending.cmd = "END"

OneInv == StartInv /\ AbortInv /\ BusyInv /\ RoomInv

(* The caller's steps: one call, and nothing queued before it has asked.    *)
LEMMA OneApi ==
    ASSUME OneCall, IInv, OneInv, ApiCall \/ ApiStep
    PROVE  OneInv'
<1> USE DEF OneInv
<1>1. CASE ApiCall
  <2>1. commands = 0 /\ ready = FALSE
    BY <1>1 DEF ApiCall, StartInv, OneCall, IInv, CountType, FlagType
  <2>2. Quiet /\ track = NULL
    BY <2>1 DEF StartInv
  <2>3. /\ api' = "notify" /\ ready' = TRUE /\ commands' = 1 /\ dlstate' = "FILLING"
        /\ UNCHANGED <<fifo, totbytes, dlabort, track, offset, requests, net, pending, pcm, errorcount>>
    BY <1>1, <2>1 DEF ApiCall, ApiElse, OneCall, netVars, pcmVars, trackVars
  <2>4. Quiet' /\ Substreams = {} /\ Substreams' = {}
    BY <2>2, <2>3 DEF Quiet, Substreams
  <2>5. StartInv'
    BY <2>2, <2>3, <2>4 DEF StartInv
  <2>6. AbortInv' /\ BusyInv'
    BY <2>3, <2>4 DEF AbortInv, BusyInv, Quiet, Ending
  <2>7. RoomInv'
    BY <2>2, <2>3, <2>4 DEF RoomInv, Held, Quiet
  <2> QED
    BY <2>5, <2>6, <2>7
<1>2. CASE ApiNotify
  <2>1. /\ api \in {"notify"} /\ api' \in {"track", "idle"} /\ UNCHANGED <<commands, ready>>
        /\ UNCHANGED <<fifo, totbytes, dlabort, dlstate, track, offset, requests, net, pending, pcm,
                       errorcount>>
    BY <1>2 DEF ApiNotify, ApiElse, netVars, pcmVars, trackVars, fifoVars, dlVars, WriteFails
  <2>2. Substreams' = Substreams
    BY <2>1 DEF Substreams
  <2> QED
    BY <2>1, <2>2 DEF StartInv, AbortInv, BusyInv, RoomInv, Held, Quiet
<1>3. CASE ApiTrack
  <2>1. /\ api = "track" /\ api' = "key" /\ UNCHANGED <<commands, ready>>
        /\ UNCHANGED <<fifo, totbytes, dlabort, dlstate, offset, requests, net, pending, pcm, errorcount>>
    BY <1>3 DEF ApiTrack, ApiElse, netVars, pcmVars, fifoVars, dlVars
  <2>2. Quiet /\ commands # 0
    BY <2>1 DEF StartInv
  <2>3. Substreams = {} /\ Substreams' = {} /\ Quiet'
    BY <2>1, <2>2 DEF Substreams, Quiet
  <2> QED
    BY <2>1, <2>2, <2>3 DEF StartInv, AbortInv, BusyInv, RoomInv, Held, Quiet, Ending
<1>4. CASE ApiKey
  <2>1. /\ api = "key" /\ api' = "idle" /\ UNCHANGED <<commands, ready>>
        /\ UNCHANGED <<fifo, totbytes, dlabort, dlstate, track, offset, net, pending, pcm, errorcount>>
    BY <1>4 DEF ApiKey, ApiElse, netVars, pcmVars, trackVars, fifoVars, dlVars
  <2>2. Quiet /\ commands # 0
    BY <2>1 DEF StartInv
  <2>3. Substreams = {}
    BY <2>2 DEF Substreams, Quiet
  <2>4. Substreams' = {}
    <3>1. CASE UNCHANGED requests
      BY <2>3, <3>1 DEF Substreams
    <3>2. CASE requests' = Append(requests, KeyRequest(call.trk))
      <4>1. KeyRequest(call.trk) \in Request /\ KeyRequest(call.trk).kind = "key"
        BY <2>1 DEF IInv, CallInv, KeyRequest, Request
      <4> QED
        BY <2>3, <3>2, <4>1, RequestWritten DEF IInv
    <3> QED
      BY <1>4, <3>1, <3>2 DEF ApiKey, WriteOk, WriteFails
  <2> QED
    BY <2>1, <2>2, <2>3, <2>4 DEF StartInv, AbortInv, BusyInv, RoomInv, Held, Quiet, Ending
<1>5. CASE ApiStopAbort \/ ApiStopSpin \/ ApiStopDrain \/ ApiStopReset \/ ApiOffset \/ ApiSndNext
           \/ ApiAdvance
  <2>1. api \in {"stop", "spin", "drain", "reset", "offset", "snd_next", "advance"}
    BY <1>5 DEF ApiStopAbort, ApiStopSpin, ApiStopDrain, ApiStopReset, ApiOffset, ApiSndNext,
                ApiAdvance
  <2> QED
    BY <2>1 DEF StartInv
<1> QED
  BY <1>1, <1>2, <1>3, <1>4, <1>5 DEF ApiStep

(* The PCM thread's steps: busy, then one request, and never while stopping. *)
LEMMA OnePcm ==
    ASSUME OneCall, IInv, FifoInv', OneInv, PcmStep
    PROVE  OneInv'
<1> USE DEF OneInv
<1>0. /\ totbytes \in Nat /\ totbytes' \in Nat
      /\ SUBSTREAM_SIZE \in Nat \ {0} /\ maxbytes \in Nat /\ watermark \in Nat
      /\ watermark + SUBSTREAM_SIZE <= maxbytes
  <2>1. Bytes(fifo) \in Nat
    BY BytesType DEF IInv, FifoInv
  <2>2. fifo' \in Seq(Buffer) /\ totbytes' = Bytes(fifo')
    BY DEF FifoInv, Bytes
  <2>3. Bytes(fifo') \in Nat
    BY <2>2, BytesType
  <2> QED
    BY <2>1, <2>2, <2>3, BufferAssumption DEF IInv, FifoInv
<1>1. UNCHANGED <<net, pending, errorcount, api, commands, ready, track, offset, lastcmd>>
  BY DEF PcmStep, PcmEnter, PcmFill, PcmAbortWait, PcmSwitch, PcmBusy, PcmSend,
         PcmCodec, PcmSniff, PcmConsume, PcmWake, PcmEof, PcmStopAbort, PcmStopSpin,
         PcmStopDrain, PcmStopReset, PcmEndOfPlaylist, PcmElse, StopReset,
         fifoVars, trackVars, netVars, apiVars
(* the PCM thread does not run before the call has asked for the key *)
<1>2. ~Quiet
  BY DEF Quiet, PcmStep, PcmEnter, PcmFill, PcmAbortWait, PcmSwitch, PcmBusy, PcmSend,
         PcmCodec, PcmSniff, PcmConsume, PcmWake, PcmEof, PcmStopAbort, PcmStopSpin,
         PcmStopDrain, PcmStopReset, PcmEndOfPlaylist
<1>3. StartInv'
  BY <1>1, <1>2 DEF StartInv
<1>4. ASSUME UNCHANGED requests PROVE Substreams' = Substreams
  BY <1>4 DEF Substreams
<1> SUFFICES AbortInv' /\ BusyInv' /\ RoomInv'
  BY <1>3
<1>5. CASE PcmEnter \/ PcmFill \/ PcmCodec \/ PcmSniff \/ PcmWake \/ PcmEof \/ PcmEndOfPlaylist
  <2>1. /\ UNCHANGED <<totbytes, dlstate, dlabort, requests>>
        /\ pcm \notin {"spin", "drain", "reset", "send"}
        /\ pcm' \in {"fill", "abort_wait", "switch", "sniff", "decode", "idle", "eof"}
        /\ pcm' = "abort_wait" => dlabort
    BY <1>5 DEF PcmEnter, PcmFill, PcmCodec, PcmSniff, PcmWake, PcmEof, PcmEndOfPlaylist,
                fifoVars, dlVars
  <2> QED
    BY <1>1, <1>4, <2>1 DEF AbortInv, BusyInv, RoomInv, Held
<1>6. CASE PcmAbortWait
  BY <1>6 DEF PcmAbortWait, AbortInv
<1>7. CASE PcmSwitch
  <2>1. /\ UNCHANGED <<totbytes, dlabort, requests>>
        /\ pcm = "switch" /\ pcm' = (IF WantsData THEN "busy" ELSE AfterFill)
        /\ dlstate' = IF ~WantsData /\ dlstate = "FILLING" THEN "DRAINING" ELSE dlstate
    BY <1>7 DEF PcmSwitch, fifoVars
  <2>2. AfterFill \in {"idle", "codec"}
    BY DEF AfterFill
  <2>3. AbortInv'
    BY <2>1, <2>2 DEF AbortInv
  <2>4. CASE WantsData
    <3>1. dlstate # "FILLING_BUSY" /\ totbytes + SUBSTREAM_SIZE <= maxbytes
      BY <1>0, <2>4 DEF WantsData
    <3>2. Substreams = {} /\ (net \in Ending => track = NULL)
      BY <3>1 DEF BusyInv
    <3>3. pcm' = "busy" /\ dlstate' = dlstate
      BY <2>1, <2>4
    <3> QED
      BY <1>1, <1>4, <2>1, <2>3, <3>1, <3>2, <3>3 DEF BusyInv, RoomInv, Held
  <2>5. CASE ~WantsData
    <3>1. pcm' \in {"idle", "codec"} /\ (dlstate = "FILLING_BUSY" => dlstate' = dlstate)
      BY <2>1, <2>2, <2>5
    <3> QED
      BY <1>1, <1>4, <2>1, <2>3, <3>1 DEF BusyInv, RoomInv, Held
  <2> QED
    BY <2>4, <2>5
<1>8. CASE PcmBusy
  <2>1. /\ UNCHANGED <<totbytes, dlabort, requests>>
        /\ pcm = "busy" /\ pcm' = "send" /\ dlstate' = "FILLING_BUSY"
    BY <1>8 DEF PcmBusy, fifoVars
  <2> QED
    BY <1>1, <1>4, <2>1 DEF AbortInv, BusyInv, RoomInv, Held
<1>9. CASE PcmSend
  <2>1. /\ UNCHANGED <<totbytes, dlabort, dlstate>>
        /\ pcm = "send" /\ pcm' = AfterFill
        /\ \/ UNCHANGED requests
           \/ track # NULL /\ requests' = Append(requests, SubstreamRequest(track, offset))
    BY <1>9 DEF PcmSend, WriteOk, WriteFails, fifoVars, dlVars
  <2>2. pcm' \in {"idle", "codec"}
    BY <2>1 DEF AfterFill
  <2>3. AbortInv'
    BY <2>1, <2>2 DEF AbortInv
  <2>4. CASE UNCHANGED requests
    BY <1>1, <1>4, <2>1, <2>2, <2>3, <2>4 DEF BusyInv, RoomInv, Held
  <2>5. CASE track # NULL /\ requests' = Append(requests, SubstreamRequest(track, offset))
    <3> DEFINE r == SubstreamRequest(track, offset)
               n == Len(requests) + 1
    <3>1. track \in Track
      BY <2>5, TracksAssumption DEF IInv, CountType, NULL, Track
    <3>2. r \in Request /\ r.kind = "substream" /\ r.got = 0
      BY <3>1 DEF IInv, CountType, SubstreamRequest, Request
    <3>3. Substreams = {} /\ net \notin Ending /\ dlstate = "FILLING_BUSY"
      BY <2>1, <2>5 DEF BusyInv
    <3> HIDE DEF r, n
    <3>4. Substreams' = Substreams \union {n} /\ requests'[n] = r
      BY <2>5, <3>2, RequestWritten DEF IInv, r, n
    <3>5. Substreams' = {n}
      BY <3>3, <3>4
    <3>6. BusyInv'
      BY <1>1, <2>1, <2>2, <2>5, <3>3, <3>5 DEF BusyInv
    <3>7. Held = 0 /\ Held' = 0 /\ totbytes + SUBSTREAM_SIZE <= maxbytes
      BY <1>1, <2>1, <2>5, <3>3 DEF RoomInv, Held
    <3>8. RoomInv'
      BY <1>0, <1>1, <2>1, <2>2, <3>2, <3>4, <3>5, <3>7 DEF RoomInv
    <3> QED
      BY <2>3, <3>6, <3>8
  <2> QED
    BY <2>1, <2>4, <2>5
<1>10. CASE PcmConsume
  <2>1. /\ UNCHANGED <<dlstate, dlabort, requests>> /\ pcm = "decode"
        /\ pcm' \in {"wait", "fill", "decode", "stop", "eof"}
        /\ totbytes' = totbytes \/ totbytes' = totbytes - 1
    BY <1>10 DEF PcmConsume, dlVars
  <2>2. AbortInv' /\ BusyInv'
    BY <1>1, <1>4, <2>1 DEF AbortInv, BusyInv
  <2>3. Held' = Held /\ Held \in {0, 1} /\ \A i \in Substreams : requests[i].got \in Nat
    <3>1. \A i \in Substreams : requests[i] \in Request
      BY DEF IInv, QueueType, Substreams
    <3> QED
      BY <1>1, <3>1 DEF Held, Request
  <2>4. totbytes' <= totbytes /\ Substreams' = Substreams
    BY <1>0, <1>4, <2>1
  <2>5. RoomInv'
    <3>1. totbytes' + Held' <= maxbytes
      <4>1. totbytes + Held <= maxbytes
        BY DEF RoomInv
      <4>2. totbytes \in Nat /\ totbytes' \in Nat /\ maxbytes \in Nat
        BY <1>0
      <4>3. Held' = Held /\ Held \in Nat
        BY <2>3
      <4>4. totbytes' + Held <= maxbytes
        BY <2>4, <4>1, <4>2, <4>3, LessStillFits
      <4> QED
        BY <4>3, <4>4
    <3>2. ASSUME NEW i \in Substreams'
          PROVE  /\ requests'[i].got <= SUBSTREAM_SIZE
                 /\ totbytes' + Held' + (SUBSTREAM_SIZE - requests'[i].got) <= maxbytes
      <4>1. /\ requests[i].got \in Nat /\ requests'[i] = requests[i]
            /\ requests[i].got <= SUBSTREAM_SIZE
            /\ totbytes + Held + (SUBSTREAM_SIZE - requests[i].got) <= maxbytes
        BY <2>1, <2>3, <2>4 DEF RoomInv
      <4> QED
        BY <1>0, <2>3, <2>4, <4>1
    <3> QED
      BY <1>1, <2>1, <2>3, <2>4, <3>1, <3>2 DEF RoomInv
  <2> QED
    BY <2>2, <2>5
<1>11. CASE PcmStopAbort \/ PcmStopSpin \/ PcmStopDrain
  <2>1. UNCHANGED <<totbytes, requests>> /\ pcm' \in {"spin", "drain", "reset"}
    BY <1>11 DEF PcmStopAbort, PcmStopSpin, PcmStopDrain, fifoVars
  <2>2. \/ pcm = "stop" /\ pcm' = "spin" /\ UNCHANGED dlstate
        \/ pcm = "spin" /\ pcm' = "drain" /\ UNCHANGED dlstate /\ dlstate # "FILLING_BUSY"
        \/ pcm = "drain" /\ pcm' = "reset" /\ dlstate' = "DRAINING"
    BY <1>11 DEF PcmStopAbort, PcmStopSpin, PcmStopDrain, dlVars
  <2>3. AbortInv'
    BY <2>1, <2>2 DEF AbortInv
  <2>4. BusyInv'
    BY <1>1, <1>4, <2>1, <2>2 DEF AbortInv, BusyInv
  <2>5. RoomInv'
    BY <1>1, <1>4, <2>1 DEF RoomInv, Held
  <2> QED
    BY <2>3, <2>4, <2>5
<1>12. CASE PcmStopReset
  <2>1. /\ totbytes' = 0 /\ dlstate' = "DRAINING" /\ dlabort' = FALSE /\ UNCHANGED requests
        /\ pcm = "reset" /\ pcm' = "end_of_playlist"
    BY <1>12 DEF PcmStopReset, StopReset
  <2>2. AbortInv'
    BY <2>1 DEF AbortInv
  <2>3. Substreams = {} /\ Substreams' = {}
    BY <1>4, <2>1 DEF AbortInv, BusyInv
  <2>4. BusyInv'
    BY <1>1, <2>1, <2>3 DEF AbortInv, BusyInv
  <2>5. RoomInv'
    BY <1>0, <1>1, <2>1, <2>3 DEF RoomInv, Held
  <2> QED
    BY <2>2, <2>4, <2>5
<1> QED
  BY <1>5, <1>6, <1>7, <1>8, <1>9, <1>10, <1>11, <1>12 DEF PcmStep

(* The network thread's steps: the data of the one substream, and its end.  *)
LEMMA OneNet ==
    ASSUME OneCall, IInv, FifoInv', OneInv, NetStep
    PROVE  OneInv'
<1> USE DEF OneInv
<1>0. /\ totbytes \in Nat /\ SUBSTREAM_SIZE \in Nat \ {0} /\ maxbytes \in Nat
      /\ Held \in {0, 1}
  <2>1. Bytes(fifo) \in Nat
    BY BytesType DEF IInv, FifoInv
  <2> QED
    BY <2>1, BufferAssumption DEF IInv, FifoInv, Held
<1>1. UNCHANGED <<pcm, api, commands, ready, dlabort>>
  BY DEF NetStep, NetKey, NetKeyError, NetData, NetError, NetAppend, NetEnd,
         NetAdvance, NetEndOfTrack, NetZeroOffset, NetNextKey, NetChannelEnd, NetElse,
         fifoVars, dlVars, apiVars
(* the server answers only what it was asked *)
<1>2. ~Quiet
  <2>1. net # "idle" \/ \E i \in Answerable : TRUE
    BY DEF NetStep, NetKey, NetKeyError, NetData, NetError, NetAppend, NetEnd,
           NetAdvance, NetEndOfTrack, NetZeroOffset, NetNextKey, NetChannelEnd
  <2>2. requests = <<>> => ~ \E i \in Answerable : TRUE
    BY DEF Answerable
  <2> QED
    BY <2>1, <2>2 DEF Quiet
<1>3. StartInv'
  BY <1>1, <1>2 DEF StartInv
<1>4. ASSUME UNCHANGED requests PROVE Substreams' = Substreams
  BY <1>4 DEF Substreams
<1>5. \A i \in Answerable : i \in 1 .. Len(requests) /\ requests[i] \in Request
  BY DEF Answerable, IInv, QueueType
<1>6. \A i \in Substreams : i \in 1 .. Len(requests) /\ requests[i] \in Request /\ requests[i].got \in Nat
  <2>1. \A i \in Substreams : i \in 1 .. Len(requests) /\ requests[i] \in Request
    BY DEF IInv, QueueType, Substreams
  <2> QED
    BY <2>1 DEF Request
(* an answer takes one request away; what is left of the substream is there as it was *)
<1>7. ASSUME NEW i \in Answerable, requests' = Remove(requests, i)
      PROVE  /\ \A j \in Substreams' : /\ Before(i, j) \in Substreams \ {i}
                                       /\ requests'[j] = requests[Before(i, j)]
             /\ \A j, k \in Substreams' : j = k
             /\ i \in Substreams => Substreams' = {}
             /\ Substreams = {} => Substreams' = {}
             /\ i \notin Substreams /\ Substreams # {} => Substreams' # {}
  <2>1. i \in 1 .. Len(requests)
    BY <1>5
  <2>2. /\ \A j \in Substreams' : /\ Before(i, j) \in Substreams \ {i}
                                  /\ requests'[j] = requests[Before(i, j)]
        /\ \A j, k \in Substreams' : Before(i, j) = Before(i, k) => j = k
    BY <1>7, <2>1, RequestAnswered DEF IInv
  <2>3. \A j, k \in Substreams : j = k
    BY DEF BusyInv
  <2>4. ASSUME i \notin Substreams, Substreams # {} PROVE Substreams' # {}
    <3>1. PICK k \in Substreams : TRUE
      BY <2>4
    <3>2. k \in 1 .. Len(requests) /\ requests[k].kind = "substream" /\ k # i
      BY <2>4, <3>1 DEF Substreams
    <3> DEFINE j == IF k < i THEN k ELSE k - 1
    <3>3. Len(requests) \in Nat
      BY DEF IInv, QueueType
    <3>4. j \in 1 .. Len(requests) - 1 /\ Before(i, j) = k
      BY <2>1, <3>2, <3>3 DEF Before
    <3>5. Len(requests') = Len(requests) - 1 /\ requests'[j] = requests[Before(i, j)]
      BY <1>7, <2>1, <3>4, RequestAnswered DEF IInv
    <3>6. j \in Substreams'
      BY <3>2, <3>4, <3>5 DEF Substreams
    <3> QED
      BY <3>6
  <2> QED
    BY <2>2, <2>3, <2>4
<1> SUFFICES AbortInv' /\ BusyInv' /\ RoomInv'
  BY <1>3
<1>8. CASE NetKey
  <2>1. PICK i \in Answerable : requests[i].kind = "key" /\ requests' = Remove(requests, i)
    BY <1>8 DEF NetKey
  <2>2. /\ UNCHANGED <<totbytes, dlstate, track>> /\ net = "idle"
        /\ \/ net' \in {"idle", "append"} /\ pending' = [cmd |-> "START", trk |-> track, off |-> 0, good |-> TRUE]
           \/ net' = "idle"
    BY <1>8 DEF NetKey, Offer, fifoVars, dlVars, trackVars, IInv, LabelType
  <2> QED
    BY <1>0, <1>1, <1>6, <1>7, <2>1, <2>2 DEF AbortInv, BusyInv, RoomInv, Held, Ending
<1>9. CASE NetKeyError
  <2>1. PICK i \in Answerable : requests[i].kind = "key" /\ requests' = Remove(requests, i)
    BY <1>9 DEF NetKeyError
  <2>2. UNCHANGED <<totbytes, dlstate, track, net, pending>> /\ net = "idle"
    BY <1>9 DEF NetKeyError, fifoVars, dlVars, trackVars, netVars
  <2> QED
    BY <1>0, <1>1, <1>6, <1>7, <2>1, <2>2 DEF AbortInv, BusyInv, RoomInv, Held, Ending
<1>10. CASE NetData
  <2>1. PICK i \in Answerable :
          /\ requests[i].kind = "substream"
          /\ requests[i].got < Available(requests[i].trk, requests[i].off)
          /\ requests' = [requests EXCEPT ![i].got = @ + 1]
          /\ Offer([cmd |-> "DATA", trk |-> requests[i].trk,
                    off |-> requests[i].off + requests[i].got,
                    good |-> aes = [trk |-> requests[i].trk,
                                    pos |-> requests[i].off + requests[i].got]], "append")
    BY <1>10 DEF NetData
  <2>10. net' \in {"idle", "append"} /\ pending'.cmd = "DATA"
    BY <2>1 DEF Offer
  <2>2. UNCHANGED <<totbytes, dlstate, track>> /\ net = "idle"
    BY <1>10 DEF NetData, fifoVars, dlVars, trackVars
  <2>3. i \in Substreams /\ \A j \in Substreams : j = i
    BY <1>5, <2>1 DEF Substreams, BusyInv
  <2>11. QueueType /\ i \in 1 .. Len(requests) /\ requests' = [requests EXCEPT ![i].got = @ + 1]
    BY <1>5, <2>1 DEF IInv
  <2>4. Substreams' = Substreams /\ requests'[i].got = requests[i].got + 1
    BY <2>11, PacketCounted
  <2>5. requests[i].got + 1 <= SUBSTREAM_SIZE
    <3>1. requests[i].trk \in Track /\ requests[i].off \in Nat /\ requests[i].got \in Nat
      BY <1>5, <2>1 DEF Request
    <3>2. /\ Available(requests[i].trk, requests[i].off) \in Nat
          /\ Available(requests[i].trk, requests[i].off) <= SUBSTREAM_SIZE
      BY <3>1, AvailableType
    <3> QED
      BY <1>0, <2>1, <3>1, <3>2
  <2>6. AbortInv' /\ BusyInv'
    BY <1>1, <2>2, <2>3, <2>4, <2>10 DEF AbortInv, BusyInv, Ending
  <2>7. Held = 0 /\ Held' \in {0, 1} /\ (net' = "append" => Held' = 1) /\ net' # "append_end"
    BY <2>2, <2>10 DEF Held
  <2>8. totbytes' + Held' + (SUBSTREAM_SIZE - requests'[i].got) <= maxbytes
    BY <1>0, <1>6, <2>2, <2>3, <2>4, <2>7 DEF RoomInv
  <2>9. RoomInv'
    <3>1. requests'[i].got \in Nat /\ requests'[i].got <= SUBSTREAM_SIZE
      BY <1>6, <2>3, <2>4, <2>5
    <3>2. totbytes' \in Nat /\ totbytes' + Held' <= maxbytes
      <4> DEFINE g == requests'[i].got
                 h == Held'
                 t == totbytes'
      <4>1. t \in Nat /\ h \in {0, 1} /\ g \in Nat /\ g <= SUBSTREAM_SIZE
        BY <1>0, <2>2, <2>7, <3>1
      <4>2. t + h + (SUBSTREAM_SIZE - g) <= maxbytes
        BY <2>8
      <4> HIDE DEF g, h, t
      <4>3. t \in Nat /\ t + h <= maxbytes
        BY <1>0, <4>1, <4>2
      <4> QED
        BY <4>3 DEF h, t
    <3>3. pcm' \notin {"busy", "send"}
      BY <1>1, <2>3 DEF BusyInv
    <3> QED
      BY <2>3, <2>4, <2>7, <2>8, <3>1, <3>2, <3>3 DEF RoomInv
  <2> QED
    BY <2>6, <2>9
<1>11. CASE NetError
  <2>1. PICK i \in Answerable : requests[i].kind = "substream" /\ requests' = Remove(requests, i)
    BY <1>11 DEF NetError
  <2>2. UNCHANGED <<totbytes, dlstate, track, net, pending>> /\ net = "idle"
    BY <1>11 DEF NetError, fifoVars, dlVars, trackVars
  <2>3. i \in Substreams /\ Substreams' = {}
    BY <1>5, <1>7, <2>1 DEF Substreams
  <2> QED
    BY <1>0, <1>1, <2>2, <2>3 DEF AbortInv, BusyInv, RoomInv, Held, Ending
<1>12. CASE NetAppend
  <2>1. /\ UNCHANGED <<requests, dlstate, track, pending>> /\ net \in {"append", "append_end"}
        /\ \/ UNCHANGED <<totbytes, net>>
           \/ /\ totbytes' = totbytes + (IF pending.cmd = "DATA" THEN 1 ELSE 0)
              /\ net' = IF net = "append" THEN "idle" ELSE "zero_offset"
    BY <1>12 DEF NetAppend, dlVars, trackVars
  <2>2. AbortInv' /\ BusyInv'
    BY <1>1, <1>4, <2>1 DEF AbortInv, BusyInv, Ending
  <2>3. totbytes' + Held' = totbytes + Held /\ (Held' = 1 => Held = 1)
    BY <1>0, <2>1 DEF Held, RoomInv
  <2>4. RoomInv'
    <3>1. CASE UNCHANGED <<totbytes, net>>
      BY <1>1, <1>4, <2>1, <3>1 DEF RoomInv, Held
    <3>2. CASE net' # "append_end" /\ pcm \in {"busy", "send"} /\ track # NULL
      <4>1. Substreams = {} /\ net \notin Ending
        BY <3>2 DEF BusyInv
      <4>2. Held = 0 /\ totbytes' = totbytes
        BY <1>0, <2>1, <2>3, <4>1 DEF RoomInv, Held, Ending
      <4> QED
        BY <1>0, <1>1, <1>4, <1>6, <2>1, <2>3, <3>2, <4>1, <4>2 DEF RoomInv
    <3>3. CASE net' # "append_end" /\ ~(pcm \in {"busy", "send"} /\ track # NULL)
      <4>1. totbytes' + Held' <= maxbytes /\ (Held' = 1 => Substreams' # {})
        BY <1>4, <2>1, <2>3 DEF RoomInv
      <4>2. \A i \in Substreams' :
              /\ requests'[i].got <= SUBSTREAM_SIZE
              /\ totbytes' + Held' + (SUBSTREAM_SIZE - requests'[i].got) <= maxbytes
        BY <1>4, <2>1, <2>3 DEF RoomInv
      <4> QED
        BY <1>1, <2>1, <3>3, <4>1, <4>2 DEF RoomInv
    <3> QED
      BY <2>1, <3>1, <3>2, <3>3
  <2> QED
    BY <2>2, <2>4
<1>13. CASE NetEnd
  <2>1. PICK i \in Answerable : requests[i].kind = "substream" /\ requests' = Remove(requests, i)
    BY <1>13 DEF NetEnd
  <2>2. UNCHANGED <<totbytes, dlstate, track>> /\ net = "idle" /\ net' \in {"advance", "channel_end"}
    BY <1>13 DEF NetEnd, fifoVars, dlVars
  <2>3. i \in Substreams /\ Substreams' = {}
    BY <1>5, <1>7, <2>1 DEF Substreams
  <2> QED
    BY <1>0, <1>1, <2>2, <2>3 DEF AbortInv, BusyInv, RoomInv, Held, Ending
<1>14. CASE NetAdvance \/ NetEndOfTrack \/ NetZeroOffset
  <2>1. /\ UNCHANGED <<requests, totbytes>> /\ net \in Ending \ {"append_end"} /\ net' \in Ending
        /\ track = NULL => track' = NULL
        /\ dlstate' = dlstate \/ track' = NULL
        /\ dlstate' \in {dlstate, "END_OF_LIST"}
        /\ net' = "append_end" => pending'.cmd = "END"
    BY <1>14 DEF NetAdvance, NetEndOfTrack, NetZeroOffset, Offer, NoBuffer, Ending, fifoVars, dlVars,
                 trackVars
  <2>2. Substreams = {} /\ Substreams' = {}
    BY <1>4, <2>1 DEF BusyInv
  <2>3. AbortInv' /\ BusyInv'
    BY <1>1, <2>1, <2>2 DEF AbortInv, BusyInv
  <2>4. Held' = 0 /\ Held = 0
    BY <2>1 DEF Held, Ending
  <2>5. track # NULL => pcm \notin {"busy", "send"}
    BY <2>1 DEF BusyInv
  <2>6. RoomInv'
    BY <1>0, <1>1, <2>1, <2>2, <2>4, <2>5 DEF RoomInv
  <2> QED
    BY <2>3, <2>6
<1>15. CASE NetNextKey
  <2>1. UNCHANGED <<totbytes, dlstate, track, pending>> /\ net = "next_key" /\ net' = "channel_end"
    BY <1>15 DEF NetNextKey, fifoVars, dlVars, trackVars
  <2>2. Substreams = {}
    BY <2>1 DEF BusyInv, Ending
  <2>3. Substreams' = {}
    <3>1. CASE UNCHANGED requests
      BY <1>4, <2>2, <3>1
    <3>2. CASE track # NULL /\ requests' = Append(requests, KeyRequest(track))
      <4>1. KeyRequest(track) \in Request /\ KeyRequest(track).kind = "key"
        BY <3>2, TracksAssumption DEF IInv, CountType, KeyRequest, Request, NULL, Track
      <4> QED
        BY <2>2, <3>2, <4>1, RequestWritten DEF IInv
    <3> QED
      BY <1>15, <3>1, <3>2 DEF NetNextKey, WriteOk, WriteFails
  <2> QED
    BY <1>0, <1>1, <2>1, <2>2, <2>3 DEF AbortInv, BusyInv, RoomInv, Held, Ending
<1>16. CASE NetChannelEnd
  <2>1. /\ UNCHANGED <<requests, totbytes, track, pending>> /\ net = "channel_end" /\ net' = "idle"
        /\ dlstate' # "FILLING_BUSY" \/ dlstate' = dlstate
    BY <1>16 DEF NetChannelEnd, fifoVars, trackVars
  <2>2. dlstate' # "FILLING_BUSY"
    BY <1>16 DEF NetChannelEnd
  <2>3. Substreams = {} /\ Substreams' = {} /\ (track # NULL => pcm \notin {"busy", "send"})
    BY <1>4, <2>1 DEF BusyInv, Ending
  <2> QED
    BY <1>0, <1>1, <2>1, <2>2, <2>3 DEF AbortInv, BusyInv, RoomInv, Held, Ending
<1> QED
  BY <1>8, <1>9, <1>10, <1>11, <1>12, <1>13, <1>14, <1>15, <1>16 DEF NetStep

(* The start.                                                               *)
LEMMA OneInit ==
    ASSUME Init
    PROVE  OneInv
<1>1. /\ fifo = <<>> /\ requests = <<>> /\ totbytes = 0 /\ net = "idle" /\ pcm = "idle"
      /\ dlstate = "FILLING" /\ dlabort = FALSE /\ offset = 0 /\ errorcount = 0
      /\ api = "idle" /\ commands = 0 /\ ready = FALSE /\ track = NULL
  BY Zenon DEF Init
<1>2. Substreams = {}
  BY <1>1 DEF Substreams
<1>3. maxbytes \in Nat
  BY BufferAssumption
<1> QED
  BY <1>1, <1>2, <1>3 DEF OneInv, StartInv, AbortInv, BusyInv, RoomInv, Quiet, Held, Ending

(* Every step of one call.                                                  *)
LEMMA OneStep ==
    ASSUME OneCall, IInv, OneInv, [Next]_vars
    PROVE  OneInv'
<1>1. FifoInv'
  BY IInvStep DEF IInv
<1>2. CASE UNCHANGED vars
  <2>1. UNCHANGED <<fifo, requests, totbytes, net, pcm, dlstate, dlabort, offset, errorcount, api,
                    commands, ready, track, pending>>
    BY <1>2 DEF vars, fifoVars, dlVars, trackVars
  <2>2. Substreams' = Substreams /\ Held' = Held
    BY <2>1 DEF Substreams, Held
  <2> QED
    BY <2>1, <2>2 DEF OneInv, StartInv, AbortInv, BusyInv, RoomInv, Quiet
<1> QED
  BY <1>1, <1>2, OneApi, OnePcm, OneNet DEF Next

(* Both invariants hold throughout one call.                                *)
LEMMA OneCallInvariant ==
    ASSUME OneCall
    PROVE  Spec => [](IInv /\ OneInv)
<1>1. Init => IInv /\ OneInv
  BY InitIInv, OneInit
<1>2. IInv /\ OneInv /\ [Next]_vars => IInv' /\ OneInv'
  BY IInvStep, OneStep
<1> QED
  BY <1>1, <1>2, PTL DEF Spec

(* DL_FILLING_BUSY stands for one substream: while despotify_play plays a     *)
(* track or a list there is never a second one under way, and dlstate is busy *)
(* until its channel ends, whatever fails and in whatever order the server    *)
(* answers.  (snd_fill_fifo, snd_stop, SND_CMD_CHANNEL_END.)                  *)
THEOREM OneSubstreamAtATime ==
    ASSUME OneCall
    PROVE  Spec => []BusyIsOneSubstream
<1>1. Spec => [](IInv /\ OneInv)
  BY OneCallInvariant
<1>2. IInv /\ OneInv => BusyIsOneSubstream
  <2> SUFFICES ASSUME OneInv PROVE BusyIsOneSubstream
    OBVIOUS
  <2>1. Substreams # {} => dlstate = "FILLING_BUSY"
    BY DEF OneInv, BusyInv
  <2>2. \A i, j \in Substreams : i = j
    BY DEF OneInv, BusyInv
  <2>3. Cardinality(Substreams) <= 1
    <3>1. CASE Substreams = {}
      BY <3>1, FS_EmptySet
    <3>2. CASE Substreams # {}
      <4>1. PICK i \in Substreams : Substreams = {i}
        BY <2>2, <3>2
      <4> QED
        BY <4>1, FS_Singleton
    <3> QED
      BY <3>1, <3>2
  <2> QED
    BY <2>1, <2>3 DEF BusyIsOneSubstream
<1> QED
  BY <1>1, <1>2, PTL

(* Data is never queued beyond the buffer: snd_fill_fifo asks for a substream *)
(* only if all of it fits, without the lock and long before it arrives, and   *)
(* nothing else asks.                                                         *)
THEOREM NeverOverruns ==
    ASSUME OneCall
    PROVE  Spec => []BufferBounded
<1>1. Spec => [](IInv /\ OneInv)
  BY OneCallInvariant
<1>2. IInv /\ OneInv => BufferBounded
  <2> SUFFICES ASSUME IInv, OneInv PROVE BufferBounded
    OBVIOUS
  <2>1. totbytes + Held <= maxbytes
    BY DEF OneInv, RoomInv
  <2>2. totbytes \in Nat /\ maxbytes \in Nat /\ Held \in {0, 1}
    BY BytesType, BufferAssumption DEF IInv, FifoInv, Held
  <2> QED
    BY <2>1, <2>2 DEF BufferBounded
<1> QED
  BY <1>1, <1>2, PTL

-----------------------------------------------------------------------------
(* One call: no thread follows a NULL track, and no assertion fails *)

(* every playable track fills at least one substream (200 KB)               *)
LongTracks == \A t \in Playable : Size[t] >= SUBSTREAM_SIZE

Closing == {"advance", "end_of_track", "append_end"}
Stopping == {"stop", "spin", "drain", "reset"}

EndsInEnd == fifo # <<>> /\ fifo[Len(fifo)].cmd = "END"

(* a substream from the start of a track of which nothing is in the FIFO yet *)
Fresh(i) ==
    /\ requests[i].off = 0
    /\ \/ requests[i].got = 0
       \/ requests[i].got = 1 /\ net = "append" /\ pending.cmd = "DATA"

(* The substream is behind the keys, and at its end nothing is left to answer. *)
OrderInv ==
    /\ track \in Playable \union {NULL}
    /\ api # "idle" => call.trk \in Playable
    /\ api = "key" => track # NULL
    /\ \A i \in Substreams : i = Len(requests) /\ requests[i].trk \in Playable
    /\ net \in Closing \union {"zero_offset", "next_key"} => Len(requests) = 0
    /\ track = NULL => Len(requests) = 0
    /\ net = "append" => pending.cmd \in {"START", "DATA"}

(* After a channel error dlstate stays busy: there is no second one.        *)
ErrorInv ==
    \/ errorcount = 0
    \/ /\ errorcount = 1 /\ Substreams = {} /\ dlstate = "FILLING_BUSY"
       /\ net \notin Ending /\ pcm \notin {"busy", "send"}

OffsetInv == offset % SUBSTREAM_SIZE = 0 \/ net \in Closing \union {"zero_offset"}

(* A key, and then its START, come before any data of the track.            *)
KeyInv ==
    /\ (Keys # {} \/ (net = "append" /\ pending.cmd = "START")) =>
          offset = 0 /\ \A i \in Substreams : requests[i].off = 0 /\ requests[i].got = 0
    /\ net = "next_key" => offset = 0

(* Behind a START there is data before there is an END, unless it is thrown away. *)
FirstInv ==
    /\ lastcmd = "START" =>
          \A i \in Substreams : Fresh(i) \/ (requests[i].off = 0 /\ pcm = "spin")
    /\ offset > 0 /\ lastcmd = "START" =>
          /\ Len(requests) = 0 /\ net \in {"idle", "channel_end"}
          /\ \/ pcm \in {"spin", "drain", "reset"}
             \/ fifo = <<>> /\ pcm \in {"end_of_playlist", "eof", "idle"}
    /\ net \in Closing => lastcmd # "START"

(* The PCM thread stops between tracks: no track ends while it does.        *)
StopInv ==
    /\ pcm \in Stopping =>
          /\ net \notin Closing /\ ~EndsInEnd
          /\ \A i \in Substreams : requests[i].off = 0
          /\ track = NULL => fifo = <<>>
    /\ EndsInEnd =>
          /\ offset = 0 \/ net = "zero_offset"
          /\ net \notin Closing
          /\ \A i \in Substreams : Fresh(i)

(* Behind the last track nothing is asked for.                              *)
NullInv ==
    track = NULL =>
        /\ net \notin {"append", "advance"} /\ pcm \notin {"busy", "send"} /\ ~dlabort
        /\ dlstate = "FILLING_BUSY" => net = "end_of_track"
        /\ dlstate \in {"FILLING", "DRAINING"} =>
              /\ fifo = <<>> /\ pcm \in {"reset", "end_of_playlist", "eof", "idle"}
              /\ net \notin {"end_of_track", "append_end"}

SoundInv == OrderInv /\ ErrorInv /\ OffsetInv /\ KeyInv /\ FirstInv /\ StopInv /\ NullInv

(* A whole substream later the offset is still aligned.                     *)
LEMMA WholeSubstream ==
    ASSUME NEW S \in Nat \ {0}, NEW o \in Nat, o % S = 0
    PROVE  (o + S) % S = 0
<1> DEFINE d == o \div S
           x == o + S
           e == d + 1
<1>1. d \in Int /\ o = S * d
  BY SMT
<1> HIDE DEF d
<1>2. x = S * e /\ e \in Int /\ x \in Nat
  BY <1>1, SMT
<1>3. e \in Nat
  <2>1. CASE e >= 0
    BY <1>2, <2>1
  <2>2. CASE e < 0
    BY <1>1, <1>2, <2>2, SMT
  <2> QED
    BY <1>2, <2>1, <2>2
<1> HIDE DEF x, e
<1>4. x % S = 0
  BY <1>2, <1>3, SMT
<1> QED
  BY <1>4 DEF x

(* The START of the list, and of every substream, is aligned.               *)
LEMMA ZeroAligned == 0 % SUBSTREAM_SIZE = 0
  BY BufferAssumption, SMT

(* A long track has a whole substream at its start.                         *)
LEMMA FirstSubstream ==
    ASSUME LongTracks, NEW t \in Playable
    PROVE  Available(t, 0) = SUBSTREAM_SIZE
<1>1. Size[t] \in Nat /\ SUBSTREAM_SIZE \in Nat \ {0} /\ Size[t] >= SUBSTREAM_SIZE
  BY SizeAssumption, BufferAssumption, TracksAssumption DEF LongTracks
<1> QED
  BY <1>1 DEF Available, Min

(* Whether the FIFO ends in an END, after snd_ioctl has appended to it.     *)
LEMMA EndAppended ==
    ASSUME FifoInv, NEW b \in Buffer, fifo' = Append(fifo, b)
    PROVE  fifo' # <<>> /\ (EndsInEnd' <=> b.cmd = "END")
<1>1. Len(fifo) \in Nat /\ Len(fifo') = Len(fifo) + 1 /\ fifo'[Len(fifo) + 1] = b
  BY DEF FifoInv
<1>2. fifo' # <<>>
  BY <1>1
<1> QED
  BY <1>1, <1>2 DEF EndsInEnd

(* ... and after snd_consume_data has taken from it: it stops only behind an END. *)
LEMMA EndConsumed ==
    ASSUME FifoInv, PcmConsume
    PROVE  /\ EndsInEnd' => EndsInEnd
           /\ pcm' = "stop" => EndsInEnd /\ fifo' = <<>>
<1> DEFINE k == LeadingStarts
           n == Len(fifo)
           r == SubSeq(fifo, k + 1, n)
<1>1. k \in 0 .. n /\ n \in Nat /\ fifo \in Seq(Buffer)
  BY LeadingStartsType DEF FifoInv
<1>2. \/ r = <<>> /\ fifo' = <<>> /\ pcm' = "wait"
      \/ r # <<>> /\ Head(r).cmd = "DATA" /\ fifo' = Tail(r) /\ pcm' \in {"fill", "decode"}
      \/ /\ r # <<>> /\ Head(r).cmd = "END" /\ fifo' = Tail(r)
         /\ pcm' = IF Tail(r) = <<>> THEN "stop" ELSE "eof"
  BY DEF PcmConsume
<1> HIDE DEF k
<1>3. r \in Seq(Buffer) /\ Len(r) = n - k /\ \A i \in 1 .. n - k : r[i] = fifo[k + i]
  BY <1>1, BytesRest
<1> HIDE DEF r, n
<1>4. CASE r = <<>>
  BY <1>2, <1>4 DEF EndsInEnd
<1>5. CASE r # <<>>
  <2>1. /\ fifo' = Tail(r) /\ Tail(r) \in Seq(Buffer) /\ Len(Tail(r)) = Len(r) - 1
        /\ \A i \in 1 .. Len(Tail(r)) : Tail(r)[i] = r[i + 1]
        /\ Head(r) = r[1] /\ Len(r) \in Nat \ {0}
    BY <1>2, <1>3, <1>5, HeadTailProperties, EmptySeq
  <2>2. fifo # <<>> /\ n \in Nat \ {0} /\ k < n /\ fifo[n] = r[n - k]
    <3>1. n - k \in Nat \ {0} /\ k + (n - k) = n /\ n - k \in 1 .. n - k
      BY <1>1, <1>3, <2>1
    <3>2. n # 0
      BY <1>1, <3>1
    <3> QED
      BY <1>1, <1>3, <3>1, <3>2, EmptySeq DEF n
  <2>3. CASE Tail(r) = <<>>
    <3>1. Len(Tail(r)) = 0
      BY <2>1, <2>3, EmptySeq
    <3>2. n - k = 1
      BY <1>1, <1>3, <2>1, <3>1
    <3>3. pcm' = "stop" => fifo[n].cmd = "END"
      BY <1>2, <1>5, <2>1, <2>2, <3>2
    <3> QED
      BY <2>1, <2>2, <2>3, <3>3 DEF EndsInEnd, n
  <2>4. CASE Tail(r) # <<>>
    <3>1. Len(Tail(r)) # 0
      BY <2>1, <2>4, EmptySeq
    <3>2. Len(Tail(r)) = n - k - 1 /\ n - k - 1 \in 1 .. Len(Tail(r)) /\ (n - k - 1) + 1 = n - k
      BY <1>1, <1>3, <2>1, <3>1
    <3>3. fifo'[Len(fifo')] = fifo[n]
      BY <2>1, <2>2, <3>2
    <3>4. pcm' # "stop"
      BY <1>2, <1>5, <2>4
    <3> QED
      BY <2>2, <3>3, <3>4 DEF EndsInEnd, n
  <2> QED
    BY <2>3, <2>4
<1> QED
  BY <1>4, <1>5

(* The caller's steps.                                                      *)
LEMMA SoundApi ==
    ASSUME OneCall, IInv, OneInv, SoundInv, ApiCall \/ ApiStep
    PROVE  SoundInv' /\ crashed' = crashed
<1> USE DEF SoundInv
<1>0. /\ Playable \subseteq Track /\ NULL \notin Playable
      /\ api \in {"idle", "notify", "track", "key"}
  BY TracksAssumption DEF Track, NULL, OneInv, StartInv
<1>1. ASSUME Quiet,
             UNCHANGED <<fifo, lastcmd, dlstate, dlabort, offset, requests, net, pending, pcm, errorcount>>
      PROVE  ErrorInv' /\ OffsetInv' /\ KeyInv' /\ FirstInv' /\ StopInv' /\ NullInv'
             /\ Substreams' = {} /\ Len(requests') = 0 /\ net' = "idle"
  <2>1. Substreams' = {} /\ Keys' = {} /\ Len(requests') = 0 /\ ~EndsInEnd' /\ UNCHANGED offset
        /\ fifo' = <<>> /\ net' = "idle" /\ pcm' = "idle" /\ ~dlabort' /\ dlstate' = "FILLING"
        /\ errorcount' = 0 /\ offset' = 0
    BY <1>1 DEF Quiet, Substreams, Keys, EndsInEnd
  <2> QED
    BY <2>1, ZeroAligned DEF ErrorInv, OffsetInv, KeyInv, FirstInv, StopInv, NullInv, Ending, Closing,
                             Stopping
<1>2. CASE ApiCall
  <2>1. commands = 0 /\ ready = FALSE
    BY <1>2 DEF ApiCall, OneInv, StartInv, OneCall, IInv, CountType, FlagType
  <2>2. Quiet /\ track = NULL
    BY <2>1 DEF OneInv, StartInv
  <2>3. /\ UNCHANGED <<fifo, lastcmd, dlabort, track, offset, requests, net, pending, pcm, errorcount>>
        /\ api' = "notify" /\ dlstate' = dlstate /\ call'.trk \in Playable /\ crashed' = crashed
    BY <1>2, <2>1, <2>2 DEF ApiCall, ApiElse, OneCall, Quiet, netVars, pcmVars, trackVars
  <2> QED
    BY <1>1, <2>2, <2>3 DEF OrderInv, Closing
<1>3. CASE ApiNotify
  <2>1. /\ UNCHANGED <<fifo, lastcmd, dlstate, dlabort, track, offset, requests, net, pending, pcm,
                       errorcount, call, crashed>>
        /\ api = "notify" /\ api' \in {"track", "idle"}
    BY <1>3 DEF ApiNotify, ApiElse, WriteFails, netVars, pcmVars, trackVars, fifoVars, dlVars
  <2>2. Quiet
    BY <2>1 DEF OneInv, StartInv
  <2> QED
    BY <1>1, <2>1, <2>2 DEF OrderInv, Closing
<1>4. CASE ApiTrack
  <2>1. /\ UNCHANGED <<fifo, lastcmd, dlstate, dlabort, offset, requests, net, pending, pcm,
                       errorcount, call, crashed>>
        /\ api = "track" /\ api' = "key" /\ track' = call.trk
    BY <1>4 DEF ApiTrack, ApiElse, netVars, pcmVars, fifoVars, dlVars
  <2>2. Quiet
    BY <2>1 DEF OneInv, StartInv
  <2>3. track' \in Playable
    BY <2>1 DEF OrderInv
  <2> QED
    BY <1>0, <1>1, <2>1, <2>2, <2>3 DEF OrderInv, Closing
<1>5. CASE ApiKey
  <2>1. /\ UNCHANGED <<fifo, lastcmd, dlstate, dlabort, track, offset, net, pending, pcm,
                       errorcount, call, crashed>>
        /\ api = "key" /\ api' = "idle"
    BY <1>5 DEF ApiKey, ApiElse, netVars, pcmVars, trackVars, fifoVars, dlVars
  <2>2. Quiet /\ track # NULL
    BY <2>1 DEF OneInv, StartInv, OrderInv
  <2>3. Substreams = {}
    BY <2>2 DEF Substreams, Quiet
  <2>4. Substreams' = {}
    <3>1. CASE UNCHANGED requests
      BY <2>3, <3>1 DEF Substreams
    <3>2. CASE requests' = Append(requests, KeyRequest(call.trk))
      <4>1. KeyRequest(call.trk) \in Request /\ KeyRequest(call.trk).kind = "key"
        BY <2>1 DEF IInv, CallInv, KeyRequest, Request
      <4> QED
        BY <2>3, <3>2, <4>1, RequestWritten DEF IInv
    <3> QED
      BY <1>5, <3>1, <3>2 DEF ApiKey, WriteOk, WriteFails
  <2>5. /\ fifo' = <<>> /\ net' = "idle" /\ pcm' = "idle" /\ ~dlabort' /\ dlstate' = "FILLING"
        /\ errorcount' = 0 /\ offset' = 0 /\ track' # NULL /\ ~EndsInEnd'
    BY <2>1, <2>2 DEF Quiet, EndsInEnd
  <2>6. OrderInv'
    BY <2>1, <2>4, <2>5 DEF OrderInv, Closing
  <2> QED
    BY <2>1, <2>4, <2>5, <2>6, ZeroAligned
       DEF ErrorInv, OffsetInv, KeyInv, FirstInv, StopInv, NullInv, Closing, Stopping
<1>6. CASE ApiStopAbort \/ ApiStopSpin \/ ApiStopDrain \/ ApiStopReset \/ ApiOffset \/ ApiSndNext
           \/ ApiAdvance
  <2>1. api \in {"stop", "spin", "drain", "reset", "offset", "snd_next", "advance"}
    BY <1>6 DEF ApiStopAbort, ApiStopSpin, ApiStopDrain, ApiStopReset, ApiOffset, ApiSndNext,
                ApiAdvance
  <2> QED
    BY <1>0, <2>1
<1> QED
  BY <1>2, <1>3, <1>4, <1>5, <1>6 DEF ApiStep

(* The PCM thread's steps.                                                  *)
LEMMA SoundPcm ==
    ASSUME OneCall, IInv, OneInv, SoundInv, PcmStep
    PROVE  SoundInv' /\ crashed' = crashed
<1> USE DEF SoundInv
<1>1. UNCHANGED <<net, pending, errorcount, api, call, commands, track, offset, lastcmd>>
  BY DEF PcmStep, PcmEnter, PcmFill, PcmAbortWait, PcmSwitch, PcmBusy, PcmSend,
         PcmCodec, PcmSniff, PcmConsume, PcmWake, PcmEof, PcmStopAbort, PcmStopSpin,
         PcmStopDrain, PcmStopReset, PcmEndOfPlaylist, PcmElse, StopReset,
         fifoVars, trackVars, netVars, apiVars
<1>2. ASSUME UNCHANGED requests
      PROVE  /\ Substreams' = Substreams /\ Keys' = Keys
             /\ \A i : Fresh(i)' <=> Fresh(i)
             /\ OrderInv' /\ OffsetInv' /\ KeyInv'
  <2>1. Substreams' = Substreams /\ Keys' = Keys
    BY <1>2 DEF Substreams, Keys
  <2>2. \A i : Fresh(i)' <=> Fresh(i)
    BY <1>1, <1>2 DEF Fresh
  <2> QED
    BY <1>1, <1>2, <2>1, <2>2 DEF OrderInv, OffsetInv, KeyInv
<1>3. ASSUME UNCHANGED fifo PROVE EndsInEnd' <=> EndsInEnd
  BY <1>3 DEF EndsInEnd
<1>4. CASE PcmEnter \/ PcmFill \/ PcmCodec \/ PcmSniff \/ PcmWake \/ PcmEof \/ PcmEndOfPlaylist
  <2>1. /\ UNCHANGED <<fifo, dlstate, dlabort, requests, crashed>>
        /\ pcm \in {"idle", "fill", "codec", "sniff", "wait", "eof", "end_of_playlist"}
        /\ pcm' \in {"fill", "abort_wait", "switch", "sniff", "decode", "idle", "eof"}
        /\ pcm = "idle" => fifo # <<>>
        /\ pcm = "end_of_playlist" => pcm' = "eof"
        /\ pcm = "eof" => pcm' = "idle"
    BY <1>4 DEF PcmEnter, PcmFill, PcmCodec, PcmSniff, PcmWake, PcmEof, PcmEndOfPlaylist,
                fifoVars, dlVars
  <2>2. ErrorInv'
    BY <1>1, <1>2, <2>1 DEF ErrorInv
  <2>3. FirstInv'
    BY <1>1, <1>2, <2>1 DEF FirstInv
  <2>4. StopInv'
    BY <1>1, <1>2, <1>3, <2>1 DEF StopInv, Stopping
  <2>5. NullInv'
    BY <1>1, <2>1 DEF NullInv
  <2> QED
    BY <1>2, <2>1, <2>2, <2>3, <2>4, <2>5
<1>5. CASE PcmAbortWait
  BY <1>5 DEF PcmAbortWait, OneInv, AbortInv
<1>6. CASE PcmSwitch
  <2>1. /\ UNCHANGED <<fifo, dlabort, requests, crashed>> /\ pcm = "switch"
        /\ pcm' = (IF WantsData THEN "busy" ELSE AfterFill)
        /\ dlstate' = IF ~WantsData /\ dlstate = "FILLING" THEN "DRAINING" ELSE dlstate
    BY <1>6 DEF PcmSwitch, fifoVars
  <2>2. AfterFill \in {"idle", "codec"} /\ (WantsData => dlstate \in {"FILLING", "DRAINING"})
    BY DEF AfterFill, WantsData
  <2>3. ErrorInv'
    BY <1>1, <1>2, <2>1, <2>2 DEF ErrorInv
  <2>4. FirstInv'
    BY <1>1, <1>2, <2>1, <2>2 DEF FirstInv
  <2>5. StopInv'
    BY <1>1, <1>2, <1>3, <2>1, <2>2 DEF StopInv, Stopping
  <2>6. NullInv'
    BY <1>1, <2>1, <2>2 DEF NullInv
  <2> QED
    BY <1>2, <2>1, <2>3, <2>4, <2>5, <2>6
<1>7. CASE PcmBusy
  <2>1. /\ UNCHANGED <<fifo, dlabort, requests, crashed>>
        /\ pcm = "busy" /\ pcm' = "send" /\ dlstate' = "FILLING_BUSY"
    BY <1>7 DEF PcmBusy, fifoVars
  <2>2. ErrorInv' /\ FirstInv' /\ NullInv'
    BY <1>1, <1>2, <2>1 DEF ErrorInv, FirstInv, NullInv
  <2>3. StopInv'
    BY <1>1, <1>2, <1>3, <2>1 DEF StopInv, Stopping
  <2> QED
    BY <1>2, <2>1, <2>2, <2>3
<1>8. CASE PcmSend
  <2>1. /\ pcm = "send" /\ track # NULL /\ track \in Playable /\ net \notin Ending
        /\ Substreams = {} /\ dlstate = "FILLING_BUSY" /\ offset \in Nat
        /\ errorcount = 0 /\ offset % SUBSTREAM_SIZE = 0
        /\ lastcmd = "START" => offset = 0
        /\ EndsInEnd => offset = 0
    <3>1. pcm = "send"
      BY <1>8 DEF PcmSend
    <3>2. track # NULL /\ track \in Playable
      BY <3>1 DEF NullInv, OrderInv
    <3>3. net \notin Ending /\ Substreams = {} /\ dlstate = "FILLING_BUSY"
      BY <3>1, <3>2 DEF OneInv, BusyInv
    <3>4. offset \in Nat
      BY DEF IInv, CountType
    <3>5. errorcount = 0 /\ offset % SUBSTREAM_SIZE = 0
      BY <3>1, <3>3 DEF ErrorInv, OffsetInv, Closing, Ending
    <3>6. lastcmd = "START" => offset = 0
      BY <3>1, <3>4 DEF FirstInv
    <3>7. EndsInEnd => offset = 0
      BY <3>3 DEF StopInv, Ending
    <3> QED
      BY <3>1, <3>2, <3>3, <3>4, <3>5, <3>6, <3>7
  <2>2. /\ UNCHANGED <<fifo, dlabort, dlstate, crashed>> /\ pcm' \in {"idle", "codec"}
        /\ \/ UNCHANGED requests
           \/ requests' = Append(requests, SubstreamRequest(track, offset))
    BY <1>8, <2>1 DEF PcmSend, WriteOk, WriteFails, AfterFill, fifoVars, dlVars
  <2>3. CASE UNCHANGED requests
    <3>1. ErrorInv' /\ FirstInv' /\ NullInv'
      BY <1>1, <1>2, <2>1, <2>2, <2>3 DEF ErrorInv, FirstInv, NullInv
    <3>2. StopInv'
      BY <1>1, <1>2, <1>3, <2>1, <2>2, <2>3 DEF StopInv, Stopping
    <3> QED
      BY <1>2, <2>2, <2>3, <3>1, <3>2
  <2>4. CASE requests' = Append(requests, SubstreamRequest(track, offset))
    <3> DEFINE r == SubstreamRequest(track, offset)
               n == Len(requests) + 1
    <3>1. track \in Track
      BY <2>1, TracksAssumption
    <3>2. r \in Request /\ r.kind = "substream" /\ r.got = 0 /\ r.off = offset /\ r.trk = track
      BY <2>1, <3>1 DEF SubstreamRequest, Request
    <3> HIDE DEF r, n
    <3>3. Substreams' = Substreams \union {n} /\ requests'[n] = r /\ Keys' = Keys /\ Len(requests') = n
      BY <2>4, <3>2, RequestWritten DEF IInv, r, n
    <3>4. Substreams' = {n}
      BY <2>1, <3>3
    <3>5. ASSUME NEW i \in Substreams', offset = 0 PROVE Fresh(i)'
      <4>1. requests'[i] = r
        BY <3>3, <3>4
      <4> QED
        BY <3>2, <3>5, <4>1 DEF Fresh
    <3>6. OrderInv'
      BY <1>1, <2>1, <3>2, <3>3, <3>4 DEF OrderInv, Closing, Ending
    <3>7. KeyInv'
      BY <1>1, <2>1, <3>2, <3>3, <3>4 DEF KeyInv, Ending
    <3>8. FirstInv'
      BY <1>1, <2>1, <2>2, <3>4, <3>5 DEF FirstInv, Closing, Ending
    <3>9. StopInv'
      BY <1>1, <1>3, <2>1, <2>2, <3>4, <3>5 DEF StopInv, Stopping
    <3>10. ErrorInv' /\ OffsetInv' /\ NullInv'
      BY <1>1, <2>1, <2>2 DEF ErrorInv, OffsetInv, NullInv
    <3> QED
      BY <2>2, <3>6, <3>7, <3>8, <3>9, <3>10
  <2> QED
    BY <2>2, <2>3, <2>4
<1>9. CASE PcmConsume
  <2>1. /\ UNCHANGED <<dlstate, dlabort, requests, crashed>> /\ pcm = "decode"
        /\ pcm' \in {"wait", "fill", "decode", "stop", "eof"}
    BY <1>9 DEF PcmConsume, dlVars
  <2>2. (EndsInEnd' => EndsInEnd) /\ (pcm' = "stop" => EndsInEnd /\ fifo' = <<>>)
    BY <1>9, EndConsumed DEF IInv
  <2>3. ErrorInv' /\ FirstInv' /\ NullInv'
    BY <1>1, <1>2, <2>1 DEF ErrorInv, FirstInv, NullInv
  <2>4. StopInv'
    <3>1. pcm' \in Stopping => pcm' = "stop"
      BY <2>1 DEF Stopping
    <3>2. pcm' = "stop" => ~EndsInEnd'
      BY <2>2 DEF EndsInEnd
    <3>3. EndsInEnd => \A i \in Substreams : requests[i].off = 0
      BY DEF StopInv, Fresh
    <3> QED
      BY <1>1, <1>2, <2>1, <2>2, <3>1, <3>2, <3>3 DEF StopInv
  <2> QED
    BY <1>2, <2>1, <2>3, <2>4
<1>10. CASE PcmStopAbort \/ PcmStopSpin \/ PcmStopDrain
  <2>1. UNCHANGED <<fifo, requests, crashed>> /\ pcm \in Stopping /\ pcm' \in Stopping
    BY <1>10 DEF PcmStopAbort, PcmStopSpin, PcmStopDrain, Stopping, fifoVars
  <2>2. \/ /\ pcm = "stop" /\ pcm' = "spin" /\ UNCHANGED dlstate
           /\ dlstate \notin {"FILLING", "FILLING_BUSY"} => UNCHANGED dlabort
        \/ /\ pcm = "spin" /\ pcm' = "drain" /\ UNCHANGED <<dlstate, dlabort>>
           /\ dlstate # "FILLING_BUSY"
        \/ pcm = "drain" /\ pcm' = "reset" /\ dlstate' = "DRAINING" /\ UNCHANGED dlabort
    BY <1>10 DEF PcmStopAbort, PcmStopSpin, PcmStopDrain, StopAbort, dlVars
  <2>3. pcm # "stop" => pcm' # "spin" /\ Substreams = {} /\ dlstate # "FILLING_BUSY"
    BY <2>2 DEF OneInv, AbortInv, BusyInv
  <2>4. ErrorInv'
    BY <1>1, <1>2, <2>1, <2>2, <2>3 DEF ErrorInv
  <2>5. FirstInv'
    BY <1>1, <1>2, <2>1, <2>2, <2>3 DEF FirstInv
  <2>6. StopInv'
    BY <1>1, <1>2, <1>3, <2>1 DEF StopInv
  <2>7. NullInv'
    <3>1. track = NULL => /\ net \notin Closing /\ fifo = <<>>
                          /\ dlstate # "FILLING_BUSY"
                          /\ pcm = "stop" => dlstate # "FILLING"
      BY <2>1 DEF StopInv, NullInv, Closing
    <3>2. track = NULL => UNCHANGED dlabort
      BY <2>2, <3>1
    <3> QED
      BY <1>1, <2>1, <2>2, <3>1, <3>2 DEF NullInv, Closing
  <2> QED
    BY <1>2, <2>1, <2>4, <2>5, <2>6, <2>7
<1>11. CASE PcmStopReset
  <2>1. /\ fifo' = <<>> /\ dlstate' = "DRAINING" /\ dlabort' = FALSE /\ UNCHANGED <<requests, crashed>>
        /\ pcm = "reset" /\ pcm' = "end_of_playlist"
    BY <1>11 DEF PcmStopReset, StopReset
  <2>2. Substreams = {} /\ dlstate # "FILLING_BUSY"
    BY <2>1 DEF OneInv, AbortInv, BusyInv
  <2>3. ErrorInv' /\ FirstInv'
    BY <1>1, <1>2, <2>1, <2>2 DEF ErrorInv, FirstInv
  <2>4. StopInv'
    BY <2>1 DEF StopInv, Stopping, EndsInEnd
  <2>5. NullInv'
    BY <1>1, <2>1 DEF NullInv, StopInv, Stopping, Closing
  <2> QED
    BY <1>2, <2>1, <2>3, <2>4, <2>5
<1> QED
  BY <1>4, <1>5, <1>6, <1>7, <1>8, <1>9, <1>10, <1>11 DEF PcmStep

(* The network thread's steps.                                              *)
LEMMA SoundNet ==
    ASSUME OneCall, LongTracks, InOrder = TRUE, IInv, OneInv, SoundInv, NetStep
    PROVE  SoundInv' /\ crashed' = crashed
<1> USE DEF SoundInv
<1>0. SUBSTREAM_SIZE \in Nat \ {0} /\ offset \in Nat /\ errorcount \in Nat /\ Len(requests) \in Nat
      /\ NULL \notin Playable
  BY BufferAssumption, TracksAssumption DEF IInv, CountType, QueueType, Track, NULL
<1>1. UNCHANGED <<pcm, api, call, commands, dlabort>>
  BY DEF NetStep, NetKey, NetKeyError, NetData, NetError, NetAppend, NetEnd,
         NetAdvance, NetEndOfTrack, NetZeroOffset, NetNextKey, NetChannelEnd, NetElse,
         fifoVars, dlVars, apiVars
<1>2. ASSUME UNCHANGED requests PROVE Substreams' = Substreams /\ Keys' = Keys
  BY <1>2 DEF Substreams, Keys
<1>3. ASSUME UNCHANGED fifo PROVE EndsInEnd' <=> EndsInEnd
  BY <1>3 DEF EndsInEnd
(* answers come in the order of the requests *)
<1>4. \A i \in Answerable : i = 1 /\ i \in 1 .. Len(requests) /\ requests[i] \in Request
  BY DEF Answerable, IInv, QueueType
<1>5. \A i \in Substreams : i \in 1 .. Len(requests) /\ requests[i] \in Request
  BY DEF IInv, QueueType, Substreams
<1>6. net \in Ending => Substreams = {}
  BY DEF OneInv, BusyInv
(* when the substream is answered there is nothing else in the queue *)
<1>7. ASSUME NEW i \in Answerable, requests[i].kind = "substream"
      PROVE  /\ i \in Substreams /\ Len(requests) = 1 /\ Keys = {} /\ Substreams = {i}
             /\ requests[i].trk \in Playable /\ track # NULL /\ errorcount = 0
             /\ dlstate = "FILLING_BUSY" /\ pcm \notin {"busy", "send", "drain", "reset"}
             /\ requests[i].off \in Nat /\ requests[i].got \in Nat
  <2>1. i = 1 /\ i \in 1 .. Len(requests) /\ requests[i] \in Request
    BY <1>4
  <2>2. i \in Substreams /\ i = Len(requests) /\ requests[i].trk \in Playable
    BY <1>7, <2>1 DEF Substreams, OrderInv
  <2>3. Len(requests) = 1 /\ Keys = {} /\ Substreams = {i}
    BY <1>7, <2>1, <2>2 DEF Keys, Substreams
  <2>4. dlstate = "FILLING_BUSY" /\ pcm \notin {"busy", "send", "drain", "reset"} /\ track # NULL
    BY <2>2 DEF OneInv, BusyInv, AbortInv
  <2>5. errorcount = 0
    BY <2>2 DEF ErrorInv
  <2> QED
    BY <2>1, <2>2, <2>3, <2>4, <2>5 DEF Request
(* the answer of a key leaves the rest as it was *)
<1>8. ASSUME NEW i \in Answerable, requests[i].kind = "key", requests' = Remove(requests, i)
      PROVE  /\ offset = 0 /\ track # NULL /\ Len(requests') = Len(requests) - 1
             /\ Substreams = {} => Substreams' = {}
             /\ \A j \in Substreams' : /\ j = Len(requests') /\ requests'[j].off = 0
                                       /\ requests'[j].got = 0 /\ requests'[j].trk \in Playable
  <2>1. i = 1 /\ i \in 1 .. Len(requests)
    BY <1>4
  <2>2. i \in Keys /\ Len(requests) # 0
    BY <1>8, <2>1 DEF Keys
  <2>3. /\ offset = 0 /\ track # NULL
        /\ \A k \in Substreams : /\ requests[k].off = 0 /\ requests[k].got = 0
                                 /\ k = Len(requests) /\ requests[k].trk \in Playable
    BY <2>2 DEF KeyInv, OrderInv
  <2>4. /\ Len(requests') = Len(requests) - 1
        /\ \A j \in 1 .. Len(requests') : requests'[j] = requests[Before(i, j)]
        /\ \A j \in Substreams' : Before(i, j) \in Substreams /\ requests'[j] = requests[Before(i, j)]
    BY <1>8, <2>1, RequestAnswered DEF IInv
  <2>5. ASSUME NEW j \in Substreams'
        PROVE  /\ j = Len(requests') /\ requests'[j].off = 0
               /\ requests'[j].got = 0 /\ requests'[j].trk \in Playable
    <3>1. Before(i, j) \in Substreams /\ requests'[j] = requests[Before(i, j)]
      BY <2>4
    <3>2. j \in 1 .. Len(requests')
      BY DEF Substreams
    <3>3. Before(i, j) = j + 1
      BY <1>0, <2>1, <2>4, <3>2 DEF Before
    <3> QED
      BY <1>0, <2>3, <2>4, <3>1, <3>2, <3>3
  <2> QED
    BY <2>3, <2>4, <2>5
<1>9. CASE NetKey
  <2>1. PICK i \in Answerable : requests[i].kind = "key" /\ requests' = Remove(requests, i)
    BY <1>9 DEF NetKey
  <2>2. /\ offset = 0 /\ track # NULL
        /\ Substreams = {} => Substreams' = {}
        /\ \A j \in Substreams' : /\ j = Len(requests') /\ requests'[j].off = 0
                                  /\ requests'[j].got = 0 /\ requests'[j].trk \in Playable
    BY <1>8, <2>1
  <2>3. /\ UNCHANGED <<fifo, lastcmd, dlstate, track, offset, errorcount, crashed>> /\ net = "idle"
        /\ net' \in {"idle", "append"} /\ pending'.cmd = "START"
    BY <1>9, <2>2 DEF NetKey, Offer, fifoVars, dlVars, trackVars
  <2>4. \A j \in Substreams' : Fresh(j)'
    BY <2>2 DEF Fresh
  <2>5. OrderInv'
    BY <1>1, <2>2, <2>3 DEF OrderInv, Closing
  <2>6. ErrorInv' /\ OffsetInv' /\ KeyInv' /\ FirstInv'
    BY <1>0, <1>1, <2>2, <2>3, <2>4 DEF ErrorInv, OffsetInv, KeyInv, FirstInv, Closing, Ending
  <2>7. StopInv' /\ NullInv'
    BY <1>1, <1>3, <2>2, <2>3, <2>4 DEF StopInv, NullInv, Closing
  <2> QED
    BY <2>3, <2>5, <2>6, <2>7
<1>10. CASE NetKeyError
  <2>1. PICK i \in Answerable : requests[i].kind = "key" /\ requests' = Remove(requests, i)
    BY <1>10 DEF NetKeyError
  <2>2. /\ offset = 0 /\ track # NULL
        /\ Substreams = {} => Substreams' = {}
        /\ \A j \in Substreams' : /\ j = Len(requests') /\ requests'[j].off = 0
                                  /\ requests'[j].got = 0 /\ requests'[j].trk \in Playable
    BY <1>8, <2>1
  <2>3. UNCHANGED <<fifo, lastcmd, dlstate, track, offset, errorcount, crashed, net, pending>>
        /\ net = "idle"
    BY <1>10 DEF NetKeyError, fifoVars, dlVars, trackVars, netVars
  <2>4. \A j \in Substreams' : Fresh(j)'
    BY <2>2 DEF Fresh
  <2>5. OrderInv'
    BY <1>1, <2>2, <2>3 DEF OrderInv, Closing
  <2>6. ErrorInv' /\ OffsetInv' /\ KeyInv' /\ FirstInv'
    BY <1>0, <1>1, <2>2, <2>3, <2>4 DEF ErrorInv, OffsetInv, KeyInv, FirstInv, Closing, Ending
  <2>7. StopInv' /\ NullInv'
    BY <1>1, <1>3, <2>2, <2>3, <2>4 DEF StopInv, NullInv, Closing
  <2> QED
    BY <2>3, <2>5, <2>6, <2>7
<1>11. CASE NetData
  <2>1. PICK i \in Answerable :
          /\ requests[i].kind = "substream"
          /\ requests' = [requests EXCEPT ![i].got = @ + 1]
          /\ Offer([cmd |-> "DATA", trk |-> requests[i].trk,
                    off |-> requests[i].off + requests[i].got,
                    good |-> aes = [trk |-> requests[i].trk,
                                    pos |-> requests[i].off + requests[i].got]], "append")
    BY <1>11 DEF NetData
  <2>2. /\ UNCHANGED <<fifo, lastcmd, dlstate, track, offset, errorcount, crashed>> /\ net = "idle"
        /\ net' \in {"idle", "append"} /\ pending'.cmd = "DATA" /\ (~dlabort => net' = "append")
    BY <1>11, <2>1 DEF NetData, Offer, fifoVars, dlVars, trackVars
  <2>3. /\ i \in Substreams /\ Len(requests) = 1 /\ Keys = {} /\ Substreams = {i}
        /\ requests[i].trk \in Playable /\ track # NULL /\ errorcount = 0
        /\ dlstate = "FILLING_BUSY" /\ pcm \notin {"busy", "send", "drain", "reset"}
        /\ requests[i].got \in Nat
    BY <1>7, <2>1
  <2>4. /\ Len(requests') = Len(requests) /\ Substreams' = Substreams /\ Keys' = Keys
        /\ requests'[i].trk = requests[i].trk
        /\ requests'[i].off = requests[i].off
        /\ requests'[i].got = requests[i].got + 1
    <3>1. QueueType /\ i \in 1 .. Len(requests) /\ requests' = [requests EXCEPT ![i].got = @ + 1]
      BY <1>4, <2>1 DEF IInv
    <3> QED
      BY <3>1, PacketCounted
  <2>5. dlabort => pcm = "spin"
    BY <2>3 DEF OneInv, AbortInv
  <2>6. Fresh(i) => requests[i].got = 0 /\ requests[i].off = 0
    BY <2>2 DEF Fresh
  <2>7. ASSUME NEW j \in Substreams', Fresh(i), ~dlabort PROVE Fresh(j)'
    <3>1. j = i /\ requests'[j].off = 0 /\ requests'[j].got = 1 /\ net' = "append" /\ pending'.cmd = "DATA"
      BY <2>2, <2>3, <2>4, <2>6, <2>7
    <3> QED
      BY <3>1 DEF Fresh
  <2>8. OrderInv'
    BY <1>1, <2>2, <2>3, <2>4 DEF OrderInv, Closing
  <2>9. ErrorInv' /\ OffsetInv' /\ KeyInv' /\ NullInv'
    BY <1>1, <2>2, <2>3, <2>4 DEF ErrorInv, OffsetInv, KeyInv, NullInv, Closing
  <2>10. FirstInv'
    <3>1. lastcmd = "START" => Fresh(i) \/ (requests[i].off = 0 /\ pcm = "spin")
      BY <2>3 DEF FirstInv
    <3>2. ~(offset > 0 /\ lastcmd = "START")
      BY <2>3 DEF FirstInv
    <3>3. ASSUME NEW j \in Substreams', lastcmd = "START"
          PROVE  Fresh(j)' \/ (requests'[j].off = 0 /\ pcm = "spin")
      <4>1. j = i
        BY <2>3, <2>4
      <4> QED
        BY <2>4, <2>5, <2>6, <2>7, <3>1, <3>3, <4>1
    <3> QED
      BY <1>1, <2>2, <3>2, <3>3 DEF FirstInv, Closing
  <2>11. StopInv'
    <3>1. pcm \in Stopping => ~EndsInEnd /\ requests[i].off = 0
      BY <2>3 DEF StopInv
    <3>2. EndsInEnd => ~dlabort /\ Fresh(i)
      BY <2>3, <2>5, <3>1 DEF StopInv, Stopping
    <3> QED
      BY <1>1, <1>3, <2>2, <2>3, <2>4, <2>7, <3>1, <3>2 DEF StopInv, Closing
  <2> QED
    BY <2>2, <2>8, <2>9, <2>10, <2>11
<1>12. CASE NetError
  <2>1. PICK i \in Answerable : requests[i].kind = "substream" /\ requests' = Remove(requests, i)
    BY <1>12 DEF NetError
  <2>2. /\ i \in Substreams /\ Len(requests) = 1 /\ Keys = {} /\ Substreams = {i}
        /\ track # NULL /\ errorcount = 0
        /\ dlstate = "FILLING_BUSY" /\ pcm \notin {"busy", "send", "drain", "reset"}
    BY <1>7, <2>1
  <2>3. Len(requests') = 0 /\ Substreams' = {} /\ Keys' = {}
    BY <1>4, <2>1, <2>2, RequestAnswered DEF IInv
  <2>4. /\ UNCHANGED <<fifo, lastcmd, dlstate, track, offset, net, pending, crashed>> /\ net = "idle"
        /\ errorcount' = 1
    BY <1>12, <2>2 DEF NetError, fifoVars, dlVars, trackVars
  <2>5. OrderInv'
    BY <1>1, <2>3, <2>4 DEF OrderInv, Closing
  <2>6. ErrorInv' /\ OffsetInv' /\ KeyInv' /\ NullInv'
    BY <1>1, <2>2, <2>3, <2>4 DEF ErrorInv, OffsetInv, KeyInv, NullInv, Closing, Ending
  <2>7. FirstInv'
    BY <1>0, <1>1, <2>2, <2>3, <2>4 DEF FirstInv, Closing
  <2>8. StopInv'
    BY <1>1, <1>3, <2>2, <2>3, <2>4 DEF StopInv, Closing
  <2> QED
    BY <2>4, <2>5, <2>6, <2>7, <2>8
<1>13. CASE NetAppend
  <2>1. /\ net \in {"append", "append_end"}
        /\ net = "append" => pending.cmd \in {"START", "DATA"}
        /\ net = "append_end" => pending.cmd = "END" /\ lastcmd # "START"
    BY <1>13 DEF NetAppend, OrderInv, OneInv, RoomInv, FirstInv, Closing
  <2>2. /\ UNCHANGED <<requests, dlstate, track, offset, pending, errorcount, crashed>>
        /\ fifo' = Append(fifo, pending) /\ lastcmd' = pending.cmd
        /\ net' = IF net = "append" THEN "idle" ELSE "zero_offset"
    BY <1>13, <2>1 DEF NetAppend, dlVars, trackVars
  <2>3. fifo' # <<>> /\ (EndsInEnd' <=> pending.cmd = "END")
    BY <2>2, EndAppended DEF IInv, QueueType
  <2>4. CASE net = "append"
    <3>1. track # NULL /\ net' = "idle" /\ ~EndsInEnd' /\ lastcmd' \in {"START", "DATA"}
      BY <2>1, <2>2, <2>3, <2>4 DEF NullInv
    <3>2. OrderInv'
      BY <1>1, <1>2, <2>2, <3>1 DEF OrderInv, Closing
    <3>3. ErrorInv' /\ OffsetInv' /\ NullInv'
      BY <1>1, <1>2, <2>2, <2>4, <3>1 DEF ErrorInv, OffsetInv, NullInv, Closing, Ending
    <3>4. KeyInv'
      BY <1>2, <2>2, <3>1 DEF KeyInv
    <3>5. StopInv'
      BY <1>1, <1>2, <2>2, <3>1 DEF StopInv, Closing
    <3>6. FirstInv'
      <4>1. pending.cmd = "START" => offset = 0 /\ \A i \in Substreams : requests[i].off = 0
                                                                       /\ requests[i].got = 0
        BY <2>4 DEF KeyInv
      <4>2. pending.cmd = "START" => \A i \in Substreams' : Fresh(i)'
        BY <1>2, <2>2, <4>1 DEF Fresh
      <4> QED
        BY <1>0, <1>1, <2>2, <3>1, <4>1, <4>2 DEF FirstInv, Closing
    <3> QED
      BY <2>2, <3>2, <3>3, <3>4, <3>5, <3>6
  <2>5. CASE net = "append_end"
    <3>1. net' = "zero_offset" /\ lastcmd' = "END" /\ Substreams' = {} /\ pcm \notin Stopping
          /\ Len(requests) = 0
      BY <1>2, <1>6, <2>1, <2>2, <2>5 DEF Ending, StopInv, Closing, OrderInv
    <3>2. OrderInv'
      BY <1>1, <2>2, <3>1 DEF OrderInv, Closing
    <3>3. ErrorInv' /\ OffsetInv' /\ KeyInv' /\ FirstInv'
      BY <1>0, <1>1, <1>2, <2>2, <2>5, <3>1 DEF ErrorInv, OffsetInv, KeyInv, FirstInv, Closing, Ending
    <3>4. StopInv' /\ NullInv'
      BY <1>1, <2>2, <2>5, <3>1 DEF StopInv, NullInv, Closing
    <3> QED
      BY <2>2, <3>2, <3>3, <3>4
  <2> QED
    BY <2>1, <2>4, <2>5
<1>14. CASE NetEnd
  <2>1. PICK i \in Answerable :
          /\ requests[i].kind = "substream"
          /\ requests[i].got = Available(requests[i].trk, requests[i].off)
          /\ requests' = Remove(requests, i)
          /\ offset' = offset + requests[i].got
          /\ net' = IF requests[i].got < SUBSTREAM_SIZE THEN "advance" ELSE "channel_end"
    BY <1>14 DEF NetEnd
  <2>2. /\ i \in Substreams /\ Len(requests) = 1 /\ Keys = {} /\ Substreams = {i}
        /\ requests[i].trk \in Playable /\ track # NULL
        /\ dlstate = "FILLING_BUSY" /\ pcm \notin {"busy", "send", "drain", "reset"}
        /\ requests[i].off \in Nat /\ requests[i].got \in Nat
    BY <1>7, <2>1
  <2>3. Len(requests') = 0 /\ Substreams' = {} /\ Keys' = {}
    BY <1>4, <2>1, <2>2, RequestAnswered DEF IInv
  <2>4. UNCHANGED <<fifo, lastcmd, dlstate, track, pending, crashed>> /\ net = "idle" /\ errorcount' = 0
    BY <1>14 DEF NetEnd, fifoVars, dlVars
  <2>5. requests[i].got <= SUBSTREAM_SIZE
    <3>1. requests[i].trk \in Track
      BY <2>2, TracksAssumption
    <3> QED
      BY <2>1, <2>2, <3>1, AvailableType
  <2>6. requests[i].off = 0 => requests[i].got = SUBSTREAM_SIZE
    BY <2>1, <2>2, FirstSubstream
  <2>7. ~Fresh(i)
    BY <1>0, <2>2, <2>4, <2>6 DEF Fresh
  <2>8. requests[i].off = 0 => net' = "channel_end"
    BY <1>0, <2>1, <2>6
  <2>9. net' \in {"advance", "channel_end"}
    BY <2>1
  <2>10. OrderInv'
    BY <1>1, <2>2, <2>3, <2>4, <2>9 DEF OrderInv, Closing
  <2>11. ErrorInv' /\ KeyInv' /\ NullInv'
    BY <1>1, <2>2, <2>3, <2>4, <2>9 DEF ErrorInv, KeyInv, NullInv
  <2>12. OffsetInv'
    <3>1. CASE requests[i].got < SUBSTREAM_SIZE
      BY <2>1, <3>1 DEF OffsetInv, Closing
    <3>2. CASE ~(requests[i].got < SUBSTREAM_SIZE)
      <4>1. requests[i].got = SUBSTREAM_SIZE
        BY <1>0, <2>2, <2>5, <3>2
      <4>2. offset' = offset + SUBSTREAM_SIZE /\ offset % SUBSTREAM_SIZE = 0
        BY <2>1, <2>4, <4>1 DEF OffsetInv, Closing
      <4> QED
        BY <1>0, <4>2, WholeSubstream DEF OffsetInv
    <3> QED
      BY <3>1, <3>2
  <2>13. FirstInv'
    <3>1. lastcmd = "START" => requests[i].off = 0 /\ pcm = "spin"
      BY <2>2, <2>7 DEF FirstInv
    <3>2. lastcmd = "START" => net' = "channel_end" /\ pcm = "spin"
      BY <2>8, <3>1
    <3> QED
      BY <1>1, <2>3, <2>4, <2>9, <3>2 DEF FirstInv, Closing
  <2>14. StopInv'
    <3>1. ~EndsInEnd
      BY <2>2, <2>7 DEF StopInv
    <3>2. pcm \in Stopping => net' = "channel_end"
      BY <2>2, <2>8 DEF StopInv
    <3> QED
      BY <1>1, <1>3, <2>2, <2>3, <2>4, <3>1, <3>2 DEF StopInv, Closing
  <2> QED
    BY <2>4, <2>10, <2>11, <2>12, <2>13, <2>14
<1>15. CASE NetAdvance
  <2>1. net = "advance" /\ track # NULL
    BY <1>15 DEF NetAdvance, NullInv
  <2>2. /\ UNCHANGED <<fifo, lastcmd, dlstate, offset, requests, pending, errorcount, crashed>>
        /\ track' = NextPlayable(track) /\ net' = "end_of_track"
    BY <1>15, <2>1 DEF NetAdvance, fifoVars, dlVars
  <2>3. track' \in Playable \union {NULL}
    BY <2>2, NextPlayableType DEF IInv, CountType
  <2>4. /\ Substreams' = {} /\ Len(requests) = 0 /\ pcm \notin Stopping /\ ~dlabort /\ ~EndsInEnd
        /\ dlstate = "FILLING_BUSY" /\ pcm \notin {"busy", "send"} /\ lastcmd # "START"
        /\ api # "key"
    <3>1. pcm \notin Stopping /\ ~EndsInEnd /\ lastcmd # "START" /\ Len(requests) = 0
      BY <2>1 DEF StopInv, FirstInv, OrderInv, Closing
    <3>2. dlstate = "FILLING_BUSY" /\ pcm \notin {"busy", "send"} /\ ~dlabort
      BY <2>1, <3>1 DEF OneInv, BusyInv, AbortInv, Ending, Stopping
    <3>3. api # "key"
      BY <2>1 DEF OneInv, StartInv, Quiet
    <3> QED
      BY <1>2, <1>6, <2>1, <2>2, <3>1, <3>2, <3>3 DEF Ending
  <2>5. OrderInv'
    BY <1>1, <2>2, <2>3, <2>4 DEF OrderInv
  <2>6. ErrorInv' /\ OffsetInv' /\ KeyInv' /\ FirstInv'
    BY <1>0, <1>1, <1>2, <2>1, <2>2, <2>4 DEF ErrorInv, OffsetInv, KeyInv, FirstInv, Closing, Ending
  <2>7. StopInv' /\ NullInv'
    BY <1>1, <1>3, <2>2, <2>4 DEF StopInv, NullInv, Closing
  <2> QED
    BY <2>2, <2>5, <2>6, <2>7
<1>16. CASE NetEndOfTrack
  <2>1. net = "end_of_track" /\ pcm \notin Stopping /\ ~dlabort /\ ~EndsInEnd /\ Len(requests) = 0
        /\ lastcmd # "START"
    <3>1. net = "end_of_track"
      BY <1>16 DEF NetEndOfTrack
    <3>2. pcm \notin Stopping /\ ~EndsInEnd /\ Len(requests) = 0 /\ lastcmd # "START"
      BY <3>1 DEF StopInv, OrderInv, FirstInv, Closing
    <3> QED
      BY <3>1, <3>2 DEF OneInv, AbortInv, Stopping
  <2>2. /\ UNCHANGED <<fifo, lastcmd, offset, track, requests, errorcount, crashed>>
        /\ dlstate' = (IF track = NULL THEN "END_OF_LIST" ELSE dlstate) /\ net' = "append_end"
    BY <1>16, <2>1 DEF NetEndOfTrack, Offer, fifoVars, trackVars
  <2>3. Substreams' = {}
    BY <1>2, <1>6, <2>1, <2>2 DEF Ending
  <2>4. OrderInv'
    BY <1>1, <2>1, <2>2, <2>3 DEF OrderInv, Closing
  <2>5. ErrorInv' /\ OffsetInv' /\ KeyInv' /\ FirstInv'
    BY <1>0, <1>1, <1>2, <2>1, <2>2, <2>3 DEF ErrorInv, OffsetInv, KeyInv, FirstInv, Closing, Ending
  <2>6. StopInv' /\ NullInv'
    BY <1>1, <1>3, <2>1, <2>2 DEF StopInv, NullInv, Closing
  <2> QED
    BY <2>2, <2>4, <2>5, <2>6
<1>17. CASE NetZeroOffset
  <2>1. /\ UNCHANGED <<fifo, lastcmd, dlstate, track, requests, pending, errorcount, crashed>>
        /\ net = "zero_offset" /\ net' = "next_key" /\ offset' = 0
    BY <1>17 DEF NetZeroOffset, fifoVars, dlVars
  <2>2. Substreams' = {} /\ Len(requests) = 0
    BY <1>2, <1>6, <2>1 DEF Ending, OrderInv
  <2>3. OrderInv'
    BY <1>1, <2>1, <2>2 DEF OrderInv, Closing
  <2>4. ErrorInv' /\ OffsetInv' /\ KeyInv' /\ FirstInv'
    BY <1>0, <1>1, <1>2, <2>1, <2>2, ZeroAligned
       DEF ErrorInv, OffsetInv, KeyInv, FirstInv, Closing, Ending
  <2>5. StopInv' /\ NullInv'
    BY <1>1, <1>3, <2>1, <2>2 DEF StopInv, NullInv, Closing
  <2> QED
    BY <2>1, <2>3, <2>4, <2>5
<1>18. CASE NetNextKey
  <2>1. /\ UNCHANGED <<fifo, lastcmd, dlstate, track, offset, pending, errorcount, crashed>>
        /\ net = "next_key" /\ net' = "channel_end" /\ offset = 0
    BY <1>18 DEF NetNextKey, KeyInv, fifoVars, dlVars, trackVars
  <2>2. Substreams = {} /\ Len(requests) = 0
    BY <1>6, <2>1 DEF Ending, OrderInv
  <2>3. Substreams' = {} /\ (track = NULL => Len(requests') = 0)
    <3>1. CASE UNCHANGED requests
      BY <1>2, <2>2, <3>1
    <3>2. CASE track # NULL /\ requests' = Append(requests, KeyRequest(track))
      <4>1. KeyRequest(track) \in Request /\ KeyRequest(track).kind = "key"
        BY <3>2, TracksAssumption DEF IInv, CountType, KeyRequest, Request, NULL, Track
      <4> QED
        BY <2>2, <3>2, <4>1, RequestWritten DEF IInv
    <3> QED
      BY <1>18, <3>1, <3>2 DEF NetNextKey, WriteOk, WriteFails
  <2>4. OrderInv'
    BY <1>1, <2>1, <2>3 DEF OrderInv, Closing
  <2>5. ErrorInv' /\ OffsetInv' /\ KeyInv' /\ FirstInv'
    BY <1>0, <1>1, <2>1, <2>3, ZeroAligned
       DEF ErrorInv, OffsetInv, KeyInv, FirstInv, Closing, Ending
  <2>6. StopInv' /\ NullInv'
    BY <1>1, <1>3, <2>1, <2>3 DEF StopInv, NullInv, Closing
  <2> QED
    BY <2>1, <2>4, <2>5, <2>6
<1>19. CASE NetChannelEnd
  <2>1. /\ UNCHANGED <<fifo, lastcmd, track, offset, requests, pending, errorcount, crashed>>
        /\ net = "channel_end" /\ net' = "idle"
        /\ dlstate' = IF dlabort THEN "DRAINING"
                      ELSE IF dlstate # "END_OF_LIST" THEN "FILLING" ELSE dlstate
    BY <1>19 DEF NetChannelEnd, fifoVars, trackVars
  <2>2. Substreams = {} /\ Substreams' = {} /\ Keys' = Keys /\ errorcount = 0
    BY <1>2, <1>6, <2>1 DEF Ending, ErrorInv
  <2>3. OrderInv'
    BY <1>1, <2>1, <2>2 DEF OrderInv, Closing
  <2>4. ErrorInv' /\ OffsetInv' /\ KeyInv' /\ FirstInv'
    BY <1>0, <1>1, <2>1, <2>2 DEF ErrorInv, OffsetInv, KeyInv, FirstInv, Closing, Ending
  <2>5. StopInv'
    BY <1>1, <1>3, <2>1, <2>2 DEF StopInv, Closing
  <2>6. NullInv'
    BY <1>1, <2>1 DEF NullInv, IInv, LabelType
  <2> QED
    BY <2>1, <2>3, <2>4, <2>5, <2>6
<1> QED
  BY <1>9, <1>10, <1>11, <1>12, <1>13, <1>14, <1>15, <1>16, <1>17, <1>18, <1>19 DEF NetStep

(* The start.                                                               *)
LEMMA SoundInit ==
    ASSUME Init
    PROVE  SoundInv
<1>1. /\ fifo = <<>> /\ requests = <<>> /\ net = "idle" /\ pcm = "idle"
      /\ dlstate = "FILLING" /\ dlabort = FALSE /\ offset = 0 /\ errorcount = 0
      /\ api = "idle" /\ track = NULL
  BY Zenon DEF Init
<1>2. Substreams = {} /\ Keys = {} /\ Len(requests) = 0 /\ ~EndsInEnd
  BY <1>1 DEF Substreams, Keys, EndsInEnd
<1> QED
  BY <1>1, <1>2, ZeroAligned
     DEF SoundInv, OrderInv, ErrorInv, OffsetInv, KeyInv, FirstInv, StopInv, NullInv, Closing,
         Stopping, Ending

(* A step of any thread, or of none.                                        *)
LEMMA SoundStep ==
    ASSUME OneCall, LongTracks, InOrder = TRUE, IInv, OneInv, SoundInv, [Next]_vars
    PROVE  SoundInv' /\ crashed' = crashed
<1>1. CASE UNCHANGED vars
  <2>1. UNCHANGED <<fifo, lastcmd, requests, net, pcm, dlstate, dlabort, offset, errorcount, api,
                    call, track, pending, crashed>>
    BY <1>1 DEF vars, fifoVars, dlVars, trackVars
  <2>2. Substreams' = Substreams /\ Keys' = Keys /\ (EndsInEnd' <=> EndsInEnd)
        /\ \A i : Fresh(i)' <=> Fresh(i)
    BY <2>1 DEF Substreams, Keys, EndsInEnd, Fresh
  <2> QED
    BY <2>1, <2>2 DEF SoundInv, OrderInv, ErrorInv, OffsetInv, KeyInv, FirstInv, StopInv, NullInv
<1> QED
  BY <1>1, SoundApi, SoundPcm, SoundNet DEF Next

(* No thread follows a NULL track or the NULL data of an END, and the offset  *)
(* of every substream is aligned, whatever the server refuses and whatever is *)
(* not written - as long as no playable track is shorter than a substream and *)
(* the server answers in order.  (despotify_snd_read_stream,                  *)
(* despotify_aes_callback, snd_ioctl, the assertion of cmd_getsubstreams.)    *)
THEOREM PlayingNeverCrashes ==
    ASSUME OneCall, LongTracks, InOrder = TRUE
    PROVE  Spec => []NoCrash
<1> DEFINE Inv == IInv /\ OneInv /\ SoundInv /\ NoCrash
<1>1. Init => Inv
  <2> SUFFICES ASSUME Init PROVE Inv
    OBVIOUS
  <2>1. NoCrash
    BY Zenon DEF Init, NoCrash
  <2> QED
    BY <2>1, InitIInv, OneInit, SoundInit
<1>2. Inv /\ [Next]_vars => Inv'
  <2> SUFFICES ASSUME Inv, [Next]_vars PROVE Inv'
    OBVIOUS
  <2>1. IInv' /\ OneInv'
    BY IInvStep, OneStep
  <2>2. SoundInv' /\ crashed' = crashed
    BY SoundStep
  <2>3. NoCrash'
    BY <2>2, Zenon DEF NoCrash
  <2> QED
    BY <2>1, <2>2, <2>3
<1>3. Inv => NoCrash
  OBVIOUS
<1> QED
  BY <1>1, <1>2, <1>3, PTL DEF Spec

-----------------------------------------------------------------------------
(* One call: what is queued is a proper stream *)

(* What was played last, as a buffer before the first one queued.           *)
Heard == [cmd |-> IF heard.trk = NULL THEN "END" ELSE "DATA", trk |-> heard.trk,
          off |-> heard.pos - 1, good |-> TRUE]
HeardOut == heard.trk # NULL /\ heard.pos = Size[heard.trk]

Newest == IF fifo = <<>> THEN Heard ELSE fifo[Len(fifo)]

(* Buffer b goes on with the track of p, or opens one.                      *)
Extends(p, b) ==
    \/ p.cmd = "START" /\ b.cmd = "DATA" /\ b.trk = p.trk /\ b.off = 0 /\ b.good
    \/ p.cmd = "DATA" /\ b.cmd = "DATA" /\ b.trk = p.trk /\ b.off = p.off + 1 /\ b.good = p.good
    \/ p.cmd = "DATA" /\ b.cmd = "END" /\ p.off + 1 = Size[p.trk]
Opens(b) ==
    \/ b.cmd = "START"
    \/ b.cmd = "DATA" /\ KeyMayBeMissing /\ b.off = 0 /\ ~b.good

(* FifoIsStream, and every START names its track.                           *)
QueueInv ==
    /\ fifo # <<>> => \/ Extends(Heard, fifo[1])
                      \/ (heard.trk = NULL \/ HeardOut) /\ Opens(fifo[1])
    /\ \A i \in 2 .. Len(fifo) : \/ Extends(fifo[i - 1], fifo[i])
                                 \/ fifo[i - 1].cmd = "END" /\ Opens(fifo[i])
    /\ \A i \in 1 .. Len(fifo) : fifo[i].cmd = "START" => fifo[i].trk # NULL /\ fifo[i].good

(* The decoder is never at data it cannot read.                             *)
Playing == codec = "open" /\ pcm \notin Stopping \union {"eof", "end_of_playlist"}

PlayInv ==
    /\ Playing /\ fifo # <<>> => fifo[1].cmd = "START" \/ fifo[1].cmd = "END" \/ fifo[1].good
    /\ pcm \in {"decode", "wait"} => codec = "open"
    /\ pcm = "sniff" => codec = "none"

(* Before the first key nothing is known and nothing was heard.             *)
UnheardInv ==
    commands = 0 \/ api # "idle" => heard.trk = NULL /\ aes.trk = NULL /\ codec = "none"

(* How far the current track is fetched, without the packet in the          *)
(* callback's hands; and whether its key is set up.                         *)
Got == IF Substreams = {} THEN 0 ELSE requests[Len(requests)].got
Pos == offset + Got - Held
Keyed == track # NULL /\ aes.trk = track
StartHeld == net = "append" /\ pending.cmd = "START"

Leaving == {"end_of_track", "append_end", "zero_offset"}

(* Everything asked for is of the current track, from the current offset on. *)
AskInv ==
    /\ \A i \in 1 .. Len(requests) : requests[i].trk = track
    /\ \A i \in Substreams : requests[i].off = offset /\ requests[i].got <= Available(track, offset)
    /\ Keys \subseteq {1}
    /\ api = "key" => call.trk = track
    /\ track # NULL /\ net \notin Leaving => offset <= Size[track]

(* The key is never that of a later track, and counts the packets of its own; *)
(* it is missing only where it may be.                                        *)
AesInv ==
    /\ track # NULL => aes.trk <= track
    /\ track # NULL /\ net \in Leaving \union {"next_key"} => aes.trk # track
    /\ Keyed => Keys = {} /\ aes.pos = offset + Got
    /\ api = "idle" /\ track # NULL /\ ~Keyed /\ Keys = {} /\ net \notin Leaving \union {"next_key"} =>
          KeyMayBeMissing

(* The buffer in the callback's hands is the next one of the track.         *)
PendingInv ==
    net = "append" =>
        /\ pending.trk = track /\ Keys = {}
        /\ pending.cmd = "START" => pending.good /\ Keyed
        /\ pending.cmd = "DATA" => pending.off = Pos /\ (pending.good <=> Keyed)

(* After a channel error, or after snd_stop has thrown away buffers of the  *)
(* next track, nothing more is queued.                                      *)
Failed == errorcount = 1 /\ Len(requests) = 0 /\ net = "idle"
Broken ==
    /\ api = "idle" /\ Keys = {} /\ net \in {"idle", "channel_end"}
    /\ \/ pcm = "spin" /\ dlabort
       \/ pcm \in {"drain", "reset"}
       \/ fifo = <<>> /\ Len(requests) = 0 /\ pcm \in {"end_of_playlist", "eof", "idle"}

(* Otherwise the newest buffer and the position fit: the last track is over *)
(* and nothing of this one queued; or it goes on; or its END is due.        *)
NextOff(p) == IF p.cmd = "START" THEN 0 ELSE p.off + 1

Ended == Newest.cmd = "END" \/ (fifo = <<>> /\ HeardOut)
Waits == Ended /\ Pos = 0 /\ (Keyed => StartHeld)
Continues ==
    /\ Newest.cmd \in {"START", "DATA"} /\ Newest.trk = track /\ NextOff(Newest) = Pos
    /\ (Newest.good <=> Keyed) /\ Keys = {} /\ ~StartHeld
AtEnd == Newest.cmd = "DATA" /\ Newest.off + 1 = Size[Newest.trk]

Between == {"idle", "append", "channel_end"}
Linked ==
    /\ net \in Closing => AtEnd
    /\ net = "zero_offset" => Ended
    /\ net = "next_key" => Waits
    /\ net \in Between => Waits \/ Continues

(* A decoder that has read everything waits for more of the same track.     *)
HungryInv == Playing /\ fifo = <<>> => net \in Closing \/ (net \in Between /\ Continues)

FetchInv == AskInv /\ AesInv /\ PendingInv /\ (Broken \/ Linked) /\ HungryInv

StreamInv == QueueInv /\ PlayInv /\ UnheardInv /\ (Failed \/ FetchInv)

-----------------------------------------------------------------------------
(* The queue: snd_ioctl appends, snd_consume_data takes *)

(* A queue that is linked up is a proper stream.                            *)
LEMMA QueueIsStream ==
    ASSUME IInv, QueueInv
    PROVE  FifoIsStream
<1>1. /\ fifo \in Seq(Buffer) /\ Len(fifo) \in Nat
      /\ heard.trk \in 0 .. Tracks /\ heard.pos \in Nat
  BY DEF IInv, FifoInv, HeardType
<1>2. Heard.good = TRUE /\ Heard.trk = heard.trk /\ Heard.off = heard.pos - 1
      /\ Heard.cmd = (IF heard.trk = NULL THEN "END" ELSE "DATA")
  BY DEF Heard
<1> DEFINE P(i) == IF i > 1 THEN fifo[i - 1] ELSE Heard
           Over(i) == P(i).cmd = "END" \/ (i = 1 /\ P(i).cmd = "DATA" /\ P(i).off + 1 = Size[P(i).trk])
<1>3. ASSUME NEW i \in 1 .. Len(fifo)
      PROVE  /\ Extends(P(i), fifo[i]) \/ (Over(i) /\ Opens(fifo[i]))
             /\ fifo[i].cmd \in {"START", "DATA", "END"}
  <2>1. fifo[i].cmd \in {"START", "DATA", "END"}
    <3>1. fifo[i] \in Buffer
      BY <1>1
    <3> QED
      BY <3>1 DEF Buffer
  <2>2. CASE i = 1
    <3>1. fifo # <<>>
      BY <1>1, <2>2
    <3>2. \/ Extends(Heard, fifo[1])
          \/ (heard.trk = NULL \/ HeardOut) /\ Opens(fifo[1])
      BY <3>1 DEF QueueInv
    <3>3. heard.trk = NULL \/ HeardOut => Over(1)
      BY <1>1, <1>2 DEF HeardOut
    <3>4. P(1) = Heard
      OBVIOUS
    <3> HIDE DEF P, Over
    <3> QED
      BY <2>1, <2>2, <3>2, <3>3, <3>4
  <2>3. CASE i # 1
    <3>1. i \in 2 .. Len(fifo) /\ i > 1
      BY <1>1, <2>3
    <3>2. Extends(fifo[i - 1], fifo[i]) \/ (fifo[i - 1].cmd = "END" /\ Opens(fifo[i]))
      BY <3>1 DEF QueueInv
    <3>3. P(i) = fifo[i - 1]
      BY <3>1
    <3> QED
      BY <2>1, <3>2, <3>3
  <2> QED
    BY <2>2, <2>3
<1> SUFFICES ASSUME NEW i \in 1 .. Len(fifo)
             PROVE  LET b == fifo[i]
                        p == P(i)
                        played == i = 1 /\ p.cmd = "DATA" /\ p.off + 1 = Size[p.trk]
                    IN  CASE b.cmd = "START" -> p.cmd = "END" \/ played
                          [] b.cmd = "DATA"  ->
                              \/ p.cmd = "START" /\ p.trk = b.trk /\ b.off = 0 /\ b.good
                              \/ p.cmd = "DATA" /\ p.trk = b.trk /\ b.off = p.off + 1 /\ b.good = p.good
                              \/ KeyMayBeMissing /\ (p.cmd = "END" \/ played) /\ b.off = 0 /\ ~b.good
                          [] b.cmd = "END"   -> p.cmd = "DATA" /\ p.off + 1 = Size[p.trk]
  BY DEF FifoIsStream, Heard
<1> DEFINE b == fifo[i]
           p == P(i)
<1>4. /\ Extends(p, b) \/ (Over(i) /\ Opens(b))
      /\ b.cmd \in {"START", "DATA", "END"}
  BY <1>3
<1> HIDE DEF b, p
<1>5. CASE b.cmd = "START"
  BY <1>4, <1>5 DEF Extends, Opens, p, b
<1>6. CASE b.cmd = "DATA"
  BY <1>4, <1>6 DEF Extends, Opens, p, b
<1>7. CASE b.cmd = "END"
  BY <1>4, <1>7 DEF Extends, Opens, p, b
<1> QED
  BY <1>4, <1>5, <1>6, <1>7 DEF b, p

(* snd_ioctl appends a buffer that goes on with what is there.              *)
LEMMA QueueAppended ==
    ASSUME IInv, QueueInv, NEW b \in Buffer, fifo' = Append(fifo, b),
           UNCHANGED <<heard, play_as_list>>,
           Extends(Newest, b) \/ (Ended /\ Opens(b)),
           b.cmd = "START" => b.trk # NULL /\ b.good
    PROVE  /\ QueueInv' /\ Newest' = b /\ fifo' # <<>>
           /\ IF fifo = <<>> THEN fifo'[1] = b ELSE fifo'[1] = fifo[1]
<1> DEFINE n == Len(fifo)
<1>1. /\ fifo \in Seq(Buffer) /\ n \in Nat /\ Len(fifo') = n + 1 /\ fifo'[n + 1] = b
      /\ \A i \in 1 .. n : fifo'[i] = fifo[i]
  BY DEF IInv, FifoInv
<1>2. fifo' # <<>> /\ (fifo = <<>> <=> n = 0)
  BY <1>1, EmptySeq
<1> HIDE DEF n
<1>3. Newest' = b
  BY <1>1, <1>2 DEF Newest
<1>4. IF fifo = <<>> THEN fifo'[1] = b ELSE fifo'[1] = fifo[1]
  BY <1>1, <1>2
<1>5. /\ Heard' = Heard /\ (HeardOut' <=> HeardOut)
      /\ \A c : Opens(c)' <=> Opens(c)
  BY DEF Heard, HeardOut, Opens, KeyMayBeMissing
<1>6. \/ Extends(Heard, fifo'[1])
      \/ (heard.trk = NULL \/ HeardOut) /\ Opens(fifo'[1])
  <2>1. CASE fifo = <<>>
    <3>1. fifo'[1] = b /\ Newest = Heard /\ (Ended => heard.trk = NULL \/ HeardOut)
      BY <1>4, <2>1 DEF Newest, Ended, Heard
    <3> QED
      BY <3>1
  <2>2. CASE fifo # <<>>
    BY <1>4, <2>2 DEF QueueInv
  <2> QED
    BY <2>1, <2>2
<1>7. ASSUME NEW i \in 2 .. n + 1
      PROVE  Extends(fifo'[i - 1], fifo'[i]) \/ (fifo'[i - 1].cmd = "END" /\ Opens(fifo'[i]))
  <2>1. CASE i = n + 1
    <3>1. n # 0 /\ fifo'[i] = b /\ fifo'[i - 1] = fifo[n] /\ Newest = fifo[n] /\ (Ended => fifo[n].cmd = "END")
      BY <1>1, <1>2, <2>1 DEF Newest, Ended, n
    <3> QED
      BY <3>1
  <2>2. CASE i # n + 1
    <3>1. i \in 2 .. n /\ i - 1 \in 1 .. n /\ i \in 1 .. n
      BY <1>1, <2>2
    <3> QED
      BY <1>1, <3>1 DEF QueueInv, n
  <2> QED
    BY <2>1, <2>2
<1>8. ASSUME NEW i \in 1 .. n + 1, fifo'[i].cmd = "START" PROVE fifo'[i].trk # NULL /\ fifo'[i].good
  <2>1. CASE i = n + 1
    BY <1>1, <1>8, <2>1
  <2>2. CASE i # n + 1
    <3>1. i \in 1 .. n
      BY <1>1, <2>2
    <3> QED
      BY <1>1, <1>8, <3>1 DEF QueueInv, n
  <2> QED
    BY <2>1, <2>2
<1>9. QueueInv'
  BY <1>1, <1>5, <1>6, <1>7, <1>8 DEF QueueInv
<1> QED
  BY <1>2, <1>3, <1>4, <1>9

(* snd_consume_data takes buffers from the front; what it heard last takes  *)
(* their place before the first one left.                                   *)
LEMMA QueueConsumed ==
    ASSUME IInv, QueueInv, PlayInv, PcmConsume
    PROVE  /\ QueueInv' /\ PlayInv'
           /\ fifo' # <<>> => fifo # <<>> /\ Newest' = Newest
           /\ fifo = <<>> => fifo' = <<>> /\ heard' = heard
           /\ fifo # <<>> /\ fifo' = <<>> =>
                 \/ /\ Newest.cmd \in {"START", "DATA"} /\ Newest.good
                    /\ Newest'.cmd = "DATA" /\ Newest'.trk = Newest.trk
                    /\ Newest'.off + 1 = NextOff(Newest) /\ Newest'.good = Newest.good
                 \/ Newest.cmd = "END" /\ HeardOut' /\ pcm' = "stop"
           /\ pcm' = "stop" => Newest.cmd = "END"
<1> DEFINE k == LeadingStarts
           n == Len(fifo)
           r == SubSeq(fifo, k + 1, n)
           now == IF k = 0 THEN heard ELSE [trk |-> fifo[k].trk, pos |-> 0]
           m == k + 1
<1>1. /\ k \in 0 .. n /\ n \in Nat /\ fifo \in Seq(Buffer)
      /\ \A i \in 1 .. k : fifo[i].cmd = "START"
  BY LeadingStartsType DEF IInv, FifoInv
<1>2. /\ UNCHANGED <<codec, play_as_list>> /\ pcm = "decode"
      /\ \/ r = <<>> /\ fifo' = <<>> /\ pcm' = "wait" /\ heard' = now
         \/ /\ r # <<>> /\ Head(r).cmd = "DATA" /\ fifo' = Tail(r) /\ pcm' \in {"fill", "decode"}
            /\ heard' = [now EXCEPT !.pos = @ + 1]
         \/ /\ r # <<>> /\ Head(r).cmd = "END" /\ fifo' = Tail(r)
            /\ pcm' = IF Tail(r) = <<>> THEN "stop" ELSE "eof"
            /\ heard' = now
  BY DEF PcmConsume, trackVars
<1> HIDE DEF k
<1>3. r \in Seq(Buffer) /\ Len(r) = n - k /\ \A i \in 1 .. n - k : r[i] = fifo[k + i]
  BY <1>1, BytesRest
<1>4. k \in {0, 1}
  <2>1. ASSUME k >= 2 PROVE FALSE
    <3>1. 1 \in 1 .. k /\ 2 \in 1 .. k /\ 2 \in 2 .. n
      BY <1>1, <2>1
    <3>2. fifo[1].cmd = "START" /\ fifo[2].cmd = "START"
      BY <1>1, <3>1
    <3>3. Extends(fifo[2 - 1], fifo[2]) \/ fifo[2 - 1].cmd = "END"
      BY <3>1 DEF QueueInv
    <3>4. 2 - 1 = 1
      OBVIOUS
    <3> QED
      BY <3>2, <3>3, <3>4 DEF Extends
  <2> QED
    BY <1>1, <2>1
<1>5. heard \in [trk : 0 .. Tracks, pos : Nat] /\ codec = "open" /\ (fifo # <<>> => Playing)
  BY <1>2 DEF IInv, HeardType, PlayInv, Playing, Stopping
<1>6. \A c : Opens(c)' <=> Opens(c)
  BY <1>2 DEF Opens, KeyMayBeMissing
<1>7. ASSUME k = 1
      PROVE  /\ fifo # <<>> /\ fifo[1].cmd = "START" /\ fifo[1].trk # NULL /\ fifo[1].good
             /\ now = [trk |-> fifo[1].trk, pos |-> 0]
  <2>1. 1 \in 1 .. k /\ 1 \in 1 .. n
    BY <1>1, <1>7
  <2> QED
    BY <1>1, <1>7, <2>1 DEF QueueInv
<1> HIDE DEF r, n, now
<1>8. CASE r = <<>>
  <2>1. n = k /\ fifo' = <<>> /\ pcm' = "wait" /\ heard' = now
    BY <1>1, <1>2, <1>3, <1>8
  <2>2. QueueInv' /\ PlayInv'
    BY <1>2, <1>5, <2>1 DEF QueueInv, PlayInv
  <2>3. CASE k = 0
    BY <1>1, <1>2, <2>1, <2>2, <2>3 DEF n, now
  <2>4. CASE k = 1
    <3>1. Newest = fifo[1] /\ heard' = [trk |-> fifo[1].trk, pos |-> 0] /\ fifo # <<>>
      BY <1>7, <2>1, <2>4 DEF Newest, n
    <3>2. /\ Newest'.cmd = "DATA" /\ Newest'.trk = fifo[1].trk /\ Newest'.off = 0 - 1
          /\ Newest'.good = TRUE
      BY <1>7, <2>1, <2>4, <3>1 DEF Newest, Heard
    <3>3. Newest.cmd = "START" /\ Newest.good = TRUE
      <4>1. 1 \in 1 .. Len(fifo)
        BY <1>1, <2>1, <2>4 DEF n
      <4>2. fifo[1].good \in BOOLEAN
        <5>1. fifo[1] \in Buffer
          BY <1>1, <4>1
        <5> QED
          BY <5>1 DEF Buffer
      <4> QED
        BY <1>7, <2>4, <3>1, <4>2
    <3>4. NextOff(Newest) = 0 /\ Newest'.off + 1 = 0
      BY <3>2, <3>3 DEF NextOff
    <3> QED
      BY <2>1, <2>2, <3>1, <3>2, <3>3, <3>4
  <2> QED
    BY <1>4, <2>3, <2>4
<1>9. CASE r # <<>>
  <2> DEFINE b == fifo[m]
  <2>1. /\ fifo' = Tail(r) /\ Tail(r) \in Seq(Buffer) /\ Len(Tail(r)) = Len(r) - 1
        /\ \A i \in 1 .. Len(Tail(r)) : Tail(r)[i] = r[i + 1]
        /\ Head(r) = r[1] /\ Len(r) \in Nat \ {0}
    BY <1>2, <1>3, <1>9, HeadTailProperties, EmptySeq
  <2>2. m \in 1 .. n /\ Head(r) = b /\ Len(fifo') = n - m /\ b \in Buffer /\ fifo # <<>>
    <3>1. n - k \in Nat \ {0} /\ 1 \in 1 .. n - k
      BY <1>1, <1>3, <2>1
    <3>2. m \in 1 .. n /\ n # 0 /\ Len(fifo') = n - m
      BY <1>1, <1>3, <2>1, <3>1
    <3>3. r[1] = fifo[k + 1]
      BY <1>3, <3>1
    <3> QED
      BY <1>1, <2>1, <3>2, <3>3, EmptySeq DEF n
  <2>3. \A i \in 1 .. n - m : fifo'[i] = fifo[m + i]
    <3> TAKE i \in 1 .. n - m
    <3>1. i \in 1 .. Len(Tail(r)) /\ i + 1 \in 1 .. n - k /\ k + (i + 1) = m + i
      BY <1>1, <2>1, <2>2
    <3> QED
      BY <1>3, <2>1, <3>1
  <2>4. fifo' = <<>> <=> m = n
    <3>1. fifo' \in Seq(Buffer) /\ (Len(fifo') = 0 <=> m = n)
      BY <1>1, <2>1, <2>2
    <3> QED
      BY <3>1, EmptySeq
  <2>5. Newest = fifo[n] /\ (m # n => Newest' = fifo[n])
    <3>1. m # n => n - m \in 1 .. n - m /\ m + (n - m) = n
      BY <1>1, <2>2
    <3> QED
      BY <2>2, <2>3, <2>4, <3>1 DEF Newest, n
  <2>6. fifo # <<>> => IF k = 0 THEN Extends(Heard, b) \/ ((heard.trk = NULL \/ HeardOut) /\ Opens(b))
                       ELSE Extends(fifo[1], b)
    <3>1. CASE k = 0
      BY <3>1 DEF QueueInv
    <3>2. CASE k = 1
      <4>1. m = 2 /\ m \in 2 .. n /\ m - 1 = 1
        BY <1>1, <2>2, <3>2
      <4>2. Extends(fifo[m - 1], fifo[m]) \/ fifo[m - 1].cmd = "END"
        BY <4>1 DEF QueueInv, n
      <4> QED
        BY <1>7, <3>2, <4>1, <4>2
    <3> QED
      BY <1>4, <3>1, <3>2
  <2> HIDE DEF m, b
  <2>7. ASSUME b.cmd = "DATA"
        PROVE  /\ Heard'.cmd = "DATA" /\ Heard'.trk = b.trk /\ Heard'.off = b.off /\ Heard'.good = b.good
               /\ b.good
    <3>1. heard' = [now EXCEPT !.pos = @ + 1]
      BY <1>2, <1>9, <2>2, <2>7
    <3>2. b.good \in BOOLEAN /\ b.off \in Nat
      BY <2>2 DEF Buffer
    <3>3. now.trk # NULL /\ b.trk = now.trk /\ b.off = now.pos /\ b.good
      <4>1. CASE k = 0
        <5>1. b = fifo[1] /\ b.good
          BY <1>5, <2>2, <2>7, <4>1 DEF PlayInv, b, m
        <5>2. Extends(Heard, b)
          BY <2>2, <2>6, <2>7, <4>1, <5>1 DEF Opens
        <5>3. heard.trk # NULL /\ b.trk = heard.trk /\ b.off = (heard.pos - 1) + 1
          BY <2>7, <5>2 DEF Extends, Heard
        <5> QED
          BY <1>5, <4>1, <5>1, <5>3 DEF now
      <4>2. CASE k = 1
        BY <1>7, <2>2, <2>6, <2>7, <4>2 DEF Extends
      <4> QED
        BY <1>4, <4>1, <4>2
    <3>4. now \in [trk : 0 .. Tracks, pos : Nat]
      <4>1. CASE k = 0
        BY <1>5, <4>1 DEF now
      <4>2. CASE k = 1
        <5>1. 1 \in 1 .. Len(fifo)
          BY <1>1, <4>2 DEF n
        <5>2. fifo[1].trk \in 0 .. Tracks
          <6>1. fifo[1] \in Buffer
            BY <1>1, <5>1
          <6> QED
            BY <6>1 DEF Buffer
        <5> QED
          BY <1>7, <4>2, <5>2
      <4> QED
        BY <1>4, <4>1, <4>2
    <3>5. heard'.trk = now.trk /\ heard'.pos = now.pos + 1 /\ now.pos \in Nat
      BY <3>1, <3>4
    <3>6. Heard'.cmd = "DATA" /\ Heard'.trk = b.trk /\ Heard'.off = b.off /\ Heard'.good = TRUE
      BY <3>3, <3>5 DEF Heard
    <3> QED
      BY <3>2, <3>3, <3>6
  <2>8. ASSUME b.cmd = "END" PROVE HeardOut'
    <3>1. heard' = now
      BY <1>2, <1>9, <2>2, <2>8
    <3>2. k = 0 /\ Extends(Heard, b)
      BY <1>4, <1>7, <2>2, <2>6, <2>8 DEF Extends, Opens
    <3>3. heard.trk # NULL /\ (heard.pos - 1) + 1 = Size[heard.trk]
      BY <2>8, <3>2 DEF Extends, Heard
    <3> QED
      BY <1>5, <3>1, <3>2, <3>3 DEF HeardOut, now
  <2>9. b.cmd \in {"DATA", "END"}
    BY <1>2, <1>9, <2>2
  <2>10. ASSUME m # n
         PROVE  /\ fifo'[1] = fifo[m + 1]
                /\ Extends(b, fifo[m + 1]) \/ (b.cmd = "END" /\ Opens(fifo[m + 1]))
    <3>1. 1 \in 1 .. n - m /\ m + 1 \in 2 .. n /\ (m + 1) - 1 = m
      BY <1>1, <2>2, <2>10
    <3>2. Extends(fifo[(m + 1) - 1], fifo[m + 1]) \/ (fifo[(m + 1) - 1].cmd = "END" /\ Opens(fifo[m + 1]))
      BY <3>1 DEF QueueInv, n
    <3> QED
      BY <2>3, <3>1, <3>2 DEF b
  <2>11. QueueInv'
    <3>1. ASSUME fifo' # <<>>
          PROVE  Extends(Heard', fifo'[1]) \/ (HeardOut' /\ Opens(fifo'[1]))
      <4>1. m # n
        BY <2>4, <3>1
      <4>2. CASE b.cmd = "DATA"
        BY <2>7, <2>10, <4>1, <4>2 DEF Extends
      <4>3. CASE b.cmd = "END"
        BY <2>8, <2>10, <4>1, <4>3 DEF Extends
      <4> QED
        BY <2>9, <4>2, <4>3
    <3>2. ASSUME NEW i \in 2 .. Len(fifo')
          PROVE  Extends(fifo'[i - 1], fifo'[i]) \/ (fifo'[i - 1].cmd = "END" /\ Opens(fifo'[i]))
      <4>1. /\ i \in 1 .. n - m /\ i - 1 \in 1 .. n - m
            /\ m + i \in 2 .. n /\ m + (i - 1) = (m + i) - 1
        BY <1>1, <2>2
      <4>2. \/ Extends(fifo[(m + i) - 1], fifo[m + i])
            \/ fifo[(m + i) - 1].cmd = "END" /\ Opens(fifo[m + i])
        BY <4>1 DEF QueueInv, n
      <4> QED
        BY <2>3, <4>1, <4>2
    <3>3. ASSUME NEW i \in 1 .. Len(fifo'), fifo'[i].cmd = "START"
          PROVE  fifo'[i].trk # NULL /\ fifo'[i].good
      <4>1. i \in 1 .. n - m /\ m + i \in 1 .. n
        BY <1>1, <2>2
      <4> QED
        BY <2>3, <3>3, <4>1 DEF QueueInv, n
    <3> QED
      BY <1>6, <3>1, <3>2, <3>3 DEF QueueInv
  <2>12. PlayInv'
    <3>1. CASE b.cmd = "DATA"
      <4>1. pcm' \in {"fill", "decode"}
        BY <1>2, <1>9, <2>2, <3>1
      <4>2. fifo' # <<>> => fifo'[1].cmd = "END" \/ fifo'[1].good
        BY <2>4, <2>7, <2>10, <3>1 DEF Extends
      <4> QED
        BY <1>2, <1>5, <4>1, <4>2 DEF PlayInv
    <3>2. CASE b.cmd = "END"
      BY <1>2, <1>9, <2>2, <3>2 DEF PlayInv, Playing, Stopping
    <3> QED
      BY <2>9, <3>1, <3>2
  <2>13. fifo' = <<>> =>
            \/ /\ Newest.cmd \in {"START", "DATA"} /\ Newest.good
               /\ Newest'.cmd = "DATA" /\ Newest'.trk = Newest.trk
               /\ Newest'.off + 1 = NextOff(Newest) /\ Newest'.good = Newest.good
            \/ Newest.cmd = "END" /\ HeardOut' /\ pcm' = "stop"
    <3> SUFFICES ASSUME fifo' = <<>>
                 PROVE  \/ /\ Newest.cmd \in {"START", "DATA"} /\ Newest.good
                           /\ Newest'.cmd = "DATA" /\ Newest'.trk = Newest.trk
                           /\ Newest'.off + 1 = NextOff(Newest) /\ Newest'.good = Newest.good
                        \/ Newest.cmd = "END" /\ HeardOut' /\ pcm' = "stop"
      OBVIOUS
    <3>1. Newest = b /\ Newest' = Heard'
      BY <2>4, <2>5 DEF Newest, b
    <3>2. CASE b.cmd = "DATA"
      BY <2>7, <3>1, <3>2 DEF NextOff
    <3>3. CASE b.cmd = "END"
      BY <1>2, <1>9, <2>1, <2>2, <2>8, <3>1, <3>3
    <3> QED
      BY <2>9, <3>2, <3>3
  <2>14. pcm' = "stop" => Newest.cmd = "END"
    <3>1. pcm' = "stop" => b.cmd = "END" /\ fifo' = <<>>
      BY <1>2, <1>9, <2>1, <2>2
    <3> QED
      BY <2>4, <2>5, <3>1 DEF b
  <2> QED
    BY <2>2, <2>4, <2>5, <2>11, <2>12, <2>13, <2>14
<1> QED
  BY <1>8, <1>9

-----------------------------------------------------------------------------
(* The steps of the three threads *)

(* What is fetched depends on the network thread and on the requests.       *)
LEMMA SameFetch ==
    ASSUME UNCHANGED <<net, pending, requests, track, offset, aes>>
    PROVE  /\ Substreams' = Substreams /\ Keys' = Keys /\ Held' = Held /\ Got' = Got /\ Pos' = Pos
           /\ Keyed' <=> Keyed
           /\ StartHeld' <=> StartHeld
           /\ PendingInv => PendingInv'
<1>1. Substreams' = Substreams /\ Keys' = Keys /\ Held' = Held
  BY DEF Substreams, Keys, Held
<1>2. Got' = Got
  BY <1>1 DEF Got
<1>3. Pos' = Pos
  BY <1>1, <1>2 DEF Pos
<1>4. (Keyed' <=> Keyed) /\ (StartHeld' <=> StartHeld)
  BY DEF Keyed, StartHeld
<1>5. PendingInv => PendingInv'
  BY <1>1, <1>3, <1>4 DEF PendingInv
<1> QED
  BY <1>1, <1>2, <1>3, <1>4, <1>5

(* What is newest depends on the queue.                                     *)
LEMMA SameQueue ==
    ASSUME UNCHANGED <<fifo, heard>>
    PROVE  /\ Heard' = Heard /\ Newest' = Newest
           /\ Ended' <=> Ended
           /\ AtEnd' <=> AtEnd
           /\ play_as_list' = play_as_list /\ QueueInv => QueueInv'
<1>1. Heard' = Heard /\ (HeardOut' <=> HeardOut)
  BY DEF Heard, HeardOut
<1>2. Newest' = Newest
  BY <1>1 DEF Newest
<1>3. ASSUME play_as_list' = play_as_list, QueueInv PROVE QueueInv'
  <2>1. \A c : Opens(c)' <=> Opens(c)
    BY <1>3 DEF Opens, KeyMayBeMissing
  <2> QED
    BY <1>1, <1>3, <2>1 DEF QueueInv
<1> QED
  BY <1>1, <1>2, <1>3 DEF Ended, AtEnd

(* The caller's steps.                                                      *)
LEMMA StreamApi ==
    ASSUME OneCall, IInv, OneInv, SoundInv, StreamInv, ApiCall \/ ApiStep
    PROVE  StreamInv'
<1>0. /\ api \in {"idle", "notify", "track", "key"}
      /\ Tracks \in Nat
  BY TracksAssumption DEF OneInv, StartInv
<1>1. /\ Quiet
      /\ UNCHANGED <<fifo, heard, net, pending, aes, errorcount, offset, pcm, dlabort, codec>>
      /\ \/ /\ UNCHANGED <<requests, track>> /\ api' \in {"notify", "track"}
         \/ /\ UNCHANGED <<requests, track>> /\ api' = "idle" /\ "write" \in Faults
         \/ UNCHANGED requests /\ api' = "key" /\ track' = call.trk /\ call' = call
         \/ /\ api = "key" /\ api' = "idle" /\ track' = track
            /\ requests' = Append(requests, KeyRequest(call.trk))
  <2>1. CASE ApiCall
    <3>1. commands = 0 /\ ready = FALSE
      BY <2>1 DEF ApiCall, OneInv, StartInv, OneCall, IInv, CountType, FlagType
    <3>2. Quiet
      BY <3>1 DEF OneInv, StartInv
    <3> QED
      BY <2>1, <3>1, <3>2 DEF ApiCall, ApiElse, OneCall, netVars, pcmVars, trackVars
  <2>2. CASE ApiNotify
    <3>1. api = "notify"
      BY <2>2 DEF ApiNotify
    <3>2. Quiet
      BY <3>1 DEF OneInv, StartInv
    <3> QED
      BY <2>2, <3>2 DEF ApiNotify, ApiElse, WriteFails, netVars, pcmVars, trackVars, fifoVars, dlVars
  <2>3. CASE ApiTrack
    <3>1. api = "track"
      BY <2>3 DEF ApiTrack
    <3>2. Quiet
      BY <3>1 DEF OneInv, StartInv
    <3> QED
      BY <2>3, <3>2 DEF ApiTrack, ApiElse, netVars, pcmVars, fifoVars, dlVars
  <2>4. CASE ApiKey
    <3>1. api = "key"
      BY <2>4 DEF ApiKey
    <3>2. Quiet
      BY <3>1 DEF OneInv, StartInv
    <3> QED
      BY <2>4, <3>1, <3>2
      DEF ApiKey, ApiElse, WriteOk, WriteFails, netVars, pcmVars, trackVars, fifoVars, dlVars
  <2>5. CASE ApiStopAbort \/ ApiStopSpin \/ ApiStopDrain \/ ApiStopReset \/ ApiOffset \/ ApiSndNext
             \/ ApiAdvance
    <3>1. api \in {"stop", "spin", "drain", "reset", "offset", "snd_next", "advance"}
      BY <2>5 DEF ApiStopAbort, ApiStopSpin, ApiStopDrain, ApiStopReset, ApiOffset, ApiSndNext,
                  ApiAdvance
    <3> QED
      BY <1>0, <3>1
  <2> QED
    BY <2>1, <2>2, <2>3, <2>4, <2>5 DEF ApiStep
<1>2. heard.trk = NULL /\ aes.trk = NULL /\ codec = "none"
  <2>1. commands = 0 \/ api # "idle"
    <3>1. CASE ApiCall
      BY <3>1 DEF ApiCall, OneInv, StartInv, OneCall, IInv, CountType, FlagType
    <3>2. CASE ApiStep
      BY <3>2 DEF ApiStep, ApiStopAbort, ApiStopSpin, ApiStopDrain, ApiStopReset, ApiOffset,
                  ApiNotify, ApiTrack, ApiKey, ApiSndNext, ApiAdvance
    <3> QED
      BY <3>1, <3>2
  <2> QED
    BY <2>1 DEF StreamInv, UnheardInv
<1>3. /\ fifo' = <<>> /\ net' = "idle" /\ pcm' = "idle" /\ offset' = 0 /\ Len(fifo') = 0
      /\ heard'.trk = NULL /\ aes'.trk = NULL /\ codec' = "none"
      /\ requests = <<>> /\ Len(requests) = 0 /\ Keys = {} /\ Substreams = {}
  BY <1>1, <1>2 DEF Quiet, Keys, Substreams
<1>4. QueueInv' /\ PlayInv' /\ UnheardInv' /\ HungryInv' /\ PendingInv'
  BY <1>3 DEF QueueInv, PlayInv, UnheardInv, HungryInv, PendingInv, Playing
<1>5. ~Keyed' /\ Newest'.cmd = "END"
  BY <1>3 DEF Keyed, Newest, Heard
<1>6. track' \in 0 .. Tracks
  BY <1>0, IInvStep DEF IInv, CountType, Next
<1>7. track' # NULL => 0 <= track' /\ 0 <= Size[track']
  <2> SUFFICES ASSUME track' # NULL PROVE 0 <= track' /\ 0 <= Size[track']
    OBVIOUS
  <2>1. track' \in Track
    BY <1>0, <1>6 DEF Track, NULL
  <2>2. Size[track'] \in Nat
    BY <2>1, SizeAssumption
  <2> QED
    BY <1>0, <1>6, <2>2
<1>8. Substreams' = {} /\ AskInv' /\ (Keys' = {} => api' # "idle" \/ "write" \in Faults)
  <2>1. CASE UNCHANGED requests
    <3>1. Substreams' = {} /\ Keys' = {} /\ Len(requests') = 0
      BY <1>3, <2>1 DEF Substreams, Keys
    <3>2. api' = "key" => call'.trk = track'
      BY <1>1
    <3>3. api' = "idle" => "write" \in Faults
      BY <1>1, <1>3, <2>1
    <3> QED
      BY <1>3, <1>7, <3>1, <3>2, <3>3 DEF AskInv
  <2>2. CASE /\ api = "key" /\ api' = "idle" /\ track' = track
             /\ requests' = Append(requests, KeyRequest(call.trk))
    <3> DEFINE q == KeyRequest(call.trk)
    <3>1. q \in Request /\ q.kind = "key" /\ q.trk = call.trk
      BY <2>2 DEF IInv, CallInv, KeyRequest, Request
    <3> HIDE DEF q
    <3>2. Len(requests') = 1 /\ requests'[1] = q /\ Substreams' = {} /\ Keys' = {1}
      BY <1>3, <2>2, <3>1, RequestWritten DEF IInv, q
    <3>3. call.trk = track
      BY <1>1, <2>2 DEF StreamInv, FetchInv, AskInv, Failed, Quiet
    <3> QED
      BY <1>3, <1>7, <2>2, <3>1, <3>2, <3>3 DEF AskInv
  <2> QED
    BY <1>1, <2>1, <2>2
<1>9. AesInv'
  <2>1. track' # NULL => aes'.trk <= track' /\ aes'.trk # track'
    BY <1>3, <1>7 DEF NULL
  <2>2. ASSUME api' = "idle", Keys' = {} PROVE KeyMayBeMissing'
    <3>1. "write" \in Faults
      BY <1>8, <2>2
    <3> QED
      BY <3>1 DEF KeyMayBeMissing
  <2> QED
    BY <1>5, <2>1, <2>2 DEF AesInv
<1>10. Pos' = 0
  BY <1>3, <1>8 DEF Pos, Got, Held
<1>11. Linked'
  BY <1>3, <1>5, <1>10 DEF Linked, Waits, Ended, Closing, Between
<1> QED
  BY <1>4, <1>8, <1>9, <1>11 DEF StreamInv, FetchInv

(* The PCM thread's steps.                                                  *)
LEMMA StreamPcm ==
    ASSUME OneCall, IInv, OneInv, SoundInv, StreamInv, PcmStep
    PROVE  StreamInv'
<1>1. /\ UNCHANGED <<net, pending, errorcount, aes, api, call, commands, track, offset, play_as_list>>
      /\ pcm # "send" => UNCHANGED requests
      /\ pcm \notin {"decode", "reset"} => UNCHANGED <<fifo, heard>>
  BY DEF PcmStep, PcmEnter, PcmFill, PcmAbortWait, PcmSwitch, PcmBusy, PcmSend,
         PcmCodec, PcmSniff, PcmConsume, PcmWake, PcmEof, PcmStopAbort, PcmStopSpin,
         PcmStopDrain, PcmStopReset, PcmEndOfPlaylist, PcmElse, StopReset,
         fifoVars, trackVars, netVars, apiVars
<1>2. commands # 0 /\ api = "idle"
  <2>1. pcm # "idle" \/ fifo # <<>>
    BY DEF PcmStep, PcmEnter, PcmFill, PcmAbortWait, PcmSwitch, PcmBusy, PcmSend,
           PcmCodec, PcmSniff, PcmConsume, PcmWake, PcmEof, PcmStopAbort, PcmStopSpin,
           PcmStopDrain, PcmStopReset, PcmEndOfPlaylist
  <2> QED
    BY <2>1 DEF OneInv, StartInv, Quiet
<1>3. UnheardInv'
  BY <1>1, <1>2 DEF UnheardInv
<1>4. Failed => Failed'
  <2>1. errorcount = 1 => pcm # "send"
    BY DEF SoundInv, ErrorInv
  <2> QED
    BY <1>1, <2>1 DEF Failed
<1>5. ASSUME UNCHANGED requests
      PROVE  /\ Substreams' = Substreams /\ Keys' = Keys /\ Pos' = Pos
             /\ Keyed' <=> Keyed
             /\ StartHeld' <=> StartHeld
             /\ AskInv => AskInv'
             /\ AesInv => AesInv'
             /\ PendingInv => PendingInv'
  <2>1. /\ Substreams' = Substreams /\ Keys' = Keys /\ Got' = Got /\ Pos' = Pos
        /\ Keyed' <=> Keyed
        /\ StartHeld' <=> StartHeld
        /\ PendingInv => PendingInv'
    BY <1>1, <1>5, SameFetch
  <2>2. AskInv => AskInv'
    BY <1>1, <1>5, <2>1 DEF AskInv
  <2>3. AesInv => AesInv'
    BY <1>1, <2>1 DEF AesInv, KeyMayBeMissing
  <2> QED
    BY <2>1, <2>2, <2>3
<1>6. ASSUME UNCHANGED <<fifo, heard>>, Pos' = Pos, Keys' = Keys, Keyed' <=> Keyed, StartHeld' <=> StartHeld
      PROVE  /\ Newest' = Newest
             /\ Continues' <=> Continues
             /\ QueueInv'
             /\ Linked => Linked'
  <2>1. Newest' = Newest /\ (Ended' <=> Ended) /\ (AtEnd' <=> AtEnd) /\ QueueInv'
    BY <1>1, <1>6, SameQueue DEF StreamInv
  <2>2. Continues' <=> Continues
    BY <1>1, <1>6, <2>1 DEF Continues
  <2>3. Waits' <=> Waits
    BY <1>6, <2>1 DEF Waits
  <2>4. Linked => Linked'
    BY <1>1, <2>1, <2>2, <2>3 DEF Linked
  <2> QED
    BY <2>1, <2>2, <2>4
<1>7. codec \in {"none", "open"} /\ pcm # "abort_wait"
  BY DEF IInv, LabelType, OneInv, AbortInv
<1>8. CASE pcm \notin {"send", "decode", "reset"}
  <2>1. UNCHANGED <<fifo, heard, requests>>
    BY <1>1, <1>8
  <2>2. /\ Pos' = Pos /\ Keys' = Keys /\ (Keyed' <=> Keyed) /\ (StartHeld' <=> StartHeld)
        /\ AskInv => AskInv'
        /\ AesInv => AesInv'
        /\ PendingInv => PendingInv'
    BY <1>5, <2>1
  <2>3. (Continues' <=> Continues) /\ QueueInv' /\ (Linked => Linked')
    BY <1>6, <2>1, <2>2
  <2>4. \/ pcm = "idle" /\ pcm' = "fill" /\ fifo # <<>> /\ UNCHANGED <<codec, dlabort>>
        \/ /\ pcm \in {"fill", "switch", "busy"} /\ UNCHANGED <<codec, dlabort>>
           /\ pcm' \in {"abort_wait", "switch", "busy", "send", "idle", "codec"}
        \/ /\ pcm = "codec" /\ pcm' = (IF codec = "none" THEN "sniff" ELSE "decode")
           /\ UNCHANGED <<codec, dlabort>>
        \/ /\ pcm = "sniff" /\ fifo # <<>> /\ fifo[1].cmd = "START" /\ codec' = "open" /\ pcm' = "decode"
           /\ UNCHANGED dlabort
        \/ pcm = "sniff" /\ pcm' = "idle" /\ UNCHANGED <<codec, dlabort>>
        \/ pcm = "wait" /\ pcm' \in {"eof", "decode"} /\ UNCHANGED <<codec, dlabort>>
        \/ pcm = "eof" /\ pcm' = "idle" /\ codec' = "none" /\ UNCHANGED dlabort
        \/ pcm = "stop" /\ pcm' = "spin" /\ UNCHANGED codec
        \/ pcm = "spin" /\ pcm' = "drain" /\ UNCHANGED <<codec, dlabort>>
        \/ pcm = "drain" /\ pcm' = "reset" /\ UNCHANGED <<codec, dlabort>>
        \/ pcm = "end_of_playlist" /\ pcm' = "eof" /\ UNCHANGED <<codec, dlabort>>
    <3>1. CASE PcmEnter \/ PcmFill \/ PcmCodec \/ PcmWake \/ PcmEof \/ PcmEndOfPlaylist
      BY <3>1 DEF PcmEnter, PcmFill, PcmCodec, PcmWake, PcmEof, PcmEndOfPlaylist, dlVars
    <3>2. CASE PcmSwitch \/ PcmBusy
      BY <3>2 DEF PcmSwitch, PcmBusy, AfterFill
    <3>3. CASE PcmSniff
      <4>1. Len(fifo) >= 2
        BY <3>3 DEF PcmSniff
      <4>2. fifo # <<>>
        BY <4>1
      <4> QED
        BY <3>3, <4>2 DEF PcmSniff, dlVars
    <3>4. CASE PcmStopAbort \/ PcmStopSpin \/ PcmStopDrain
      BY <3>4 DEF PcmStopAbort, PcmStopSpin, PcmStopDrain, dlVars
    <3>5. CASE PcmAbortWait \/ PcmSend \/ PcmConsume \/ PcmStopReset
      BY <1>7, <1>8, <3>5 DEF PcmAbortWait, PcmSend, PcmConsume, PcmStopReset
    <3> QED
      BY <3>1, <3>2, <3>3, <3>4, <3>5 DEF PcmStep
  <2>5. Playing' => Playing \/ (fifo # <<>> /\ fifo[1].cmd = "START")
    BY <1>7, <2>4 DEF Playing, Stopping
  <2>6. PlayInv'
    BY <1>7, <2>1, <2>4, <2>5 DEF StreamInv, PlayInv
  <2>7. HungryInv => HungryInv'
    BY <1>1, <2>1, <2>3, <2>5 DEF HungryInv
  <2>8. Broken => Broken'
    BY <1>1, <2>1, <2>2, <2>4 DEF Broken
  <2> QED
    BY <1>3, <1>4, <2>2, <2>3, <2>6, <2>7, <2>8 DEF StreamInv, FetchInv
<1>9. CASE pcm = "send"
  <2>1. PcmSend
    BY <1>9 DEF PcmStep, PcmEnter, PcmFill, PcmAbortWait, PcmSwitch, PcmBusy,
           PcmCodec, PcmSniff, PcmConsume, PcmWake, PcmEof, PcmStopAbort, PcmStopSpin,
           PcmStopDrain, PcmStopReset, PcmEndOfPlaylist
  <2>2. /\ track # NULL /\ net \notin Ending /\ Substreams = {} /\ errorcount = 0
        /\ track \in Track /\ offset \in Nat /\ offset % SUBSTREAM_SIZE = 0
    <3>1. track # NULL /\ track \in Track
      BY <1>9, TracksAssumption DEF SoundInv, NullInv, OrderInv
    <3>2. net \notin Ending /\ Substreams = {}
      BY <1>9, <3>1 DEF OneInv, BusyInv
    <3>3. errorcount = 0 /\ offset % SUBSTREAM_SIZE = 0
      BY <1>9, <3>2 DEF SoundInv, ErrorInv, OffsetInv, Closing, Ending
    <3> QED
      BY <3>1, <3>2, <3>3 DEF IInv, CountType
  <2>3. /\ UNCHANGED <<fifo, heard, codec>> /\ pcm' \in {"idle", "codec"}
        /\ UNCHANGED requests \/ requests' = Append(requests, SubstreamRequest(track, offset))
    BY <2>1, <2>2 DEF PcmSend, WriteOk, WriteFails, AfterFill, fifoVars
  <2>4. QueueInv /\ PlayInv /\ AskInv /\ AesInv /\ PendingInv /\ Linked /\ HungryInv
    BY <1>9, <2>2 DEF StreamInv, Failed, FetchInv, Broken
  <2>5. /\ Pos' = Pos /\ Keys' = Keys /\ (Keyed' <=> Keyed) /\ (StartHeld' <=> StartHeld)
        /\ AskInv' /\ AesInv' /\ PendingInv'
    <3>1. CASE UNCHANGED requests
      BY <1>5, <2>4, <3>1
    <3>2. CASE requests' = Append(requests, SubstreamRequest(track, offset))
      <4> DEFINE r == SubstreamRequest(track, offset)
                 n == Len(requests) + 1
      <4>1. r \in Request /\ r.kind = "substream" /\ r.got = 0 /\ r.off = offset /\ r.trk = track
        BY <2>2 DEF SubstreamRequest, Request
      <4> HIDE DEF r, n
      <4>2. /\ Len(requests') = n /\ requests'[n] = r /\ Substreams' = {n} /\ Keys' = Keys
            /\ \A i \in 1 .. Len(requests) : requests'[i] = requests[i]
            /\ n = Len(requests) + 1 /\ Len(requests) \in Nat
        BY <2>2, <3>2, <4>1, RequestWritten DEF IInv, QueueType, r, n
      <4>3. Got = 0 /\ Got' = 0 /\ Held' = Held
        BY <1>1, <2>2, <4>1, <4>2 DEF Got, Held
      <4>4. Pos' = Pos /\ (Keyed' <=> Keyed) /\ (StartHeld' <=> StartHeld)
        BY <1>1, <4>3 DEF Pos, Keyed, StartHeld
      <4>5. AskInv'
        <5>1. \A i \in 1 .. Len(requests') : requests'[i].trk = track
          <6> TAKE i \in 1 .. Len(requests')
          <6>1. i = n \/ i \in 1 .. Len(requests)
            BY <4>2
          <6> QED
            BY <2>4, <4>1, <4>2, <6>1 DEF AskInv
        <5>2. 0 <= Available(track, offset)
          BY <2>2, AvailableType
        <5>3. \A i \in Substreams' : requests'[i].off = offset /\ requests'[i].got <= Available(track, offset)
          BY <4>1, <4>2, <5>2
        <5> QED
          BY <1>1, <2>4, <4>2, <5>1, <5>3 DEF AskInv
      <4>6. AesInv'
        BY <1>1, <2>4, <4>2, <4>3, <4>4 DEF AesInv, KeyMayBeMissing
      <4>7. PendingInv'
        BY <1>1, <2>4, <4>2, <4>4 DEF PendingInv
      <4> QED
        BY <4>2, <4>4, <4>5, <4>6, <4>7
    <3> QED
      BY <2>3, <3>1, <3>2
  <2>6. (Continues' <=> Continues) /\ QueueInv' /\ Linked'
    BY <1>6, <2>3, <2>4, <2>5
  <2>7. Playing' => Playing
    BY <1>9, <2>3 DEF Playing, Stopping
  <2>8. PlayInv' /\ HungryInv'
    BY <1>1, <2>3, <2>4, <2>6, <2>7 DEF PlayInv, HungryInv
  <2> QED
    BY <1>3, <2>5, <2>6, <2>8 DEF StreamInv, FetchInv
<1>10. CASE pcm = "decode"
  <2>1. PcmConsume
    BY <1>10 DEF PcmStep, PcmEnter, PcmFill, PcmAbortWait, PcmSwitch, PcmBusy, PcmSend,
           PcmCodec, PcmSniff, PcmWake, PcmEof, PcmStopAbort, PcmStopSpin,
           PcmStopDrain, PcmStopReset, PcmEndOfPlaylist
  <2>2. /\ QueueInv' /\ PlayInv'
        /\ fifo' # <<>> => fifo # <<>> /\ Newest' = Newest
        /\ fifo = <<>> => fifo' = <<>> /\ heard' = heard
        /\ fifo # <<>> /\ fifo' = <<>> =>
              \/ /\ Newest.cmd \in {"START", "DATA"} /\ Newest.good
                 /\ Newest'.cmd = "DATA" /\ Newest'.trk = Newest.trk
                 /\ Newest'.off + 1 = NextOff(Newest) /\ Newest'.good = Newest.good
              \/ Newest.cmd = "END" /\ HeardOut' /\ pcm' = "stop"
    BY <2>1, QueueConsumed DEF StreamInv
  <2>3. /\ Pos' = Pos /\ Keys' = Keys /\ (Keyed' <=> Keyed) /\ (StartHeld' <=> StartHeld)
        /\ AskInv => AskInv'
        /\ AesInv => AesInv'
        /\ PendingInv => PendingInv'
    BY <1>1, <1>5, <1>10
  <2>4. ASSUME FetchInv PROVE Linked' /\ HungryInv'
    <3>1. Linked
      BY <1>10, <2>4 DEF FetchInv, Broken
    <3>2. CASE fifo = <<>>
      <4>1. fifo' = <<>> /\ heard' = heard /\ Playing
        BY <1>10, <2>2, <3>2 DEF StreamInv, PlayInv, Playing, Stopping
      <4>2. (Continues' <=> Continues) /\ Linked'
        BY <1>6, <2>3, <3>1, <3>2, <4>1
      <4> QED
        BY <1>1, <2>4, <3>2, <4>1, <4>2 DEF FetchInv, HungryInv
    <3>3. CASE fifo' # <<>>
      <4>1. Newest' = Newest /\ fifo # <<>>
        BY <2>2, <3>3
      <4>2. (Ended' <=> Ended) /\ (AtEnd' <=> AtEnd)
        BY <3>3, <4>1 DEF Ended, AtEnd
      <4>3. (Continues' <=> Continues) /\ (Waits' <=> Waits)
        BY <1>1, <2>3, <4>1, <4>2 DEF Continues, Waits
      <4> QED
        BY <1>1, <3>1, <3>3, <4>2, <4>3 DEF Linked, HungryInv
    <3>4. CASE /\ fifo # <<>> /\ fifo' = <<>>
               /\ Newest.cmd \in {"START", "DATA"} /\ Newest.good
               /\ Newest'.cmd = "DATA" /\ Newest'.trk = Newest.trk
               /\ Newest'.off + 1 = NextOff(Newest) /\ Newest'.good = Newest.good
      <4>1. ~Ended
        BY <3>4 DEF Ended
      <4>2. net \in Closing \/ (net \in Between /\ Continues)
        BY <3>1, <4>1 DEF Linked, Waits, Closing, Between, IInv, LabelType
      <4>3. AtEnd => AtEnd'
        BY <3>4 DEF AtEnd, NextOff
      <4>4. NextOff(Newest') = NextOff(Newest)
        BY <3>4 DEF NextOff
      <4>5. Continues => Continues'
        BY <1>1, <2>3, <3>4, <4>4 DEF Continues, NextOff
      <4>6. net' = net /\ net \notin {"zero_offset", "next_key"}
        BY <1>1, <4>2 DEF Closing, Between
      <4>7. Linked'
        BY <3>1, <4>2, <4>3, <4>5, <4>6 DEF Linked, Closing, Between
      <4> QED
        BY <4>2, <4>5, <4>6, <4>7 DEF HungryInv
    <3>5. CASE fifo # <<>> /\ fifo' = <<>> /\ Newest.cmd = "END" /\ HeardOut' /\ pcm' = "stop"
      <4>1. Ended /\ Ended' /\ ~AtEnd /\ ~Continues /\ ~Playing'
        BY <3>5 DEF Ended, AtEnd, Continues, Playing, Stopping
      <4>2. Waits => Waits'
        BY <2>3, <4>1 DEF Waits
      <4> QED
        BY <1>1, <3>1, <4>1, <4>2 DEF Linked, HungryInv
    <3> QED
      BY <2>2, <3>2, <3>3, <3>4, <3>5
  <2> QED
    BY <1>3, <1>4, <2>2, <2>3, <2>4 DEF StreamInv, FetchInv
<1>11. CASE pcm = "reset"
  <2>1. PcmStopReset
    BY <1>11 DEF PcmStep, PcmEnter, PcmFill, PcmAbortWait, PcmSwitch, PcmBusy, PcmSend,
           PcmCodec, PcmSniff, PcmConsume, PcmWake, PcmEof, PcmStopAbort, PcmStopSpin,
           PcmStopDrain, PcmEndOfPlaylist
  <2>2. fifo' = <<>> /\ pcm' = "end_of_playlist" /\ codec' = "none" /\ UNCHANGED <<heard, requests>>
    BY <2>1 DEF PcmStopReset, StopReset
  <2>3. /\ Substreams' = Substreams /\ Keys' = Keys /\ Pos' = Pos
        /\ (Keyed' <=> Keyed) /\ (StartHeld' <=> StartHeld)
        /\ AskInv => AskInv'
        /\ AesInv => AesInv'
        /\ PendingInv => PendingInv'
    BY <1>5, <2>2
  <2>4. PlayInv' /\ HungryInv'
    BY <2>2 DEF PlayInv, HungryInv, Playing
  <2>5. QueueInv'
    <3>1. Len(fifo') = 0
      BY <2>2
    <3> QED
      BY <2>2, <3>1 DEF QueueInv
  <2>6. Substreams = {} /\ net \notin Closing /\ ~EndsInEnd
    BY <1>11 DEF OneInv, AbortInv, BusyInv, SoundInv, StopInv, Stopping
  <2>7. Keys = {} => Len(requests) = 0
    <3> SUFFICES ASSUME Keys = {}, Len(requests) # 0 PROVE FALSE
      OBVIOUS
    <3>1. Len(requests) \in 1 .. Len(requests) /\ requests[Len(requests)] \in Request
      BY DEF IInv, QueueType
    <3>2. requests[Len(requests)].kind \in {"key", "substream"}
      BY <3>1 DEF Request
    <3> QED
      BY <2>6, <3>1, <3>2 DEF Keys, Substreams
  <2>8. ASSUME FetchInv PROVE (Broken \/ Linked)'
    <3>1. CASE Keys = {} /\ net \in {"idle", "channel_end"}
      BY <1>1, <1>2, <2>2, <2>3, <2>7, <3>1 DEF Broken
    <3>2. CASE ~(Keys = {} /\ net \in {"idle", "channel_end"})
      <4>1. Linked
        BY <2>8, <3>2 DEF FetchInv, Broken
      <4>2. CASE fifo = <<>>
        BY <1>6, <2>2, <2>3, <4>1, <4>2
      <4>3. CASE fifo # <<>>
        <5>1. ~Ended
          BY <2>6, <4>3 DEF Ended, Newest, EndsInEnd
        <5>2. net \in Between /\ Continues
          BY <2>6, <4>1, <5>1 DEF Linked, Waits, Closing, Between, IInv, LabelType
        <5>3. Keys = {} /\ ~StartHeld
          BY <5>2 DEF Continues
        <5>4. net = "append" => pending.cmd = "DATA"
          BY <5>3 DEF StartHeld, SoundInv, OrderInv
        <5>5. net # "append"
          BY <2>6, <5>4 DEF Held, OneInv, RoomInv
        <5> QED
          BY <3>2, <5>2, <5>3, <5>5 DEF Between
      <4> QED
        BY <4>2, <4>3
    <3> QED
      BY <3>1, <3>2
  <2> QED
    BY <1>3, <1>4, <2>3, <2>4, <2>5, <2>8 DEF StreamInv, FetchInv
<1> QED
  BY <1>8, <1>9, <1>10, <1>11

(* The next playable track is a later one.                                  *)
LEMMA NextPlayableLater ==
    ASSUME NEW t \in 0 .. Tracks, NextPlayable(t) # NULL
    PROVE  NextPlayable(t) > t
<1> DEFINE after == {n \in Playable : n > t}
<1>1. after \in SUBSET Nat
  <2>1. \A n \in Playable : n \in Nat
    BY TracksAssumption DEF Track
  <2>2. \A n \in after : n \in Playable
    OBVIOUS
  <2> QED
    BY <2>1, <2>2
<1>2. after # {}
  BY DEF NextPlayable
<1>3. \A n \in after : n > t
  OBVIOUS
<1>4. NextPlayable(t) = CHOOSE n \in after : \A m \in after : n <= m
  BY <1>2 DEF NextPlayable
<1> HIDE DEF after
<1>5. \E m \in after : \A k \in after : m <= k
  BY <1>1, <1>2, LeastNat
<1>6. NextPlayable(t) \in after
  BY <1>4, <1>5
<1> QED
  BY <1>3, <1>6

(* What every step of the network thread leaves alone, and where it starts. *)
LEMMA NetFrame ==
    ASSUME InOrder = TRUE, OneInv, StreamInv, NetStep
    PROVE  /\ UNCHANGED <<pcm, api, call, commands, dlabort, heard, codec, play_as_list>>
           /\ api = "idle" /\ FetchInv /\ UnheardInv'
           /\ UNCHANGED fifo => PlayInv'
<1>1. UNCHANGED <<pcm, api, call, commands, dlabort, heard, codec, play_as_list>>
  BY DEF NetStep, NetKey, NetKeyError, NetData, NetError, NetAppend, NetEnd,
         NetAdvance, NetEndOfTrack, NetZeroOffset, NetNextKey, NetChannelEnd, NetElse,
         fifoVars, dlVars, apiVars, trackVars
<1>2. net # "idle" \/ \E i \in Answerable : TRUE
  BY DEF NetStep, NetKey, NetKeyError, NetData, NetError, NetAppend, NetEnd,
         NetAdvance, NetEndOfTrack, NetZeroOffset, NetNextKey, NetChannelEnd
<1>3. Len(requests) = 0 => ~ \E i \in Answerable : TRUE
  BY DEF Answerable
<1>4. ~Quiet /\ ~Failed
  <2>1. requests = <<>> => Len(requests) = 0
    OBVIOUS
  <2> QED
    BY <1>2, <1>3, <2>1 DEF Quiet, Failed
<1>5. commands # 0 /\ api = "idle"
  BY <1>4 DEF OneInv, StartInv
<1>6. UnheardInv'
  BY <1>1, <1>5 DEF UnheardInv
<1>7. UNCHANGED fifo => PlayInv'
  BY <1>1 DEF StreamInv, PlayInv, Playing
<1> QED
  BY <1>1, <1>4, <1>5, <1>6, <1>7 DEF StreamInv

(* The network thread's steps between packets.                              *)
LEMMA StreamLocal ==
    ASSUME OneCall, InOrder = TRUE, IInv, OneInv, SoundInv, StreamInv,
           NetAdvance \/ NetEndOfTrack \/ NetZeroOffset \/ NetNextKey \/ NetChannelEnd
    PROVE  StreamInv'
<1>1. /\ UNCHANGED <<pcm, api, call, commands, dlabort, heard, codec, play_as_list>>
      /\ api = "idle" /\ FetchInv /\ UnheardInv' /\ UNCHANGED <<fifo, aes>>
  BY NetFrame
  DEF NetStep, NetAdvance, NetEndOfTrack, NetZeroOffset, NetNextKey, NetChannelEnd, fifoVars
<1>2. PlayInv'
  BY <1>1, NetFrame DEF NetStep
<1>3. Newest' = Newest /\ (Ended' <=> Ended) /\ (AtEnd' <=> AtEnd) /\ QueueInv'
  BY <1>1, SameQueue DEF StreamInv
<1>4. QueueInv' /\ PlayInv' /\ UnheardInv'
  BY <1>1, <1>2, <1>3
<1>5. Len(requests) = 0 => Substreams = {} /\ Keys = {} /\ Got = 0
  BY DEF Substreams, Keys, Got
<1>6. ASSUME UNCHANGED requests
      PROVE Substreams' = Substreams /\ Keys' = Keys /\ Got' = Got
  BY <1>6 DEF Substreams, Keys, Got
<1>7. HungryInv /\ net \in {"zero_offset", "next_key"} => ~(Playing /\ fifo = <<>>)
  BY DEF HungryInv, Closing, Between
<1>8. Playing' => Playing
  BY <1>1 DEF Playing
<1>9. CASE NetAdvance
  <2>1. /\ net = "advance" /\ net' = "end_of_track" /\ track # NULL /\ track' = NextPlayable(track)
        /\ UNCHANGED <<requests, offset>>
    BY <1>9 DEF NetAdvance, SoundInv, NullInv
  <2>2. Len(requests) = 0 /\ Len(requests') = 0
    BY <2>1 DEF SoundInv, OrderInv, Closing
  <2>3. Substreams' = {} /\ Keys' = {}
    BY <1>5, <1>6, <2>1, <2>2
  <2>4. track' # NULL => aes.trk <= track' /\ aes.trk # track'
    <3> SUFFICES ASSUME track' # NULL PROVE aes.trk <= track' /\ aes.trk # track'
      OBVIOUS
    <3>1. track \in 0 .. Tracks /\ aes.trk \in 0 .. Tracks /\ Tracks \in Nat
      BY TracksAssumption DEF IInv, CountType, QueueType
    <3>2. track' \in 0 .. Tracks /\ track' > track
      BY <2>1, <3>1, NextPlayableType, NextPlayableLater
    <3>3. aes.trk <= track
      BY <1>1, <2>1 DEF FetchInv, AesInv
    <3> QED
      BY <3>1, <3>2, <3>3
  <2>5. AskInv'
    BY <1>1, <2>1, <2>2, <2>3 DEF AskInv, Leaving
  <2>6. AesInv'
    BY <1>1, <2>1, <2>3, <2>4 DEF AesInv, Keyed, Leaving
  <2>7. PendingInv'
    BY <2>1 DEF PendingInv
  <2>8. Linked' /\ HungryInv'
    BY <1>1, <1>3, <2>1 DEF Linked, HungryInv, Closing, Between, FetchInv, Broken
  <2> QED
    BY <1>4, <2>5, <2>6, <2>7, <2>8 DEF StreamInv, FetchInv
<1>10. CASE NetEndOfTrack
  <2>1. net = "end_of_track" /\ ~dlabort
    <3>1. net = "end_of_track"
      BY <1>10 DEF NetEndOfTrack
    <3> QED
      BY <3>1 DEF OneInv, AbortInv, SoundInv, StopInv, Stopping, Closing
  <2>2. net' = "append_end" /\ UNCHANGED <<requests, offset, track>>
    BY <1>10, <2>1 DEF NetEndOfTrack, Offer, trackVars
  <2>3. Substreams' = Substreams /\ Keys' = Keys /\ Got' = Got /\ (Keyed' <=> Keyed)
    BY <1>1, <1>6, <2>2 DEF Keyed
  <2>4. AskInv'
    BY <1>1, <2>1, <2>2, <2>3 DEF FetchInv, AskInv, Leaving
  <2>5. AesInv'
    BY <1>1, <2>1, <2>2, <2>3 DEF FetchInv, AesInv, Leaving
  <2>6. PendingInv'
    BY <2>2 DEF PendingInv
  <2>7. Linked' /\ HungryInv'
    BY <1>1, <1>3, <2>1, <2>2 DEF Linked, HungryInv, Closing, Between, FetchInv, Broken
  <2> QED
    BY <1>4, <2>4, <2>5, <2>6, <2>7 DEF StreamInv, FetchInv
<1>11. CASE NetZeroOffset
  <2>1. net = "zero_offset" /\ net' = "next_key" /\ offset' = 0 /\ UNCHANGED <<requests, track, pending>>
    BY <1>11 DEF NetZeroOffset
  <2>2. Len(requests) = 0 /\ Len(requests') = 0
    BY <2>1 DEF SoundInv, OrderInv
  <2>3. Substreams' = {} /\ Keys' = {} /\ Got' = 0
    BY <1>5, <1>6, <2>1, <2>2
  <2>4. Pos' = 0
    BY <2>1, <2>3 DEF Pos, Held
  <2>5. track' # NULL => aes'.trk <= track' /\ aes'.trk # track'
    BY <1>1, <2>1 DEF FetchInv, AesInv, Leaving
  <2>6. ~Keyed'
    BY <2>5 DEF Keyed
  <2>7. AskInv'
    <3>1. track' # NULL => offset' <= Size[track']
      <4> SUFFICES ASSUME track # NULL PROVE 0 <= Size[track]
        BY <2>1
      <4>1. track \in Track
        BY TracksAssumption DEF IInv, CountType, Track, NULL
      <4>2. Size[track] \in Nat
        BY <4>1, SizeAssumption
      <4> QED
        BY <4>2
    <3> QED
      BY <1>1, <2>2, <2>3, <3>1 DEF AskInv
  <2>8. AesInv'
    BY <1>1, <2>1, <2>5, <2>6 DEF AesInv
  <2>9. PendingInv' /\ HungryInv'
    BY <1>1, <1>7, <1>8, <2>1 DEF PendingInv, HungryInv, FetchInv
  <2>10. Linked'
    BY <1>1, <1>3, <2>1, <2>4, <2>6 DEF Linked, Waits, Closing, Between, FetchInv, Broken
  <2> QED
    BY <1>4, <2>7, <2>8, <2>9, <2>10 DEF StreamInv, FetchInv
<1>12. CASE NetNextKey
  <2>1. net = "next_key" /\ net' = "channel_end" /\ UNCHANGED <<track, offset, pending>>
    BY <1>12 DEF NetNextKey, trackVars
  <2>2. Len(requests) = 0 /\ Substreams = {} /\ Keys = {} /\ Got = 0
    BY <1>5, <2>1 DEF SoundInv, OrderInv
  <2>3. Waits /\ ~Keyed
    BY <1>1, <2>1 DEF FetchInv, Broken, Linked, AesInv, Keyed
  <2>4. /\ \A i \in 1 .. Len(requests') : requests'[i].trk = track
        /\ Substreams' = {} /\ Keys' \subseteq {1}
        /\ track # NULL /\ Keys' = {} => KeyMayBeMissing
    <3>1. CASE track # NULL /\ requests' = Append(requests, KeyRequest(track))
      <4> DEFINE r == KeyRequest(track)
      <4>1. r \in Request /\ r.kind = "key" /\ r.trk = track
        BY <3>1, TracksAssumption DEF IInv, CountType, KeyRequest, Request, NULL, Track
      <4> HIDE DEF r
      <4>2. Len(requests') = 1 /\ requests'[1] = r /\ Substreams' = {} /\ Keys' = {1}
        BY <2>2, <3>1, <4>1, RequestWritten DEF IInv, r
      <4>3. \A i \in 1 .. 1 : i = 1
        OBVIOUS
      <4> QED
        BY <4>1, <4>2, <4>3
    <3>2. CASE UNCHANGED requests /\ (track = NULL \/ ~play_as_list \/ "write" \in Faults)
      <4>1. Substreams' = {} /\ Keys' = {} /\ Len(requests') = 0
        BY <1>6, <2>2, <3>2
      <4>2. track # NULL => KeyMayBeMissing
        <5>1. CASE "write" \in Faults
          BY <5>1 DEF KeyMayBeMissing
        <5>2. CASE track = NULL \/ ~play_as_list
          BY <5>2 DEF KeyMayBeMissing
        <5> QED
          BY <3>2, <5>1, <5>2
      <4> QED
        BY <4>1, <4>2
    <3> QED
      BY <1>12, <3>1, <3>2 DEF NetNextKey, WriteOk, WriteFails
  <2>5. AskInv'
    BY <1>1, <2>1, <2>4 DEF FetchInv, AskInv, Leaving
  <2>6. ~Keyed' /\ Pos' = Pos
    BY <1>1, <2>1, <2>2, <2>3, <2>4 DEF Keyed, Pos, Got, Held
  <2>7. AesInv'
    BY <1>1, <2>1, <2>4, <2>6 DEF FetchInv, AesInv, Leaving, KeyMayBeMissing
  <2>8. PendingInv' /\ HungryInv'
    BY <1>1, <1>7, <1>8, <2>1 DEF PendingInv, HungryInv, FetchInv
  <2>9. Linked'
    BY <1>3, <2>1, <2>3, <2>6 DEF Linked, Waits, Closing, Between
  <2> QED
    BY <1>4, <2>5, <2>7, <2>8, <2>9 DEF StreamInv, FetchInv
<1>13. CASE NetChannelEnd
  <2>1. net = "channel_end" /\ net' = "idle" /\ UNCHANGED <<track, offset, requests, pending>>
    BY <1>13 DEF NetChannelEnd, trackVars
  <2>2. Substreams' = Substreams /\ Keys' = Keys /\ Got' = Got /\ (Keyed' <=> Keyed)
    BY <1>1, <1>6, <2>1 DEF Keyed
  <2>3. Pos' = Pos /\ ~StartHeld /\ ~StartHeld'
    BY <2>1, <2>2 DEF Pos, Held, StartHeld
  <2>4. AskInv'
    BY <1>1, <2>1, <2>2 DEF FetchInv, AskInv, Leaving
  <2>5. AesInv'
    BY <1>1, <2>1, <2>2 DEF FetchInv, AesInv, Leaving, KeyMayBeMissing
  <2>6. PendingInv'
    BY <2>1 DEF PendingInv
  <2>7. (Waits' <=> Waits) /\ (Continues' <=> Continues)
    BY <1>3, <2>1, <2>2, <2>3 DEF Waits, Continues
  <2>8. HungryInv'
    BY <1>1, <1>8, <2>1, <2>7 DEF FetchInv, HungryInv, Between, Closing
  <2>9. (Broken \/ Linked)'
    BY <1>1, <2>1, <2>2, <2>7 DEF FetchInv, Broken, Linked, Between, Closing
  <2> QED
    BY <1>4, <2>4, <2>5, <2>6, <2>8, <2>9 DEF StreamInv, FetchInv
<1> QED
  BY <1>9, <1>10, <1>11, <1>12, <1>13

(* snd_ioctl queues the buffer in the callback's hands.                     *)
LEMMA StreamAppend ==
    ASSUME OneCall, InOrder = TRUE, IInv, OneInv, SoundInv, StreamInv, NetAppend
    PROVE  StreamInv'
<1>1. /\ UNCHANGED <<pcm, api, call, commands, dlabort, heard, codec, play_as_list>>
      /\ api = "idle" /\ FetchInv /\ UnheardInv'
  BY NetFrame DEF NetStep
<1>2. /\ net \in {"append", "append_end"}
      /\ net = "append" => pending.cmd \in {"START", "DATA"} /\ track # NULL
      /\ net = "append_end" => pending.cmd = "END" /\ lastcmd # "START"
  BY DEF NetAppend, SoundInv, OrderInv, NullInv, OneInv, RoomInv, FirstInv, Closing
<1>3. /\ UNCHANGED <<requests, track, offset, pending, aes>>
      /\ fifo' = Append(fifo, pending)
      /\ net' = IF net = "append" THEN "idle" ELSE "zero_offset"
  BY <1>2 DEF NetAppend, trackVars
<1>4. QueueInv /\ PlayInv /\ AskInv /\ AesInv /\ PendingInv /\ Linked /\ HungryInv
  BY <1>1, <1>2 DEF StreamInv, FetchInv, Broken
<1>5. /\ Substreams' = Substreams /\ Keys' = Keys /\ Got' = Got /\ (Keyed' <=> Keyed)
      /\ Held' = 0 /\ ~StartHeld'
  BY <1>3 DEF Substreams, Keys, Got, Keyed, Held, StartHeld
<1>6. Got \in Nat /\ offset \in Nat
  <2>1. ASSUME Substreams # {} PROVE requests[Len(requests)].got \in Nat
    <3>1. Len(requests) \in 1 .. Len(requests)
      BY <2>1 DEF Substreams, IInv, QueueType
    <3>2. requests[Len(requests)] \in Request
      BY <3>1 DEF IInv, QueueType
    <3> QED
      BY <3>2 DEF Request
  <2> QED
    BY <2>1 DEF Got, IInv, CountType
<1>7. AskInv'
  BY <1>1, <1>2, <1>3, <1>4, <1>5 DEF AskInv, Leaving
<1>8. AesInv'
  BY <1>1, <1>2, <1>3, <1>4, <1>5 DEF AesInv, Leaving, KeyMayBeMissing
<1>9. PendingInv'
  BY <1>2, <1>3 DEF PendingInv
<1>10. pending \in Buffer /\ pending.good \in BOOLEAN
  <2>1. pending \in Buffer
    BY DEF IInv, QueueType
  <2> QED
    BY <2>1 DEF Buffer
<1>11. Newest.cmd = "START" => fifo # <<>> /\ Newest.good
  <2> SUFFICES ASSUME Newest.cmd = "START" PROVE fifo # <<>> /\ Newest.good
    OBVIOUS
  <2>1. fifo # <<>>
    BY DEF Newest, Heard
  <2>2. Len(fifo) \in 1 .. Len(fifo) /\ Newest = fifo[Len(fifo)]
    <3>1. fifo \in Seq(Buffer)
      BY DEF IInv, FifoInv
    <3> QED
      BY <2>1, <3>1, EmptySeq DEF Newest
  <2> QED
    BY <1>4, <2>1, <2>2 DEF QueueInv
<1>12. Newest.good \in BOOLEAN
  <2>1. CASE fifo = <<>>
    BY <2>1 DEF Newest, Heard
  <2>2. CASE fifo # <<>>
    <3>1. fifo \in Seq(Buffer)
      BY DEF IInv, FifoInv
    <3>2. fifo[Len(fifo)] \in Buffer
      BY <2>2, <3>1, EmptySeq
    <3>3. fifo[Len(fifo)].good \in BOOLEAN
      BY <3>2 DEF Buffer
    <3> QED
      BY <2>2, <3>3 DEF Newest
  <2> QED
    BY <2>1, <2>2
<1>13. net = "append" => (Waits \/ Continues) /\ pending.trk = track /\ Keys = {}
  BY <1>4 DEF Linked, PendingInv, Between
<1>14. Pos = IF net = "append" /\ pending.cmd = "DATA" THEN offset + Got - 1 ELSE offset + Got
  BY <1>6 DEF Pos, Held
<1>15. Pos' = offset + Got
  BY <1>3, <1>5, <1>6 DEF Pos
(* the buffer fits behind the newest one *)
<1>16. /\ Extends(Newest, pending) \/ (Ended /\ Opens(pending))
       /\ pending.cmd = "START" => pending.trk # NULL /\ pending.good
       /\ fifo = <<>> /\ Playing => pending.cmd = "END" \/ pending.good
  <2>1. CASE net = "append" /\ pending.cmd = "START"
    <3>1. pending.trk # NULL /\ pending.good
      BY <1>2, <1>4, <1>13, <2>1 DEF PendingInv
    <3>2. Ended
      BY <1>13, <2>1 DEF Continues, StartHeld, Waits
    <3> QED
      BY <2>1, <3>1, <3>2 DEF Opens
  <2>2. CASE net = "append" /\ pending.cmd = "DATA"
    <3>1. pending.off = Pos /\ (pending.good <=> Keyed) /\ ~StartHeld
      BY <1>4, <2>2 DEF PendingInv, StartHeld
    <3>2. CASE Continues
      <4>1. /\ Newest.cmd \in {"START", "DATA"} /\ Newest.trk = pending.trk
            /\ NextOff(Newest) = pending.off /\ (Newest.good <=> pending.good)
        BY <1>13, <2>2, <3>1, <3>2 DEF Continues
      <4>2. pending.good = Newest.good
        BY <1>10, <1>12, <4>1
      <4>3. Extends(Newest, pending)
        BY <1>11, <2>2, <4>1, <4>2 DEF Extends, NextOff
      <4>4. fifo = <<>> => pending.good
        BY <4>2 DEF Newest, Heard
      <4> QED
        BY <2>2, <4>3, <4>4
    <3>3. CASE ~Continues
      <4>1. Waits /\ ~Keyed
        BY <1>13, <2>2, <3>1, <3>3 DEF Waits
      <4>2. KeyMayBeMissing
        BY <1>1, <1>2, <1>4, <1>13, <2>2, <4>1 DEF AesInv, Leaving
      <4>3. Ended /\ Opens(pending)
        BY <2>2, <3>1, <4>1, <4>2 DEF Opens, Waits
      <4>4. ~(fifo = <<>> /\ Playing)
        BY <1>4, <2>2, <3>3 DEF HungryInv, Closing
      <4> QED
        BY <2>2, <4>3, <4>4
    <3> QED
      BY <3>2, <3>3
  <2>3. CASE net = "append_end"
    BY <1>2, <1>4, <2>3 DEF Linked, Closing, AtEnd, Extends
  <2> QED
    BY <1>2, <2>1, <2>2, <2>3
<1>17. /\ QueueInv' /\ Newest' = pending /\ fifo' # <<>>
       /\ IF fifo = <<>> THEN fifo'[1] = pending ELSE fifo'[1] = fifo[1]
  BY <1>1, <1>3, <1>4, <1>10, <1>16, QueueAppended
<1>18. PlayInv'
  <2>1. Playing' <=> Playing
    BY <1>1 DEF Playing
  <2> QED
    BY <1>1, <1>4, <1>16, <1>17, <2>1 DEF PlayInv
<1>19. HungryInv'
  BY <1>17 DEF HungryInv
<1>20. Linked'
  <2>1. CASE net = "append" /\ pending.cmd = "START"
    <3>1. Pos' = 0
      <4>1. Pos = 0
        BY <1>13, <2>1 DEF Continues, StartHeld, Waits
      <4> QED
        BY <1>14, <1>15, <2>1, <4>1
    <3>2. Continues'
      BY <1>3, <1>4, <1>5, <1>13, <1>17, <2>1, <3>1 DEF Continues, NextOff, PendingInv
    <3> QED
      BY <1>3, <2>1, <3>2 DEF Linked, Closing
  <2>2. CASE net = "append" /\ pending.cmd = "DATA"
    <3>1. pending.off = Pos /\ (pending.good <=> Keyed)
      BY <1>4, <2>2 DEF PendingInv
    <3>2. Pos' = pending.off + 1
      BY <1>6, <1>14, <1>15, <2>2, <3>1
    <3>3. Continues'
      BY <1>3, <1>5, <1>13, <1>17, <2>2, <3>1, <3>2 DEF Continues, NextOff
    <3> QED
      BY <1>3, <2>2, <3>3 DEF Linked, Closing
  <2>3. CASE net = "append_end"
    <3>1. net' = "zero_offset" /\ Ended'
      BY <1>2, <1>3, <1>17, <2>3 DEF Ended
    <3> QED
      BY <3>1 DEF Linked, Closing, Between
  <2> QED
    BY <1>2, <2>1, <2>2, <2>3
<1> QED
  BY <1>1, <1>7, <1>8, <1>9, <1>17, <1>18, <1>19, <1>20 DEF StreamInv, FetchInv

(* The server's answers: a key, a packet, an error, the end of a channel.   *)
LEMMA StreamAnswer ==
    ASSUME OneCall, LongTracks, InOrder = TRUE, IInv, OneInv, SoundInv, StreamInv,
           NetKey \/ NetKeyError \/ NetData \/ NetError \/ NetEnd
    PROVE  StreamInv'
<1>1. /\ UNCHANGED <<pcm, api, call, commands, dlabort, heard, codec, play_as_list>>
      /\ api = "idle" /\ FetchInv /\ UnheardInv' /\ UNCHANGED fifo /\ net = "idle"
  BY NetFrame DEF NetStep, NetKey, NetKeyError, NetData, NetError, NetEnd, fifoVars
<1>2. PlayInv'
  BY <1>1, NetFrame DEF NetStep
<1>3. Newest' = Newest /\ (Ended' <=> Ended) /\ (AtEnd' <=> AtEnd) /\ QueueInv'
  BY <1>1, SameQueue DEF StreamInv
<1>4. QueueInv' /\ PlayInv' /\ UnheardInv'
  BY <1>1, <1>2, <1>3
<1>5. AskInv /\ AesInv /\ (Broken \/ Waits \/ Continues) /\ Held = 0 /\ ~StartHeld
  BY <1>1 DEF FetchInv, Linked, Between, Held, StartHeld
<1>6. /\ \A i \in Answerable : i = 1 /\ i \in 1 .. Len(requests) /\ requests[i] \in Request
      /\ Len(requests) \in Nat /\ offset \in Nat /\ SUBSTREAM_SIZE \in Nat \ {0}
  BY BufferAssumption DEF Answerable, IInv, QueueType, CountType
<1>7. Playing' => Playing
  BY <1>1 DEF Playing
<1>8. Playing /\ fifo = <<>> => Continues
  BY <1>1 DEF FetchInv, HungryInv, Closing
<1>9. dlabort => pcm \in {"spin", "drain", "reset"}
  BY DEF OneInv, AbortInv
(* a key is answered before anything else of its track *)
<1>10. ASSUME NEW i \in Answerable, requests[i].kind = "key", requests' = Remove(requests, i),
              UNCHANGED <<track, offset>>, net' \in {"idle", "append"}
       PROVE  /\ requests[i].trk = track /\ track # NULL /\ offset = 0 /\ ~Continues
              /\ Waits /\ ~Keyed /\ Keys' = {} /\ Got' = 0 /\ AskInv'
  <2>1. i = 1 /\ i \in 1 .. Len(requests)
    BY <1>6
  <2>2. i \in Keys /\ Len(requests) # 0
    BY <1>10, <2>1 DEF Keys
  <2>3. /\ offset = 0 /\ track # NULL /\ requests[i].trk = track
        /\ \A k \in Substreams : requests[k].got = 0 /\ k = Len(requests)
    BY <1>5, <2>1, <2>2 DEF SoundInv, KeyInv, OrderInv, AskInv
  <2>4. /\ Len(requests') = Len(requests) - 1
        /\ \A j \in 1 .. Len(requests') :
              /\ Before(i, j) \in (1 .. Len(requests)) \ {i}
              /\ requests'[j] = requests[Before(i, j)]
        /\ \A j \in Substreams' :
              Before(i, j) \in Substreams \ {i} /\ requests'[j] = requests[Before(i, j)]
        /\ \A j \in Keys' : Before(i, j) \in Keys
    BY <1>10, <2>1, RequestAnswered DEF IInv
  <2>5. \A j \in 1 .. Len(requests') : Before(i, j) = j + 1
    BY <1>6, <2>1, <2>4 DEF Before
  <2>6. Keys' = {}
    <3>1. ASSUME NEW j \in Keys' PROVE FALSE
      <4>1. j \in 1 .. Len(requests') /\ Before(i, j) \in {1}
        BY <1>5, <2>4 DEF Keys, AskInv
      <4> QED
        BY <1>6, <2>4, <2>5, <4>1
    <3> QED
      BY <3>1
  <2>7. \A j \in Substreams' : j \in 1 .. Len(requests') /\ j = Len(requests') /\ requests'[j].got = 0
    <3> SUFFICES ASSUME NEW j \in Substreams'
                 PROVE  j \in 1 .. Len(requests') /\ j = Len(requests') /\ requests'[j].got = 0
      OBVIOUS
    <3>1. j \in 1 .. Len(requests') /\ Before(i, j) \in Substreams /\ requests'[j] = requests[Before(i, j)]
      BY <2>4 DEF Substreams
    <3>2. Before(i, j) = j + 1 /\ Before(i, j) = Len(requests) /\ requests'[j].got = 0
      BY <2>3, <2>5, <3>1
    <3> QED
      BY <1>6, <2>4, <3>1, <3>2
  <2>8. Got' = 0
    <3>1. CASE Substreams' = {}
      BY <3>1 DEF Got
    <3>2. CASE Substreams' # {}
      <4>1. requests'[Len(requests')].got = 0
        BY <2>7, <3>2
      <4> QED
        BY <3>2, <4>1 DEF Got
    <3> QED
      BY <3>1, <3>2
  <2>9. ~Continues /\ ~Broken
    BY <2>2 DEF Continues, Broken
  <2>10. Waits /\ ~Keyed
    BY <1>5, <2>9 DEF Waits
  <2>11. AskInv'
    <3>1. \A j \in 1 .. Len(requests') : requests'[j].trk = track
      BY <1>5, <2>4 DEF AskInv
    <3>2. \A j \in Substreams' : requests'[j].off = offset /\ requests'[j].got <= Available(track, offset)
      BY <1>5, <2>4 DEF AskInv
    <3> QED
      BY <1>1, <1>5, <1>10, <2>6, <3>1, <3>2 DEF AskInv, Leaving
  <2> QED
    BY <2>3, <2>6, <2>8, <2>9, <2>10, <2>11
(* a substream is answered when there is nothing else in the queue *)
<1>11. ASSUME NEW i \in Answerable, requests[i].kind = "substream"
       PROVE  /\ i \in Substreams /\ i = 1 /\ Len(requests) = 1 /\ Keys = {} /\ Substreams = {i}
              /\ requests[i].trk = track /\ track \in Playable /\ track # NULL /\ track \in Track
              /\ requests[i].off = offset /\ requests[i].got = Got /\ Got \in Nat
              /\ Got <= Available(track, offset) /\ Pos = offset + Got
              /\ errorcount = 0
              /\ Broken => dlabort /\ pcm = "spin"
  <2>1. i = 1 /\ i \in 1 .. Len(requests) /\ requests[i] \in Request
    BY <1>6
  <2>2. i \in Substreams /\ i = Len(requests) /\ requests[i].trk \in Playable
    BY <1>11, <2>1 DEF Substreams, SoundInv, OrderInv
  <2>3. Len(requests) = 1 /\ Keys = {} /\ Substreams = {i}
    <3>1. Len(requests) = 1 /\ \A j \in 1 .. Len(requests) : j = i
      <4>1. Len(requests) = 1 /\ i = 1
        BY <2>1, <2>2, Zenon
      <4>2. \A j \in 1 .. 1 : j = 1
        OBVIOUS
      <4> QED
        BY <4>1, <4>2
    <3>2. \A j \in Keys : requests[j].kind = "key" /\ j = i
      BY <3>1 DEF Keys
    <3>3. \A j \in Substreams : j = i
      BY <3>1 DEF Substreams
    <3> QED
      BY <1>11, <2>2, <3>1, <3>2, <3>3
  <2>4. pcm \notin {"drain", "reset"}
    BY <2>2 DEF OneInv, BusyInv, AbortInv
  <2>5. errorcount = 0
    BY <2>2 DEF SoundInv, ErrorInv
  <2>6. requests[i].trk = track /\ requests[i].off = offset /\ requests[i].got <= Available(track, offset)
    BY <1>5, <2>1, <2>2 DEF AskInv
  <2>7. track \in Track /\ track # NULL
    <3>1. track \in Playable /\ Playable \subseteq Track /\ NULL \notin Track
      BY <2>2, <2>6, TracksAssumption DEF Track, NULL
    <3> QED
      BY <3>1, Zenon
  <2>8. requests[i].got = Got /\ Got \in Nat
    BY <2>1, <2>3 DEF Got, Request
  <2>9. Pos = offset + Got
    BY <1>5, <1>6, <2>8 DEF Pos
  <2>10. Broken => dlabort /\ pcm = "spin"
    BY <2>3, <2>4 DEF Broken
  <2> QED
    BY <2>1, <2>2, <2>3, <2>5, <2>6, <2>7, <2>8, <2>9, <2>10
<1>12. CASE NetKey
  <2>1. PICK i \in Answerable : requests[i].kind = "key" /\ requests' = Remove(requests, i)
    BY <1>12 DEF NetKey
  <2>2. UNCHANGED <<track, offset>>
    BY <1>12 DEF NetKey, trackVars
  <2>3. track # NULL
    BY <1>6, <2>1 DEF SoundInv, OrderInv
  <2>4. net' = (IF dlabort THEN "idle" ELSE "append") /\ aes' = [trk |-> requests[1].trk, pos |-> 0]
        /\ pending' = [cmd |-> "START", trk |-> track, off |-> 0, good |-> TRUE]
    BY <1>6, <1>12, <2>3 DEF NetKey, Offer
  <2>5. /\ requests[1].trk = track /\ offset = 0 /\ ~Continues
        /\ Waits /\ ~Keyed /\ Keys' = {} /\ Got' = 0 /\ AskInv'
    BY <1>6, <1>10, <2>1, <2>2, <2>4
  <2>6. Keyed' /\ Held' = 0 /\ Pos' = 0
    <3>1. aes'.trk = track' /\ track' # NULL /\ pending'.cmd = "START"
      BY <2>2, <2>3, <2>4, <2>5
    <3>2. Keyed' /\ Held' = 0
      BY <3>1 DEF Keyed, Held
    <3> QED
      BY <2>2, <2>5, <3>2 DEF Pos
  <2>7. AesInv'
    <3>1. track' \in 0 .. Tracks /\ aes'.trk = track' /\ Tracks \in Nat
      BY <2>2, <2>4, <2>5, TracksAssumption DEF IInv, CountType
    <3>2. aes'.trk <= track'
      BY <3>1
    <3>3. aes'.pos = offset' + Got'
      BY <2>2, <2>4, <2>5
    <3> QED
      BY <2>4, <2>5, <2>6, <3>2, <3>3 DEF AesInv, Leaving
  <2>8. PendingInv'
    BY <2>2, <2>4, <2>5, <2>6 DEF PendingInv
  <2>9. (Broken \/ Linked)'
    <3>1. CASE dlabort
      BY <1>1, <1>9, <2>4, <2>5, <3>1 DEF Broken
    <3>2. CASE ~dlabort
      <4>1. Waits' /\ net' = "append"
        BY <1>3, <2>4, <2>5, <2>6, <3>2 DEF Waits, StartHeld
      <4> QED
        BY <4>1 DEF Linked, Closing
    <3> QED
      BY <3>1, <3>2
  <2>10. HungryInv'
    BY <1>1, <1>7, <1>8, <2>5 DEF HungryInv
  <2> QED
    BY <1>4, <2>5, <2>7, <2>8, <2>9, <2>10 DEF StreamInv, FetchInv
<1>13. CASE NetKeyError
  <2>1. PICK i \in Answerable : requests[i].kind = "key" /\ requests' = Remove(requests, i)
    BY <1>13 DEF NetKeyError
  <2>2. UNCHANGED <<track, offset, net, pending, aes>> /\ "key" \in Faults
    BY <1>13 DEF NetKeyError, trackVars, netVars
  <2>3. /\ ~Continues /\ offset = 0
        /\ Waits /\ ~Keyed /\ Keys' = {} /\ Got' = 0 /\ AskInv'
    BY <1>1, <1>10, <2>1, <2>2
  <2>4. ~Keyed' /\ Held' = 0 /\ Pos' = 0
    BY <1>1, <2>2, <2>3 DEF Keyed, Held, Pos
  <2>5. KeyMayBeMissing'
    BY <2>2 DEF KeyMayBeMissing
  <2>6. AesInv'
    BY <1>1, <1>5, <2>2, <2>4, <2>5 DEF AesInv, Leaving
  <2>7. PendingInv' /\ HungryInv'
    BY <1>1, <1>7, <1>8, <2>2, <2>3 DEF PendingInv, HungryInv
  <2>8. Linked'
    BY <1>1, <1>3, <2>2, <2>3, <2>4 DEF Linked, Waits, Closing
  <2> QED
    BY <1>4, <2>3, <2>6, <2>7, <2>8 DEF StreamInv, FetchInv
<1>14. CASE NetData
  <2>1. PICK i \in Answerable :
          /\ requests[i].kind = "substream"
          /\ requests[i].got < Available(requests[i].trk, requests[i].off)
          /\ requests' = [requests EXCEPT ![i].got = @ + 1]
          /\ aes' = [aes EXCEPT !.pos = @ + 1]
          /\ Offer([cmd |-> "DATA", trk |-> requests[i].trk,
                    off |-> requests[i].off + requests[i].got,
                    good |-> aes = [trk |-> requests[i].trk,
                                    pos |-> requests[i].off + requests[i].got]], "append")
    BY <1>14 DEF NetData
  <2>2. UNCHANGED <<track, offset>>
    BY <1>14 DEF NetData, trackVars
  <2>3. /\ i = 1 /\ Len(requests) = 1 /\ Keys = {} /\ Substreams = {1}
        /\ requests[i].trk = track /\ track # NULL /\ track \in Track
        /\ requests[i].off = offset /\ requests[i].got = Got /\ Got \in Nat
        /\ Pos = offset + Got
        /\ Broken => dlabort
    BY <1>11, <2>1
  <2>4. /\ Len(requests') = Len(requests) /\ Substreams' = Substreams /\ Keys' = Keys
        /\ requests'[i].trk = requests[i].trk
        /\ requests'[i].off = requests[i].off
        /\ requests'[i].got = requests[i].got + 1
    <3>1. QueueType /\ i \in 1 .. Len(requests) /\ requests' = [requests EXCEPT ![i].got = @ + 1]
      BY <1>6, <2>1 DEF IInv
    <3> QED
      BY <3>1, PacketCounted
  <2>5. Got' = Got + 1
    BY <2>3, <2>4 DEF Got
  <2>6. aes'.trk = aes.trk /\ aes'.pos = aes.pos + 1 /\ aes.pos \in Nat /\ aes.trk \in 0 .. Tracks
        /\ aes = [trk |-> aes.trk, pos |-> aes.pos]
    BY <2>1 DEF IInv, QueueType
  <2>7. Keyed' <=> Keyed
    BY <2>2, <2>6 DEF Keyed
  <2>8. /\ net' = (IF dlabort THEN "idle" ELSE "append")
        /\ pending'.cmd = "DATA" /\ pending'.trk = track /\ pending'.off = Pos
        /\ pending'.good = (aes = [trk |-> track, pos |-> Pos])
    BY <2>1, <2>3 DEF Offer
  <2>9. aes = [trk |-> track, pos |-> Pos] <=> Keyed
    <3>1. Keyed => aes.trk = track /\ aes.pos = Pos
      BY <1>5, <2>3 DEF AesInv, Keyed
    <3>2. aes.trk = track => Keyed
      BY <2>3 DEF Keyed
    <3>3. aes = [trk |-> track, pos |-> Pos] => aes.trk = track
      OBVIOUS
    <3> QED
      BY <2>6, <3>1, <3>2, <3>3
  <2>10. pending'.good <=> Keyed
    BY <2>8, <2>9, Zenon
  <2>11. AskInv'
    <3>1. \A j \in 1 .. Len(requests') : j = 1
      BY <2>3, <2>4
    <3>2. \A j \in 1 .. Len(requests') : requests'[j].trk = track'
      BY <2>2, <2>3, <2>4, <3>1
    <3>3. Got + 1 <= Available(track, offset)
      <4>1. Available(track, offset) \in Nat
        BY <1>6, <2>3, AvailableType
      <4>2. Got < Available(track, offset)
        BY <2>1, <2>3
      <4> QED
        BY <2>3, <4>1, <4>2
    <3>4. \A j \in Substreams' : requests'[j].off = offset' /\ requests'[j].got <= Available(track', offset')
      BY <2>2, <2>3, <2>4, <3>3
    <3>5. net' \notin Leaving /\ net \notin Leaving
      BY <1>1, <2>8 DEF Leaving
    <3> QED
      BY <1>1, <1>5, <2>2, <2>3, <2>4, <3>2, <3>4, <3>5 DEF AskInv
  <2>12. AesInv'
    <3>1. Keyed' => Keys' = {} /\ aes'.pos = offset' + Got'
      <4>1. Keyed => aes.pos = offset + Got
        BY <1>5 DEF AesInv
      <4> QED
        BY <1>6, <2>2, <2>3, <2>4, <2>5, <2>6, <2>7, <4>1
    <3>2. net' \notin Leaving \union {"next_key"} /\ net \notin Leaving \union {"next_key"}
      BY <1>1, <2>8 DEF Leaving
    <3> QED
      BY <1>1, <1>5, <2>2, <2>3, <2>4, <2>6, <2>7, <3>1, <3>2 DEF AesInv, KeyMayBeMissing
  <2>13. CASE dlabort
    <3>1. net' = "idle" /\ Broken'
      BY <1>1, <1>9, <2>3, <2>4, <2>8, <2>13 DEF Broken
    <3>2. ~Playing'
      BY <1>1, <1>9, <2>13 DEF Playing, Stopping
    <3>3. PendingInv' /\ HungryInv'
      BY <3>1, <3>2 DEF PendingInv, HungryInv
    <3> QED
      BY <1>4, <2>11, <2>12, <3>1, <3>3 DEF StreamInv, FetchInv
  <2>14. CASE ~dlabort
    <3>1. net' = "append" /\ Held' = 1 /\ ~StartHeld'
      BY <2>8, <2>14 DEF Held, StartHeld
    <3>2. Pos' = Pos
      BY <1>6, <2>2, <2>3, <2>5, <3>1 DEF Pos
    <3>3. (Waits => Waits') /\ (Continues => Continues')
      BY <1>3, <1>5, <2>2, <2>3, <2>4, <2>7, <3>1, <3>2 DEF Waits, Continues
    <3>4. PendingInv'
      BY <2>2, <2>3, <2>4, <2>7, <2>8, <2>10, <3>2 DEF PendingInv
    <3>5. Linked'
      BY <1>5, <2>3, <2>14, <3>1, <3>3 DEF Linked, Closing
    <3>6. HungryInv'
      BY <1>1, <1>7, <1>8, <3>1, <3>3 DEF HungryInv, Between
    <3> QED
      BY <1>4, <2>11, <2>12, <3>4, <3>5, <3>6 DEF StreamInv, FetchInv
  <2> QED
    BY <2>13, <2>14
<1>15. CASE NetError
  <2>1. PICK i \in Answerable : requests[i].kind = "substream" /\ requests' = Remove(requests, i)
    BY <1>15 DEF NetError
  <2>2. i \in 1 .. Len(requests) /\ Len(requests) = 1 /\ errorcount = 0
    BY <1>6, <1>11, <2>1
  <2>3. Len(requests') = 0
    BY <2>1, <2>2, RequestAnswered DEF IInv
  <2>4. Failed'
    BY <1>1, <1>15, <2>2, <2>3 DEF Failed, NetError
  <2> QED
    BY <1>4, <2>4 DEF StreamInv
<1>16. CASE NetEnd
  <2>1. PICK i \in Answerable :
          /\ requests[i].kind = "substream"
          /\ requests[i].got = Available(requests[i].trk, requests[i].off)
          /\ requests' = Remove(requests, i)
          /\ offset' = offset + requests[i].got
          /\ net' = IF requests[i].got < SUBSTREAM_SIZE THEN "advance" ELSE "channel_end"
    BY <1>16 DEF NetEnd
  <2>2. UNCHANGED <<track, aes>>
    BY <1>16 DEF NetEnd
  <2>3. /\ i = 1 /\ Len(requests) = 1 /\ Keys = {} /\ i \in Substreams /\ i \in 1 .. Len(requests)
        /\ track # NULL /\ track \in Track /\ track \in Playable
        /\ requests[i].trk = track /\ requests[i].off = offset /\ requests[i].got = Got /\ Got \in Nat
        /\ Pos = offset + Got
        /\ Broken => dlabort /\ pcm = "spin"
    BY <1>6, <1>11, <2>1
  <2>4. Len(requests') = 0
    BY <2>1, <2>3, RequestAnswered DEF IInv
  <2>5. Substreams' = {} /\ Keys' = {} /\ Got' = 0
    BY <2>4 DEF Substreams, Keys, Got
  <2>6. net' \in {"advance", "channel_end"} /\ Held' = 0 /\ ~StartHeld' /\ (Keyed' <=> Keyed)
    BY <2>1, <2>2 DEF Held, StartHeld, Keyed
  <2>7. offset' = offset + Got /\ Pos' = Pos
    BY <1>6, <2>1, <2>3, <2>5, <2>6 DEF Pos
  <2>8. /\ offset + Got <= Size[track]
        /\ Got < SUBSTREAM_SIZE => offset + Got = Size[track]
    <3>1. offset <= Size[track] /\ Size[track] \in Nat
      BY <1>1, <1>5, <2>3, SizeAssumption DEF AskInv, Leaving
    <3>2. Got = Available(track, offset)
      BY <2>1, <2>3
    <3> QED
      BY <1>6, <2>3, <3>1, <3>2 DEF Available, Min
  <2>9. AskInv'
    BY <1>1, <2>2, <2>4, <2>5, <2>7, <2>8 DEF AskInv
  <2>10. AesInv'
    <3>1. net' \notin Leaving \union {"next_key"} /\ net \notin Leaving \union {"next_key"}
      BY <1>1, <2>6 DEF Leaving
    <3>2. Keyed => aes.pos = offset + Got
      BY <1>5 DEF AesInv
    <3>3. Keyed' => aes'.pos = offset' + Got'
      BY <1>6, <2>2, <2>3, <2>5, <2>6, <2>7, <3>2
    <3> QED
      BY <1>1, <1>5, <2>2, <2>3, <2>5, <2>6, <3>1, <3>3 DEF AesInv, KeyMayBeMissing
  <2>11. PendingInv'
    BY <2>6 DEF PendingInv
  <2>12. (Waits => Waits') /\ (Continues => Continues')
    BY <1>3, <1>5, <2>2, <2>5, <2>6, <2>7 DEF Waits, Continues
  <2>13. net' = "advance" => ~Broken /\ ~Waits /\ (Continues => AtEnd)
    <3> SUFFICES ASSUME net' = "advance" PROVE ~Broken /\ ~Waits /\ (Continues => AtEnd)
      OBVIOUS
    <3>1. Got < SUBSTREAM_SIZE /\ Pos = Size[track] /\ Size[track] \in Nat
      BY <2>1, <2>3, <2>8, SizeAssumption
    <3>2. Size[track] >= SUBSTREAM_SIZE
      BY <2>3 DEF LongTracks
    <3>3. Pos # 0
      BY <1>6, <3>1, <3>2
    <3>4. ~Broken
      <4>1. ASSUME Broken PROVE FALSE
        <5>1. offset = 0
          BY <2>3, <4>1 DEF SoundInv, StopInv, Stopping
        <5>2. Got = SUBSTREAM_SIZE
          BY <2>1, <2>3, <5>1, FirstSubstream
        <5> QED
          BY <1>6, <3>1, <5>2
      <4> QED
        BY <4>1
    <3>5. Continues => AtEnd
      BY <3>1, <3>3 DEF Continues, AtEnd, NextOff
    <3> QED
      BY <3>3, <3>4, <3>5 DEF Waits
  <2>14. Broken => Broken' \/ net' = "advance"
    BY <1>1, <2>3, <2>5, <2>6 DEF Broken
  <2>15. (Broken \/ Linked)'
    <3>1. CASE net' = "advance"
      BY <1>3, <1>5, <2>13, <3>1 DEF Linked, Closing, Between
    <3>2. CASE net' = "channel_end"
      BY <1>5, <2>12, <2>14, <3>2 DEF Linked, Closing
    <3> QED
      BY <2>6, <3>1, <3>2
  <2>16. HungryInv'
    BY <1>1, <1>7, <1>8, <2>6, <2>12 DEF HungryInv, Closing, Between
  <2> QED
    BY <1>4, <2>9, <2>10, <2>11, <2>15, <2>16 DEF StreamInv, FetchInv
<1> QED
  BY <1>12, <1>13, <1>14, <1>15, <1>16

(* The start.                                                               *)
LEMMA StreamInit ==
    ASSUME Init
    PROVE  StreamInv
<1>1. /\ fifo = <<>> /\ requests = <<>> /\ net = "idle" /\ pcm = "idle" /\ codec = "none"
      /\ api = "idle" /\ track = NULL /\ offset = 0 /\ aes = [trk |-> NULL, pos |-> 0]
      /\ heard = [trk |-> NULL, pos |-> 0]
  BY Zenon DEF Init
<1>2. Len(fifo) = 0 /\ Len(requests) = 0 /\ Substreams = {} /\ Keys = {}
  BY <1>1 DEF Substreams, Keys
<1>3. QueueInv /\ PlayInv /\ UnheardInv
  BY <1>1, <1>2 DEF QueueInv, PlayInv, UnheardInv, Playing
<1>4. AskInv /\ AesInv /\ PendingInv /\ HungryInv /\ ~Keyed
  BY <1>1, <1>2 DEF AskInv, AesInv, PendingInv, HungryInv, Playing, Keyed
<1>5. Pos = 0
  BY <1>1, <1>2 DEF Pos, Got, Held
<1>6. Linked
  BY <1>1, <1>4, <1>5 DEF Linked, Waits, Ended, Newest, Heard, Closing
<1> QED
  BY <1>3, <1>4, <1>6 DEF StreamInv, FetchInv

(* A step of any thread, or of none.                                        *)
LEMMA StreamStep ==
    ASSUME OneCall, LongTracks, InOrder = TRUE, IInv, OneInv, SoundInv, StreamInv, [Next]_vars
    PROVE  StreamInv'
<1>1. CASE UNCHANGED vars
  <2>1. UNCHANGED <<fifo, heard, requests, net, pcm, dlabort, offset, errorcount, api, call, track,
                    pending, aes, codec, commands, play_as_list>>
    BY <1>1 DEF vars, fifoVars, dlVars, trackVars
  <2>2. /\ Substreams' = Substreams /\ Keys' = Keys /\ Got' = Got /\ Pos' = Pos
        /\ Keyed' <=> Keyed
        /\ StartHeld' <=> StartHeld
        /\ PendingInv => PendingInv'
    BY <2>1, SameFetch
  <2>3. Newest' = Newest /\ (Ended' <=> Ended) /\ (AtEnd' <=> AtEnd) /\ QueueInv'
    BY <2>1, SameQueue DEF StreamInv
  <2>4. (Waits' <=> Waits) /\ (Continues' <=> Continues) /\ (Playing' <=> Playing)
    BY <2>1, <2>2, <2>3 DEF Waits, Continues, Playing
  <2>5. PlayInv' /\ UnheardInv'
    BY <2>1, <2>4 DEF StreamInv, PlayInv, UnheardInv
  <2>6. (AskInv => AskInv') /\ (AesInv => AesInv')
    BY <2>1, <2>2 DEF AskInv, AesInv, KeyMayBeMissing
  <2>7. (Broken => Broken') /\ (Linked => Linked') /\ (HungryInv => HungryInv')
    BY <2>1, <2>2, <2>3, <2>4 DEF Broken, Linked, HungryInv
  <2>8. Failed => Failed'
    BY <2>1 DEF Failed
  <2> QED
    BY <2>2, <2>3, <2>5, <2>6, <2>7, <2>8 DEF StreamInv, FetchInv
<1>2. CASE NetStep
  BY <1>2, StreamAnswer, StreamAppend, StreamLocal DEF NetStep
<1> QED
  BY <1>1, <1>2, StreamApi, StreamPcm DEF Next

(* What is queued, read after what was played last, is a proper stream: START  *)
(* of a track, its data in order, decrypted with the track's own key at its own *)
(* position, END and the next START, whatever the threads do and whatever       *)
(* fails - as long as no playable track is shorter than a substream and the     *)
(* server answers in order.  Only where a key may be missing is a track's data  *)
(* noise without a START.  (despotify_aes_callback, despotify_substream_callback, *)
(* snd_ioctl, snd_consume_data, snd_stop.)                                      *)
THEOREM StreamIsProper ==
    ASSUME OneCall, LongTracks, InOrder = TRUE
    PROVE  Spec => []FifoIsStream
<1> DEFINE Inv == IInv /\ OneInv /\ SoundInv /\ StreamInv
<1>1. Init => Inv
  BY InitIInv, OneInit, SoundInit, StreamInit
<1>2. Inv /\ [Next]_vars => Inv'
  BY IInvStep, OneStep, SoundStep, StreamStep
<1>3. Inv => FifoIsStream
  BY QueueIsStream DEF StreamInv
<1> QED
  BY <1>1, <1>2, <1>3, PTL DEF Spec
===============================================================================
