--------------------------- MODULE MuxStartProofs ---------------------------
(***************************************************************************)
(* What holds of the start of muxers for any number of muxers and streams, *)
(* any timing, and any limits of the FIFOs.                                *)
(***************************************************************************)
EXTENDS MuxStart, SequenceTheorems, WellFoundedInduction, TLAPS

-----------------------------------------------------------------------------
(* The inductive invariant.                                                *)

Items == [stream : Streams, num : Nat]

Types ==
  /\ timing \in [Streams -> Seq(Dts)]
  /\ mux_ready_lock \in Streams \cup {Free}
  /\ starting \in Seq(Muxes)
  /\ mux_started \in [Muxes -> BOOLEAN]
  /\ premux \in [Streams -> Seq(Nat)]
  /\ room \in [Streams -> Nat]
  /\ data_size \in [Streams -> Nat]
  /\ init_eof \in [Streams -> BOOLEAN]
  /\ queue \in [Muxes -> Seq(Items)]
  /\ sendClosed \in [Streams -> BOOLEAN]
  /\ recvClosed \in [Streams -> BOOLEAN]
  /\ muxer \in [Muxes -> {"none", "running", "closing", "done"}]
  /\ pc \in [Streams -> {"idle", "locking", "sending", "closing", "done"}]
  /\ hand \in [Streams -> Nat]
  /\ accepted \in [Streams -> Nat]
  /\ delivered \in [Streams -> Nat]
  /\ eofs \in [Streams -> Nat]
  /\ flushed \in [Muxes -> Dts]

(* A muxer that mux_init() has come to, and what is so before.             *)
Begun(m) == mux_started[m] \/ (starting # <<>> /\ m = Head(starting))

StartInv ==
  /\ mux_ready_lock = Free <=> starting = <<>>
  /\ \A m \in Muxes : ~Begun(m) => muxer[m] = "none" /\ flushed[m] = NOPTS
  /\ \A s \in Streams : ~Begun(MuxOf[s]) => ~sendClosed[s] /\ ~recvClosed[s]

(* What a sender has in its hand is the next packet; it goes around the    *)
(* FIFO only after the flush.                                              *)
SendInv ==
  \A s \in Streams :
    /\ accepted[s] <= Len(timing[s])
    /\ pc[s] \in {"locking", "sending"} /\ hand[s] # Eof =>
         hand[s] = accepted[s] + 1 /\ hand[s] <= Len(timing[s])
    /\ pc[s] = "sending" => mux_started[MuxOf[s]]

(* The packets in the FIFO of a stream, and those that are out of it.      *)
Packets(s) == IF HasEof(s) THEN Len(premux[s]) - 1 ELSE Len(premux[s])
Left(s)    == accepted[s] - Packets(s)

(* The FIFO holds the packets that were accepted last, and then the EOF.   *)
FifoInv ==
  \A s \in Streams : \A k \in 1 .. Len(premux[s]) :
    IF premux[s][k] = Eof THEN k = Len(premux[s]) /\ pc[s] = "done"
                          ELSE premux[s][k] = Left(s) + k

Largest == Max({InitialRoom, MaxPackets, 2 * DataThreshold})

RoomInv ==
  \A s \in Streams :
    /\ ~Begun(MuxOf[s]) => data_size[s] = Packets(s)
    /\ room[s] <= Largest

(* What has left the FIFO of an open stream and was not delivered is in    *)
(* the queue of its muxer, once and in order: items d + 1 to left of       *)
(* stream s are in q, and item n has at most as many items of its stream   *)
(* behind it as there are entries.                                         *)
InPlace(q, s, d, left, k) ==
  LET n == q[k].num
  IN  /\ d < n /\ n <= left
      /\ left - n <= Len(q) - k
      /\ \A j \in 1 .. k - 1 : q[j].stream = s => q[j].num < n

Carried(q, s, d, left) ==
  /\ d <= left
  /\ \A n \in d + 1 .. left : \E k \in 1 .. Len(q) : q[k].stream = s /\ q[k].num = n
  /\ \A k \in 1 .. Len(q) : q[k].stream = s => InPlace(q, s, d, left, k)

OnTheWay(s) == Carried(queue[MuxOf[s]], s, delivered[s], Left(s))

QueueInv ==
  /\ \A m \in Muxes :
       /\ Len(queue[m]) <= QueueSize
       /\ \A k \in 1 .. Len(queue[m]) : MuxOf[queue[m][k].stream] = m
  /\ \A s \in Streams : ~recvClosed[s] => OnTheWay(s)

(* A stream that is closed for sending has nothing in its FIFO.            *)
ClosedInv ==
  \A s \in Streams :
    /\ init_eof[s] => recvClosed[s]
    /\ sendClosed[s] /\ ~recvClosed[s] => premux[s] = <<>>

IInv ==
  /\ Types /\ StartInv /\ SendInv /\ NothingStranded /\ FifoInv /\ RoomInv
  /\ QueueInv /\ ClosedInv


-----------------------------------------------------------------------------
(* Numbers, sequences and constants.                                       *)

LessNat == {ss \in Nat \X Nat : ss[1] < ss[2]}

(* A set of natural numbers has a least element.                           *)
LEMMA Smallest ==
  ASSUME NEW S \in SUBSET Nat, S # {}
  PROVE  \E k \in S : \A j \in S : k <= j
<1>1. PICK k \in S : \A j \in S : ~(<<j, k>> \in LessNat)
  <2>1. IsWellFoundedOn(LessNat, Nat)
    BY NatLessThanWellFounded DEF LessNat, OpToRel
  <2> QED BY <2>1, WFMin
<1>2. \A j \in S : k <= j
  <2> TAKE j \in S
  <2>1. <<j, k>> \in Nat \X Nat
    OBVIOUS
  <2>2. ~(<<j, k>>[1] < <<j, k>>[2])
    BY <1>1, <2>1, Zenon DEF LessNat
  <2> QED BY <2>2
<1> QED BY <1>2

LEMMA MinFacts ==
  ASSUME NEW S \in SUBSET Nat, S # {}
  PROVE  Min(S) \in S /\ \A j \in S : Min(S) <= j
BY Smallest DEF Min

LEMMA MinOfTwo ==
  ASSUME NEW a \in Int, NEW b \in Int
  PROVE  Min({a, b}) = IF a <= b THEN a ELSE b
BY DEF Min

LEMMA MaxOfTwo ==
  ASSUME NEW a \in Int, NEW b \in Int
  PROVE  Max({a, b}) = IF a >= b THEN a ELSE b
BY DEF Max

LEMMA LargestFacts ==
  /\ Largest \in Nat
  /\ InitialRoom <= Largest /\ MaxPackets <= Largest /\ 2 * DataThreshold <= Largest
<1> DEFINE S == {InitialRoom, MaxPackets, 2 * DataThreshold}
<1>1. InitialRoom \in Nat /\ MaxPackets \in Nat /\ 2 * DataThreshold \in Nat
  BY MuxStartAssumption DEF MuxStartAssumption
<1>2. \E x \in S : \A y \in S : x >= y
  BY <1>1
<1>3. Largest \in S /\ \A y \in S : Largest >= y
  BY <1>2 DEF Largest, Max
<1> QED BY <1>1, <1>3

LEMMA StreamFacts ==
  /\ Streams \subseteq Nat \ {0} /\ Muxes \subseteq Nat \ {0}
  /\ \A s \in Streams : MuxOf[s] \in Muxes /\ s \in StreamsOf(MuxOf[s])
  /\ \A m : \A s \in StreamsOf(m) : s \in Streams /\ MuxOf[s] = m
  /\ \A m : StreamsOf(m) \in SUBSET Nat
BY MuxStartAssumption DEF MuxStartAssumption, Streams, Muxes, StreamsOf

LEMMA TailFacts ==
  ASSUME NEW S, NEW q \in Seq(S), q # <<>>
  PROVE  /\ Head(q) \in S /\ Head(q) = q[1] /\ Tail(q) \in Seq(S)
         /\ Len(q) >= 1 /\ Len(Tail(q)) = Len(q) - 1
         /\ \A k \in 1 .. Len(q) - 1 : Tail(q)[k] = q[k + 1]
         /\ Tail(q) # <<>> => Len(q) > 1
BY HeadTailProperties, EmptySeq, LenProperties

(* The muxers mux_init() starts.                                           *)
LEMMA StartableFacts ==
  ASSUME NEW m \in Muxes
  PROVE  Startable(m) \in Seq(Muxes)
<1>1. <<m>> \in Seq(Muxes) /\ <<>> \in Seq(Muxes)
  OBVIOUS
<1>2. [i \in Muxes |-> i] \in Seq(Muxes)
  BY MuxStartAssumption, SeqDef DEF MuxStartAssumption, Muxes
<1> QED BY <1>1, <1>2 DEF Startable

-----------------------------------------------------------------------------
(* What the FIFO of a stream holds.                                        *)

LEMMA HasEofFacts ==
  ASSUME Types, FifoInv, NEW s \in Streams
  PROVE  /\ premux[s] \in Seq(Nat) /\ Len(premux[s]) \in Nat
         /\ DOMAIN premux[s] = 1 .. Len(premux[s])
         /\ HasEof(s) => premux[s] # <<>> /\ premux[s][Len(premux[s])] = Eof /\ pc[s] = "done"
         /\ Packets(s) \in Nat /\ Packets(s) <= Len(premux[s])
         /\ Left(s) \in Int
         /\ \A k \in 1 .. Len(premux[s]) : premux[s][k] # Eof => k <= Packets(s)
<1>1. /\ premux[s] \in Seq(Nat) /\ Len(premux[s]) \in Nat
      /\ DOMAIN premux[s] = 1 .. Len(premux[s])
  BY LenProperties DEF Types
<1>2. ASSUME HasEof(s)
      PROVE  premux[s] # <<>> /\ premux[s][Len(premux[s])] = Eof /\ pc[s] = "done"
             /\ Len(premux[s]) >= 1
  <2>1. PICK k \in 1 .. Len(premux[s]) : premux[s][k] = Eof
    BY <1>1, <1>2 DEF HasEof
  <2> QED BY <1>1, <2>1 DEF FifoInv
<1>3. Packets(s) \in Nat /\ Packets(s) <= Len(premux[s])
  BY <1>1, <1>2 DEF Packets
<1>4. Left(s) \in Int
  BY <1>3 DEF Left, Types
<1>5. \A k \in 1 .. Len(premux[s]) : premux[s][k] # Eof => k <= Packets(s)
  BY <1>1, <1>2 DEF Packets
<1> QED BY <1>1, <1>2, <1>3, <1>4, <1>5

(* After the EOF comes nothing.                                            *)
LEMMA EofIsLast ==
  ASSUME Types, FifoInv, NEW s \in Streams, premux[s] # <<>>, Head(premux[s]) = Eof
  PROVE  Len(premux[s]) = 1 /\ Tail(premux[s]) = <<>>
<1>1. /\ premux[s] \in Seq(Nat) /\ Head(premux[s]) = premux[s][1]
      /\ Len(premux[s]) >= 1 /\ Len(premux[s]) \in Nat
  BY TailFacts, LenProperties DEF Types
<1>2. 1 \in 1 .. Len(premux[s])
  BY <1>1
<1>3. Len(premux[s]) = 1
  BY <1>1, <1>2 DEF FifoInv
<1>4. Tail(premux[s]) \in Seq(Nat) /\ Len(Tail(premux[s])) = 0
  BY <1>1, <1>3, TailFacts
<1> QED BY <1>3, <1>4, EmptySeq

-----------------------------------------------------------------------------
LEMMA InitIInv == Init => IInv
<1> SUFFICES ASSUME Init PROVE IInv
  OBVIOUS
<1>1. /\ timing \in [Streams -> Seq(Dts)]
      /\ \A s \in Streams : premux[s] = <<>> /\ accepted[s] = 0 /\ delivered[s] = 0
      /\ \A s \in Streams : room[s] = InitialRoom /\ data_size[s] = 0 /\ pc[s] = "idle"
      /\ \A s \in Streams : ~sendClosed[s] /\ ~recvClosed[s] /\ ~init_eof[s]
      /\ \A m \in Muxes : queue[m] = <<>> /\ flushed[m] = NOPTS
  BY MuxStartAssumption, StreamFacts DEF Init, MuxStartAssumption
<1>2. Types
  BY <1>1, MuxStartAssumption DEF Init, Types, MuxStartAssumption, Free, Eof, NOPTS, Dts
<1>3. StartInv
  BY <1>1 DEF Init, StartInv, Begun
<1>4. SendInv
  BY <1>1, LenProperties DEF SendInv
<1>5. NothingStranded /\ FifoInv /\ ClosedInv
  BY <1>1 DEF NothingStranded, FifoInv, ClosedInv
<1>6. RoomInv
  <2>1. \A s \in Streams : Packets(s) = 0
    BY <1>1 DEF Packets, HasEof
  <2> QED BY <1>1, <2>1, LargestFacts DEF RoomInv
<1>7. QueueInv
  <2>1. \A s \in Streams : Left(s) = 0
    BY <1>1 DEF Left, Packets, HasEof
  <2>2. QueueSize \in Nat
    BY MuxStartAssumption DEF MuxStartAssumption
  <2>3. \A s \in Streams : OnTheWay(s)
    <3> TAKE s \in Streams
    <3>1. queue[MuxOf[s]] = <<>> /\ delivered[s] = 0 /\ Left(s) = 0
      BY <1>1, <2>1, StreamFacts
    <3> QED BY <3>1 DEF OnTheWay, Carried
  <2>4. \A m \in Muxes : Len(queue[m]) = 0
    BY <1>1
  <2> QED BY <2>2, <2>3, <2>4 DEF QueueInv
<1> QED BY <1>2, <1>3, <1>4, <1>5, <1>6, <1>7 DEF IInv

-----------------------------------------------------------------------------
(* Types.                                                                  *)

LEMMA StateFacts ==
  ASSUME Types, NEW s \in Streams
  PROVE  /\ room[s] \in Nat /\ data_size[s] \in Nat /\ hand[s] \in Nat
         /\ accepted[s] \in Nat /\ delivered[s] \in Nat /\ Size(hand[s]) \in Nat
         /\ sendClosed[s] \in BOOLEAN /\ recvClosed[s] \in BOOLEAN
         /\ MaxPackets \in Nat /\ InitialRoom \in Nat /\ DataThreshold \in Nat
         /\ QueueSize \in Nat /\ MuxOf[s] \in Muxes /\ queue[MuxOf[s]] \in Seq(Items)
         /\ timing[s] \in Seq(Dts) /\ Len(timing[s]) \in Nat
<1>1. /\ MaxPackets \in Nat /\ InitialRoom \in Nat /\ DataThreshold \in Nat
      /\ QueueSize \in Nat
  BY MuxStartAssumption DEF MuxStartAssumption
<1>2. /\ room[s] \in Nat /\ data_size[s] \in Nat /\ hand[s] \in Nat
      /\ accepted[s] \in Nat /\ delivered[s] \in Nat
      /\ sendClosed[s] \in BOOLEAN /\ recvClosed[s] \in BOOLEAN
  BY DEF Types
<1>3. /\ MuxOf[s] \in Muxes /\ queue[MuxOf[s]] \in Seq(Items)
      /\ timing[s] \in Seq(Dts) /\ Len(timing[s]) \in Nat
  BY StreamFacts, LenProperties DEF Types
<1>4. Size(hand[s]) \in Nat
  BY <1>2 DEF Size
<1> QED BY <1>1, <1>2, <1>3, <1>4

LEMMA SendTypes ==
  ASSUME Types, NEW s \in Streams,
         \/ send_packet(s) \/ send_eof(s) \/ send_locked(s) \/ send_direct(s)
  PROVE  Types'
<1> USE DEF startVars, premuxVars, queueVars, sendVars, muxerVars
<1>1. CASE send_packet(s) \/ send_eof(s)
  <2>1. PICK n \in Nat : Look(s, n)
    BY <1>1 DEF send_packet, send_eof, Types, Eof
  <2> QED BY <2>1 DEF Look, Goto, Types
<1>2. CASE send_locked(s)
  <2>1. CASE Queued(s)
    <3>1. NewRoom(s) \in Nat
      <4>1. room[s] \in Nat /\ 2 * room[s] \in Nat /\ MaxPackets \in Nat
        BY StateFacts
      <4> DEFINE limit == Min({2 * room[s], MaxPackets})
      <4>2. limit \in Nat
        BY <4>1, MinOfTwo
      <4>3. Max({room[s], limit}) \in Nat
        <5> HIDE DEF limit
        <5> QED BY <4>1, <4>2, MaxOfTwo
      <4> QED BY <4>1, <4>3 DEF NewRoom
    <3>2. Append(premux[s], hand[s]) \in Seq(Nat)
      BY AppendProperties DEF Types
    <3>3. UNCHANGED <<timing, startVars, init_eof, queueVars, hand, muxerVars, flushed>>
      BY <1>2 DEF send_locked
    <3>4. /\ premux' = [premux EXCEPT ![s] = Append(premux[s], hand[s])]
          /\ room' = [room EXCEPT ![s] = NewRoom(s)]
          /\ data_size' = [data_size EXCEPT ![s] = data_size[s] + Size(hand[s])]
          /\ pc' = [pc EXCEPT ![s] = IF hand[s] = Eof THEN "done" ELSE "idle"]
          /\ accepted' = [accepted EXCEPT ![s] = accepted[s] + Size(hand[s])]
      BY <2>1 DEF Queued, Sent, Goto, Types
    <3>5. data_size[s] + Size(hand[s]) \in Nat /\ accepted[s] + Size(hand[s]) \in Nat
      BY StateFacts
    <3> QED BY <3>1, <3>2, <3>3, <3>4, <3>5 DEF Types
  <2>2. CASE ~Queued(s)
    BY <1>2, <2>2 DEF send_locked, NotQueued, Goto, Types
  <2> QED BY <2>1, <2>2
<1>3. CASE send_direct(s)
  <2>1. UNCHANGED <<timing, startVars, premuxVars, init_eof, recvClosed, hand, muxerVars, flushed>>
    BY <1>3 DEF send_direct
  <2>2. pc' \in [Streams -> {"idle", "locking", "sending", "closing", "done"}]
    BY <1>3 DEF send_direct, Sent, Goto, Types
  <2>3. accepted' \in [Streams -> Nat] /\ sendClosed' \in [Streams -> BOOLEAN]
    <3>1. accepted[s] + Size(hand[s]) \in Nat
      BY StateFacts
    <3>2. \/ accepted' = accepted
          \/ accepted' = [accepted EXCEPT ![s] = accepted[s] + Size(hand[s])]
      BY <1>3 DEF send_direct, Sent
    <3>3. sendClosed' = sendClosed \/ sendClosed' = [sendClosed EXCEPT ![s] = TRUE]
      BY <1>3 DEF send_direct, TqClose
    <3> QED BY <3>1, <3>2, <3>3 DEF Types
  <2>4. queue' \in [Muxes -> Seq(Items)]
    <3>1. [stream |-> s, num |-> hand[s]] \in Items
      BY DEF Items, Types
    <3>2. Append(queue[MuxOf[s]], [stream |-> s, num |-> hand[s]]) \in Seq(Items)
      BY <3>1, StreamFacts, AppendProperties DEF Types
    <3>3. \/ queue' = queue
          \/ queue' = [queue EXCEPT ![MuxOf[s]] =
                         Append(queue[MuxOf[s]], [stream |-> s, num |-> hand[s]])]
      BY <1>3 DEF send_direct, TqPut
    <3> QED BY <3>2, <3>3 DEF Types
  <2> QED BY <2>1, <2>2, <2>3, <2>4 DEF Types
<1> QED BY <1>1, <1>2, <1>3

LEMMA ReadyTypes ==
  ASSUME Types, NEW s \in Streams, sch_mux_stream_ready(s)
  PROVE  Types'
<1>1. UNCHANGED <<timing, mux_started, premuxVars, init_eof, queueVars, pc, hand, accepted,
                  delivered, eofs, flushed>>
  BY DEF sch_mux_stream_ready
<1>2. /\ mux_ready_lock' \in Streams \cup {Free}
      /\ starting' \in Seq(Muxes)
      /\ muxer' \in [Muxes -> {"none", "running", "closing", "done"}]
  <2>1. CASE ReadyEarly(s) \/ ReadyInitFails(s)
    BY <2>1 DEF ReadyEarly, ReadyInitFails, Types
  <2>2. CASE ReadyLast(s)
    <3>1. starting' \in Seq(Muxes)
      BY <2>2, StreamFacts, StartableFacts DEF ReadyLast
    <3> QED BY <2>2, <3>1 DEF ReadyLast, Types
  <2> QED BY <2>1, <2>2 DEF sch_mux_stream_ready
<1> QED BY <1>1, <1>2 DEF Types, premuxVars, queueVars

(* The stream whose head is flushed.                                       *)
LEMMA HeadFacts ==
  ASSUME IInv, NEW s \in Streams, premux[s] # <<>>
  PROVE  /\ Head(premux[s]) = premux[s][1]
         /\ Head(premux[s]) \in Nat
         /\ HeadDts(s) \in Dts
<1>1. /\ Head(premux[s]) = premux[s][1] /\ Head(premux[s]) \in Nat
      /\ Len(premux[s]) >= 1 /\ Len(premux[s]) \in Nat
  BY TailFacts, LenProperties DEF IInv, Types
<1>2. CASE Head(premux[s]) = Eof
  BY <1>1, <1>2 DEF HeadDts, DtsOf, Dts
<1>3. CASE Head(premux[s]) # Eof
  <2>1. premux[s][1] = Left(s) + 1 /\ 1 <= Packets(s) /\ Packets(s) \in Nat
    BY <1>1, <1>3, HasEofFacts DEF IInv, FifoInv
  <2>2. accepted[s] \in Nat /\ accepted[s] <= Len(timing[s]) /\ timing[s] \in Seq(Dts)
    BY DEF IInv, Types, SendInv
  <2>3. premux[s][1] \in 1 .. Len(timing[s])
    BY <1>1, <1>3, <2>1, <2>2, LenProperties DEF Left, Eof
  <2> QED BY <1>1, <1>3, <2>2, <2>3, ElementOfSeq DEF HeadDts, DtsOf
<1> QED BY <1>1, <1>2, <1>3

LEMMA MinStreamFacts ==
  ASSUME IInv, mux_ready_lock # Free, Waiting # {}
  PROVE  /\ Starting \in Muxes
         /\ MinStream \in Streams /\ MuxOf[MinStream] = Starting /\ premux[MinStream] # <<>>
         /\ \A r \in Waiting : HeadDts(MinStream) <= HeadDts(r)
<1>1. Starting \in Muxes
  BY TailFacts DEF IInv, Types, StartInv, Starting
<1>2. Waiting \in SUBSET Streams /\ Waiting \in SUBSET Nat
  BY StreamFacts DEF Waiting
<1>3. \A r \in Waiting : HeadDts(r) \in Dts
  BY <1>2, HeadFacts DEF Waiting
<1>4. PICK t \in Waiting : \A r \in Waiting : HeadDts(t) <= HeadDts(r)
  <2> DEFINE D == {HeadDts(r) + 1 : r \in Waiting}
  <2>1. D \in SUBSET Nat /\ D # {}
    BY <1>3 DEF Dts, NOPTS
  <2>2. PICK d \in D : \A e \in D : d <= e
    BY <2>1, Smallest
  <2>3. PICK t \in Waiting : d = HeadDts(t) + 1
    BY <2>2
  <2>4. \A r \in Waiting : HeadDts(t) + 1 <= HeadDts(r) + 1
    BY <2>2, <2>3
  <2> QED BY <1>3, <2>3, <2>4 DEF Dts, NOPTS
<1>5. PICK s \in Waiting :
        /\ HeadDts(s) = HeadDts(t)
        /\ \A r \in Waiting : HeadDts(r) = HeadDts(t) => s <= r
  <2> DEFINE W == {r \in Waiting : HeadDts(r) = HeadDts(t)}
  <2>1. W \in SUBSET Nat /\ W # {}
    BY <1>2, <1>4
  <2>2. PICK s \in W : \A r \in W : s <= r
    BY <2>1, Smallest
  <2> QED BY <2>2
<1>6. MinStream \in Waiting /\ \A r \in Waiting : HeadDts(MinStream) <= HeadDts(r)
  BY <1>4, <1>5 DEF MinStream
<1> QED BY <1>1, <1>2, <1>6, StreamFacts DEF Waiting

LEMMA FlushTypes ==
  ASSUME IInv, mux_task_start
  PROVE  Types'
<1> USE DEF startVars, premuxVars, queueVars, sendVars, muxerVars
<1>1. CASE FlushDone
  <2>1. Starting \in Muxes /\ starting' \in Seq(Muxes) /\ (starting' # <<>> => Head(starting') \in Muxes)
    BY <1>1, TailFacts DEF FlushDone, IInv, Types, StartInv, Starting
  <2> QED BY <1>1, <2>1 DEF FlushDone, IInv, Types
<1>2. CASE FlushEof \/ FlushPacket
  <2> DEFINE s == MinStream
  <2>1. /\ Starting \in Muxes /\ s \in Streams /\ MuxOf[s] = Starting /\ premux[s] # <<>>
        /\ HeadDts(s) \in Dts /\ MinHead \in Nat
    BY <1>2, MinStreamFacts, HeadFacts DEF FlushEof, FlushPacket, TakeMinHead, MinHead
  <2>2. UNCHANGED <<timing, startVars, room, data_size, recvClosed, sendVars, muxerVars>>
    BY <1>2 DEF FlushEof, FlushPacket, TakeMinHead
  <2>3. premux' = [premux EXCEPT ![s] = Tail(premux[s])] /\ Tail(premux[s]) \in Seq(Nat)
    BY <1>2, <2>1, TailFacts DEF FlushEof, FlushPacket, TakeMinHead, IInv, Types
  <2>4. queue' \in [Muxes -> Seq(Items)]
    <3>1. [stream |-> s, num |-> MinHead] \in Items
      BY <2>1 DEF Items
    <3>2. Append(queue[Starting], [stream |-> s, num |-> MinHead]) \in Seq(Items)
      BY <2>1, <3>1, AppendProperties DEF IInv, Types
    <3> HIDE DEF s
    <3> QED BY <1>2, <2>1, <3>2 DEF FlushEof, FlushPacket, TqPut, IInv, Types, s
  <2>5. flushed' \in [Muxes -> Dts]
    <3>1. flushed[Starting] \in Dts /\ flushed \in [Muxes -> Dts]
      BY <2>1 DEF IInv, Types
    <3>2. Max({flushed[Starting], HeadDts(s)}) \in Dts
      BY <2>1, <3>1, MaxOfTwo DEF Dts, NOPTS
    <3> HIDE DEF s
    <3> QED BY <1>2, <3>1, <3>2 DEF FlushEof, FlushPacket, s
  <2>6. init_eof' \in [Streams -> BOOLEAN] /\ sendClosed' \in [Streams -> BOOLEAN]
    BY <1>2, <2>1 DEF FlushEof, FlushPacket, TqClose, IInv, Types
  <2> HIDE DEF s
  <2> QED BY <2>1, <2>2, <2>3, <2>4, <2>5, <2>6 DEF IInv, Types
<1> QED BY <1>1, <1>2 DEF mux_task_start

(* The item sch_mux_receive() returns, which comes after items that nobody *)
(* wants.                                                                  *)
LEMMA DeliverableFacts ==
  ASSUME IInv, NEW m \in Muxes, Deliverable(m) # {}, NEW k, k = Min(Deliverable(m))
  PROVE  /\ queue[m] \in Seq(Items) /\ Len(queue[m]) \in Nat
         /\ k \in 1 .. Len(queue[m])
         /\ queue[m][k] \in Items
         /\ MuxOf[queue[m][k].stream] = m
         /\ ~recvClosed[queue[m][k].stream]
         /\ \A j \in 1 .. k - 1 : recvClosed[queue[m][j].stream]
<1>1. queue[m] \in Seq(Items) /\ Len(queue[m]) \in Nat /\ DOMAIN queue[m] = 1 .. Len(queue[m])
  BY LenProperties DEF IInv, Types
<1>2. Deliverable(m) \in SUBSET Nat
  BY <1>1 DEF Deliverable
<1>3. k \in Deliverable(m) /\ \A j \in Deliverable(m) : k <= j
  BY <1>2, MinFacts
<1>4. k \in 1 .. Len(queue[m]) /\ ~recvClosed[queue[m][k].stream]
  BY <1>1, <1>3 DEF Deliverable
<1>5. \A j \in 1 .. k - 1 : recvClosed[queue[m][j].stream]
  <2> TAKE j \in 1 .. k - 1
  <2>1. j \in 1 .. Len(queue[m]) /\ ~(k <= j)
    BY <1>1, <1>4
  <2> QED BY <1>1, <1>3, <2>1 DEF Deliverable
<1> QED BY <1>1, <1>4, <1>5, ElementOfSeq DEF IInv, QueueInv

Ended(m) == {s \in StreamsOf(m) : sendClosed[s] /\ ~recvClosed[s]}
Open(m)  == {s \in StreamsOf(m) : ~recvClosed[s]}

(* The stream whose EOF is delivered, and the one mux_done() closes.       *)
LEMMA ClosesFacts ==
  ASSUME NEW m
  PROVE  /\ Ended(m) # {} => /\ Min(Ended(m)) \in Streams /\ MuxOf[Min(Ended(m))] = m
                             /\ sendClosed[Min(Ended(m))] /\ ~recvClosed[Min(Ended(m))]
         /\ Open(m) # {} => Min(Open(m)) \in Streams /\ MuxOf[Min(Open(m))] = m
<1>1. Ended(m) \in SUBSET Nat /\ Open(m) \in SUBSET Nat
  BY StreamFacts DEF Ended, Open
<1>2. Ended(m) # {} => Min(Ended(m)) \in Ended(m)
  BY <1>1, MinFacts
<1>3. Open(m) # {} => Min(Open(m)) \in Open(m)
  BY <1>1, MinFacts
<1> QED BY <1>2, <1>3, StreamFacts DEF Ended, Open

MuxerStep(m) == MuxerNext(m) \/ muxer_thread_stops(m)

(* What muxer threads do to the queues is to take from their own, and to   *)
(* close their own streams.                                                *)
LEMMA MuxerFrame ==
  ASSUME IInv, NEW m \in Muxes, MuxerStep(m)
  PROVE  /\ UNCHANGED <<timing, startVars, premuxVars, init_eof, sendClosed, sendVars, flushed>>
         /\ muxer[m] \in {"running", "closing"}
         /\ muxer' \in [Muxes -> {"none", "running", "closing", "done"}]
         /\ \A n \in Muxes : n # m => muxer'[n] = muxer[n]
         /\ \/ recvClosed' = recvClosed
            \/ \E s \in Streams : MuxOf[s] = m /\ recvClosed' = [recvClosed EXCEPT ![s] = TRUE]
<1> USE DEF queueVars, muxerVars
<1>1. CASE sch_mux_receive(m)
  BY <1>1 DEF sch_mux_receive, IInv, Types
<1>5. CASE sch_mux_receive_waits(m)
  BY <1>5 DEF sch_mux_receive_waits, IInv, Types
<1>2. CASE sch_mux_receive_eof(m)
  BY <1>2, ClosesFacts DEF sch_mux_receive_eof, Ended, IInv, Types
<1>3. CASE muxer_thread_ends(m) \/ muxer_thread_stops(m)
  BY <1>3 DEF muxer_thread_ends, muxer_thread_stops, IInv, Types
<1>4. CASE mux_done(m)
  BY <1>4, ClosesFacts DEF mux_done, Open, IInv, Types
<1> QED BY <1>1, <1>2, <1>3, <1>4, <1>5 DEF MuxerStep, MuxerNext

LEMMA MuxerCloses ==
  ASSUME IInv, NEW m \in Muxes, MuxerStep(m)
  PROVE  /\ \A s \in Streams : recvClosed[s] => recvClosed'[s]
         /\ \A s \in Streams : MuxOf[s] # m => recvClosed'[s] = recvClosed[s]
<1>1. recvClosed \in [Streams -> BOOLEAN]
  BY DEF IInv, Types
<1>2. \/ recvClosed' = recvClosed
      \/ \E s \in Streams : MuxOf[s] = m /\ recvClosed' = [recvClosed EXCEPT ![s] = TRUE]
  BY MuxerFrame
<1> QED BY <1>1, <1>2

LEMMA MuxerTypes ==
  ASSUME IInv, NEW m \in Muxes, MuxerStep(m)
  PROVE  Types'
<1>1. queue' \in [Muxes -> Seq(Items)]
  <2>1. CASE sch_mux_receive(m)
    <3>1. PICK k : k = Min(Deliverable(m)) /\ Deliverable(m) # {}
                   /\ queue' = [queue EXCEPT ![m] = SubSeq(queue[m], k + 1, Len(queue[m]))]
      BY <2>1 DEF sch_mux_receive
    <3>2. SubSeq(queue[m], k + 1, Len(queue[m])) \in Seq(Items)
      <4>1. k \in 1 .. Len(queue[m]) /\ queue[m] \in Seq(Items) /\ Len(queue[m]) \in Nat
        BY <3>1, DeliverableFacts
      <4>2. \A i \in k + 1 .. Len(queue[m]) : queue[m][i] \in Items
        BY <4>1, ElementOfSeq
      <4> QED BY <4>1, <4>2, SubSeqProperties
    <3> QED BY <3>1, <3>2 DEF IInv, Types
  <2>2. CASE ~sch_mux_receive(m)
    <3>1. queue' = queue \/ queue' = [queue EXCEPT ![m] = <<>>]
      BY <2>2 DEF MuxerStep, MuxerNext, sch_mux_receive_eof, sch_mux_receive_waits, muxer_thread_ends,
                  muxer_thread_stops, mux_done, queueVars
    <3>2. <<>> \in Seq(Items)
      OBVIOUS
    <3> QED BY <3>1, <3>2 DEF IInv, Types
  <2> QED BY <2>1, <2>2
<1>2. delivered' \in [Streams -> Nat] /\ eofs' \in [Streams -> Nat]
  <2>1. CASE sch_mux_receive(m)
    <3>1. PICK k : k = Min(Deliverable(m)) /\ Deliverable(m) # {}
                   /\ delivered' = [delivered EXCEPT ![queue[m][k].stream] = queue[m][k].num]
                   /\ eofs' = eofs
      BY <2>1 DEF sch_mux_receive
    <3>2. queue[m][k].num \in Nat
      BY <3>1, DeliverableFacts DEF Items
    <3> QED BY <3>1, <3>2 DEF IInv, Types
  <2>2. CASE sch_mux_receive_eof(m)
    <3>1. PICK s \in Streams : eofs' = [eofs EXCEPT ![s] = eofs[s] + 1] /\ delivered' = delivered
      BY <2>2, ClosesFacts DEF sch_mux_receive_eof, Ended
    <3>2. eofs \in [Streams -> Nat] /\ delivered \in [Streams -> Nat]
      BY DEF IInv, Types
    <3> QED BY <3>1, <3>2
  <2>3. CASE ~sch_mux_receive(m) /\ ~sch_mux_receive_eof(m)
    BY <2>3 DEF MuxerStep, MuxerNext, sch_mux_receive_waits, muxerVars, muxer_thread_ends,
                muxer_thread_stops, mux_done, IInv, Types
  <2> QED BY <2>1, <2>2, <2>3
<1>3. recvClosed' \in [Streams -> BOOLEAN]
  <2>1. recvClosed \in [Streams -> BOOLEAN]
    BY DEF IInv, Types
  <2>2. \/ recvClosed' = recvClosed
        \/ \E s \in Streams : recvClosed' = [recvClosed EXCEPT ![s] = TRUE]
    BY MuxerFrame
  <2> QED BY <2>1, <2>2
<1> QED BY <1>1, <1>2, <1>3, MuxerFrame DEF IInv, Types, startVars, premuxVars, sendVars

LEMMA NextTypes == ASSUME IInv, [Next]_vars PROVE Types'
<1>1. ASSUME NEW s \in Streams, send_packet(s) \/ SendNext(s) PROVE Types'
  BY <1>1, SendTypes DEF SendNext, IInv
<1>2. ASSUME NEW s \in Streams, sch_mux_stream_ready(s) PROVE Types'
  BY <1>2, ReadyTypes DEF IInv
<1>3. ASSUME NEW s \in Streams, sch_mux_receive_finish(s) PROVE Types'
  BY <1>3 DEF sch_mux_receive_finish, startVars, premuxVars, sendVars, muxerVars, IInv, Types
<1>4. CASE mux_task_start
  BY <1>4, FlushTypes
<1>5. ASSUME NEW m \in Muxes, MuxerStep(m) PROVE Types'
  BY <1>5, MuxerTypes
<1>6. CASE UNCHANGED vars
  BY <1>6 DEF vars, IInv, Types
<1> QED BY <1>1, <1>2, <1>3, <1>4, <1>5, <1>6 DEF Next, MuxerStep

-----------------------------------------------------------------------------
(* The senders and the start.                                              *)

SendStep(s) == send_packet(s) \/ SendNext(s)

(* Senders touch neither the start nor other streams' places, and close    *)
(* only streams whose muxer has started.                                   *)
LEMMA SendFrame ==
  ASSUME IInv, NEW s \in Streams, SendStep(s)
  PROVE  /\ UNCHANGED <<timing, startVars, init_eof, recvClosed, muxerVars, flushed>>
         /\ \A r \in Streams : r # s =>
              /\ UNCHANGED <<pc[r], hand[r], accepted[r], premux[r], room[r], data_size[r]>>
              /\ UNCHANGED sendClosed[r]
         /\ pc[s] # "done"
         /\ mux_started[MuxOf[s]] => UNCHANGED premuxVars
         /\ sendClosed'[s] = sendClosed[s] \/ (mux_started[MuxOf[s]] /\ sendClosed'[s] = TRUE)
<1> USE DEF startVars, premuxVars, queueVars, sendVars, muxerVars
<1>1. CASE send_packet(s) \/ send_eof(s)
  BY <1>1 DEF send_packet, send_eof, Look, Goto, IInv, Types
<1>2. CASE send_locked(s)
  <2>1. CASE Queued(s) /\ ~mux_started[MuxOf[s]]
    BY <1>2, <2>1 DEF send_locked, Queued, Sent, Goto, IInv, Types
  <2>2. CASE ~(Queued(s) /\ ~mux_started[MuxOf[s]])
    BY <1>2, <2>2 DEF send_locked, NotQueued, Goto, IInv, Types
  <2> QED BY <2>1, <2>2
<1>3. CASE send_direct(s)
  BY <1>3 DEF send_direct, Sent, Goto, TqClose, IInv, Types, SendInv
<1> QED BY <1>1, <1>2, <1>3 DEF SendStep, SendNext

(* sch_mux_stream_ready() comes before the flush.                          *)
LEMMA ReadyFrame ==
  ASSUME IInv, NEW s \in Streams, sch_mux_stream_ready(s)
  PROVE  /\ UNCHANGED <<timing, mux_started, premuxVars, init_eof, queueVars, sendVars,
                        delivered, eofs, flushed>>
         /\ starting = <<>>
         /\ mux_ready_lock' = Free <=> starting' = <<>>
         /\ \A m \in Muxes : ~Begun(m)' => ~Begun(m) /\ muxer'[m] = muxer[m]
<1>1. UNCHANGED <<timing, mux_started, premuxVars, init_eof, queueVars, sendVars,
                  delivered, eofs, flushed>>
  BY DEF sch_mux_stream_ready, sendVars
<1>2. starting = <<>> /\ mux_ready_lock = Free
  BY DEF sch_mux_stream_ready, IInv, StartInv
<1>3. s # Free
  BY StreamFacts DEF Free
<1>4. CASE ReadyEarly(s) \/ ReadyInitFails(s)
  BY <1>1, <1>2, <1>4 DEF ReadyEarly, ReadyInitFails, Begun
<1>5. CASE ReadyLast(s)
  BY <1>1, <1>2, <1>3, <1>5 DEF ReadyLast, Begun, IInv, Types
<1> QED BY <1>1, <1>2, <1>4, <1>5 DEF sch_mux_stream_ready

(* A packet or the EOF of the muxer that is being started is flushed.      *)
LEMMA FlushFrame ==
  ASSUME IInv, FlushEof \/ FlushPacket, NEW s, s = MinStream
  PROVE  /\ UNCHANGED <<timing, startVars, room, data_size, recvClosed, sendVars, muxerVars>>
         /\ s \in Streams /\ MuxOf[s] = Starting /\ premux[s] # <<>>
         /\ Begun(Starting) /\ Starting \in Muxes
         /\ premux' = [premux EXCEPT ![s] = Tail(premux[s])]
         /\ \A r \in Streams : r # s => UNCHANGED <<sendClosed[r], init_eof[r]>>
         /\ \A m \in Muxes : m # Starting => UNCHANGED flushed[m]
<1>1. /\ UNCHANGED <<timing, startVars, room, data_size, recvClosed, sendVars, muxerVars>>
      /\ mux_ready_lock # Free /\ Waiting # {}
      /\ premux' = [premux EXCEPT ![s] = Tail(premux[s])]
  BY DEF FlushEof, FlushPacket, TakeMinHead
<1>2. s \in Streams /\ MuxOf[s] = Starting /\ premux[s] # <<>> /\ Starting \in Muxes
  BY <1>1, MinStreamFacts
<1>3. Begun(Starting)
  BY <1>1 DEF Begun, Starting, IInv, StartInv
<1>4. \A r \in Streams : r # s => UNCHANGED <<sendClosed[r], init_eof[r]>>
  BY <1>2 DEF FlushEof, FlushPacket, TqClose, IInv, Types
<1>5. \A m \in Muxes : m # Starting => UNCHANGED flushed[m]
  BY <1>2 DEF FlushEof, FlushPacket, IInv, Types
<1> QED BY <1>1, <1>2, <1>3, <1>4, <1>5

LEMMA FlushDoneFrame ==
  ASSUME IInv, FlushDone
  PROVE  /\ UNCHANGED <<timing, premuxVars, init_eof, queueVars, sendVars, delivered, eofs, flushed>>
         /\ Starting \in Muxes /\ Begun(Starting)
         /\ \A s \in StreamsOf(Starting) : premux[s] = <<>>
         /\ mux_started' = [mux_started EXCEPT ![Starting] = TRUE]
         /\ mux_ready_lock' = Free <=> starting' = <<>>
         /\ \A m \in Muxes : ~Begun(m)' => ~Begun(m) /\ muxer'[m] = muxer[m]
<1>1. /\ UNCHANGED <<timing, premuxVars, init_eof, queueVars, sendVars, delivered, eofs, flushed>>
      /\ mux_started' = [mux_started EXCEPT ![Starting] = TRUE]
      /\ mux_ready_lock # Free /\ Waiting = {}
  BY DEF FlushDone
<1>2. starting # <<>> /\ Starting \in Muxes /\ Starting = Head(starting)
  BY <1>1, TailFacts DEF IInv, StartInv, Types, Starting
<1>3. \A s \in StreamsOf(Starting) : premux[s] = <<>>
  BY <1>1 DEF Waiting
<1>4. Begun(Starting)
  BY <1>2 DEF Begun
<1>5. mux_ready_lock' = Free <=> starting' = <<>>
  BY <1>1 DEF FlushDone
<1>6. \A m \in Muxes : ~Begun(m)' => ~Begun(m) /\ muxer'[m] = muxer[m]
  BY <1>1, <1>2 DEF FlushDone, Begun, IInv, Types
<1> QED BY <1>1, <1>2, <1>3, <1>4, <1>5, <1>6

LEMMA NextStartInv == ASSUME IInv, [Next]_vars PROVE StartInv'
<1> USE DEF startVars, premuxVars, queueVars, sendVars, muxerVars
<1>1. ASSUME NEW s \in Streams, SendStep(s) PROVE StartInv'
  <2>1. UNCHANGED <<mux_ready_lock, starting, mux_started, muxer, flushed, recvClosed>>
    BY <1>1, SendFrame
  <2>2. \A r \in Streams : ~mux_started[MuxOf[r]] => sendClosed'[r] = sendClosed[r]
    BY <1>1, SendFrame
  <2> QED BY <2>1, <2>2 DEF StartInv, Begun, IInv
<1>2. ASSUME NEW s \in Streams, sch_mux_stream_ready(s) PROVE StartInv'
  <2>1. /\ UNCHANGED <<sendClosed, recvClosed, flushed>>
        /\ mux_ready_lock' = Free <=> starting' = <<>>
        /\ \A m \in Muxes : ~Begun(m)' => ~Begun(m) /\ muxer'[m] = muxer[m]
    BY <1>2, ReadyFrame
  <2> QED BY <2>1, StreamFacts DEF StartInv, IInv
<1>3. ASSUME NEW s \in Streams, sch_mux_receive_finish(s) PROVE StartInv'
  <2>1. /\ UNCHANGED <<mux_ready_lock, starting, mux_started, muxer, flushed, sendClosed>>
        /\ recvClosed' = [recvClosed EXCEPT ![s] = TRUE]
        /\ muxer[MuxOf[s]] # "none"
    BY <1>3 DEF sch_mux_receive_finish
  <2>2. Begun(MuxOf[s])
    BY <2>1, StreamFacts DEF IInv, StartInv
  <2> QED BY <2>1, <2>2 DEF StartInv, Begun, IInv, Types
<1>4. CASE FlushEof \/ FlushPacket
  <2> DEFINE s == MinStream
  <2>1. /\ UNCHANGED <<mux_ready_lock, starting, mux_started, muxer, recvClosed>>
        /\ MuxOf[s] = Starting /\ Begun(Starting)
        /\ \A r \in Streams : r # s => UNCHANGED <<sendClosed[r], init_eof[r]>>
        /\ \A m \in Muxes : m # Starting => UNCHANGED flushed[m]
    BY <1>4, FlushFrame
  <2> QED BY <2>1 DEF StartInv, Begun, IInv
<1>5. CASE FlushDone
  <2>1. /\ UNCHANGED <<sendClosed, recvClosed, flushed>>
        /\ mux_ready_lock' = Free <=> starting' = <<>>
        /\ \A m \in Muxes : ~Begun(m)' => ~Begun(m) /\ muxer'[m] = muxer[m]
    BY <1>5, FlushDoneFrame
  <2> QED BY <2>1, StreamFacts DEF StartInv, IInv
<1>6. ASSUME NEW m \in Muxes, MuxerStep(m) PROVE StartInv'
  <2>1. /\ UNCHANGED <<mux_ready_lock, starting, mux_started, flushed, sendClosed>>
        /\ muxer[m] # "none"
        /\ \A n \in Muxes : n # m => muxer'[n] = muxer[n]
    BY <1>6, MuxerFrame
  <2>3. \A s \in Streams : MuxOf[s] # m => recvClosed'[s] = recvClosed[s]
    BY <1>6, MuxerCloses
  <2>2. Begun(m)
    BY <2>1 DEF IInv, StartInv
  <2> QED BY <2>1, <2>2, <2>3, StreamFacts DEF StartInv, Begun, IInv
<1>7. CASE UNCHANGED vars
  BY <1>7 DEF vars, StartInv, Begun, IInv
<1> QED BY <1>1, <1>2, <1>3, <1>4, <1>5, <1>6, <1>7
        DEF Next, SendStep, MuxerStep, mux_task_start

LEMMA NextSendInv == ASSUME IInv, [Next]_vars PROVE SendInv'
<1> USE DEF startVars, premuxVars, queueVars, sendVars, muxerVars
<1>1. ASSUME NEW s \in Streams, SendStep(s) PROVE SendInv'
  <2>1. UNCHANGED <<timing, mux_started>>
        /\ \A r \in Streams : r # s => UNCHANGED <<pc[r], hand[r], accepted[r]>>
    BY <1>1, SendFrame
  <2>2. /\ accepted'[s] <= Len(timing[s])
        /\ pc'[s] \in {"locking", "sending"} /\ hand'[s] # Eof =>
             hand'[s] = accepted'[s] + 1 /\ hand'[s] <= Len(timing[s])
        /\ pc'[s] = "sending" => mux_started[MuxOf[s]]
    <3>1. CASE send_packet(s)
      BY <3>1, StateFacts DEF send_packet, Look, Goto, IInv, Types, SendInv
    <3>2. CASE send_eof(s)
      BY <3>2, StateFacts DEF send_eof, Look, Goto, IInv, Types, SendInv
    <3>3. CASE send_locked(s)
      BY <3>3, StateFacts
      DEF send_locked, Queued, NotQueued, Sent, Size, Goto, IInv, Types, SendInv
    <3>4. CASE send_direct(s)
      BY <3>4, StateFacts DEF send_direct, Sent, Size, Goto, IInv, Types, SendInv
    <3> QED BY <1>1, <3>1, <3>2, <3>3, <3>4 DEF SendStep, SendNext
  <2> QED BY <2>1, <2>2 DEF SendInv, IInv
<1>2. ASSUME UNCHANGED <<timing, pc, hand, accepted>>,
             \A m \in Muxes : mux_started[m] => mux_started'[m]
      PROVE  SendInv'
  BY <1>2, StreamFacts DEF SendInv, IInv
<1>3. ASSUME NEW s \in Streams, sch_mux_stream_ready(s) \/ sch_mux_receive_finish(s)
      PROVE  SendInv'
  BY <1>2, <1>3 DEF sch_mux_stream_ready, sch_mux_receive_finish
<1>4. CASE mux_task_start
  BY <1>2, <1>4, FlushFrame, FlushDoneFrame DEF mux_task_start, IInv, Types
<1>5. ASSUME NEW m \in Muxes, MuxerStep(m) PROVE SendInv'
  BY <1>2, <1>5, MuxerFrame
<1>6. CASE UNCHANGED vars
  BY <1>2, <1>6 DEF vars
<1> QED BY <1>1, <1>3, <1>4, <1>5, <1>6 DEF Next, SendStep, MuxerStep

LEMMA NextStranded == ASSUME IInv, [Next]_vars PROVE NothingStranded'
<1> USE DEF startVars, premuxVars, queueVars, sendVars, muxerVars
<1>1. ASSUME NEW s \in Streams, SendStep(s) PROVE NothingStranded'
  <2>1. /\ mux_started' = mux_started
        /\ \A r \in Streams : r # s => premux'[r] = premux[r]
        /\ mux_started[MuxOf[s]] => premux' = premux
    BY <1>1, SendFrame
  <2> QED BY <2>1 DEF NothingStranded, IInv
<1>2. ASSUME UNCHANGED <<premux, mux_started>> PROVE NothingStranded'
  BY <1>2 DEF NothingStranded, IInv
<1>3. CASE FlushEof \/ FlushPacket
  <2> DEFINE s == MinStream
  <2>1. /\ s \in Streams /\ premux[s] # <<>> /\ UNCHANGED mux_started
        /\ \A r \in Streams : r # s => premux'[r] = premux[r]
    BY <1>3, FlushFrame DEF IInv, Types
  <2> QED BY <2>1 DEF NothingStranded, IInv
<1>4. CASE FlushDone
  <2>1. /\ UNCHANGED premux
        /\ \A s \in StreamsOf(Starting) : premux[s] = <<>>
        /\ mux_started' = [mux_started EXCEPT ![Starting] = TRUE]
    BY <1>4, FlushDoneFrame
  <2>2. \A s \in Streams : MuxOf[s] = Starting => premux[s] = <<>>
    BY <2>1 DEF StreamsOf
  <2>3. \A m \in Muxes : m # Starting => mux_started'[m] = mux_started[m]
    BY <2>1 DEF IInv, Types
  <2> QED BY <2>1, <2>2, <2>3, StreamFacts DEF NothingStranded, IInv
<1>5. ASSUME NEW s \in Streams, sch_mux_stream_ready(s) \/ sch_mux_receive_finish(s)
      PROVE  NothingStranded'
  BY <1>2, <1>5 DEF sch_mux_stream_ready, sch_mux_receive_finish
<1>6. ASSUME NEW m \in Muxes, MuxerStep(m) PROVE NothingStranded'
  BY <1>2, <1>6, MuxerFrame
<1>7. CASE UNCHANGED vars
  BY <1>2, <1>7 DEF vars
<1> QED BY <1>1, <1>3, <1>4, <1>5, <1>6, <1>7 DEF Next, SendStep, MuxerStep, mux_task_start

LEMMA NextClosedInv == ASSUME IInv, [Next]_vars PROVE ClosedInv'
<1> USE DEF startVars, premuxVars, queueVars, sendVars, muxerVars
<1>1. ASSUME NEW s \in Streams, SendStep(s) PROVE ClosedInv'
  <2>1. /\ UNCHANGED <<init_eof, recvClosed>>
        /\ \A r \in Streams : r # s => UNCHANGED <<premux[r], sendClosed[r]>>
    BY <1>1, SendFrame
  <2>2. sendClosed'[s] /\ ~recvClosed[s] => premux'[s] = <<>>
    <3>1. CASE mux_started[MuxOf[s]]
      <4>1. premux' = premux
        BY <1>1, <3>1, SendFrame
      <4> QED BY <3>1, <4>1 DEF IInv, NothingStranded
    <3>2. CASE ~mux_started[MuxOf[s]] /\ ~sendClosed[s]
      BY <1>1, <3>2, SendFrame
    <3>3. CASE ~mux_started[MuxOf[s]] /\ sendClosed[s]
      <4>1. starting # <<>> /\ mux_ready_lock # Free
        BY <3>3 DEF IInv, StartInv, Begun
      <4>2. premux' = premux
        BY <1>1, <4>1 DEF SendStep, SendNext, send_packet, send_eof, Look, send_locked,
                          send_direct
      <4> QED BY <3>3, <4>2 DEF IInv, ClosedInv
    <3> QED BY <3>1, <3>2, <3>3
  <2> QED BY <2>1, <2>2 DEF ClosedInv, IInv
<1>2. ASSUME UNCHANGED <<premux, init_eof, sendClosed>>,
             \A s \in Streams : recvClosed[s] => recvClosed'[s]
      PROVE  ClosedInv'
  BY <1>2 DEF ClosedInv, IInv
<1>3. CASE FlushEof
  <2>1. PICK s \in Streams :
        /\ premux[s] # <<>> /\ UNCHANGED recvClosed
        /\ premux' = [premux EXCEPT ![s] = Tail(premux[s])]
        /\ \A r \in Streams : r # s => UNCHANGED <<sendClosed[r], init_eof[r]>>
        /\ init_eof' = init_eof /\ Head(premux[s]) = Eof
    BY <1>3, FlushFrame DEF FlushEof, MinHead
  <2>2. Tail(premux[s]) = <<>>
    BY <2>1, EofIsLast DEF IInv
  <2>3. premux'[s] = <<>> /\ \A r \in Streams : r # s => premux'[r] = premux[r]
    BY <2>1, <2>2 DEF IInv, Types
  <2> QED BY <2>1, <2>3 DEF ClosedInv, IInv
<1>4. CASE FlushPacket
  <2> DEFINE s == MinStream
  <2>1. /\ s \in Streams /\ premux[s] # <<>> /\ UNCHANGED recvClosed
        /\ premux' = [premux EXCEPT ![s] = Tail(premux[s])]
        /\ \A r \in Streams : r # s => UNCHANGED <<sendClosed[r], init_eof[r]>>
    BY <1>4, FlushFrame
  <2>2. \/ UNCHANGED <<init_eof, sendClosed>>
        \/ recvClosed[s]
    BY <1>4 DEF FlushPacket, TqEof
  <2> HIDE DEF s
  <2>3. \A r \in Streams : r # s => premux'[r] = premux[r]
    BY <2>1 DEF IInv, Types
  <2>4. sendClosed[s] => recvClosed[s]
    BY <2>1 DEF IInv, ClosedInv
  <2> QED BY <2>1, <2>2, <2>3, <2>4 DEF ClosedInv, IInv
<1>5. CASE FlushDone
  BY <1>2, <1>5, FlushDoneFrame
<1>6. ASSUME NEW s \in Streams, sch_mux_stream_ready(s) PROVE ClosedInv'
  BY <1>2, <1>6 DEF sch_mux_stream_ready
<1>7. ASSUME NEW s \in Streams, sch_mux_receive_finish(s) PROVE ClosedInv'
  BY <1>2, <1>7 DEF sch_mux_receive_finish, IInv, Types
<1>8. ASSUME NEW m \in Muxes, MuxerStep(m) PROVE ClosedInv'
  BY <1>2, <1>8, MuxerFrame, MuxerCloses
<1>9. CASE UNCHANGED vars
  BY <1>2, <1>9 DEF vars
<1> QED BY <1>1, <1>3, <1>4, <1>5, <1>6, <1>7, <1>8, <1>9
        DEF Next, SendStep, MuxerStep, mux_task_start

-----------------------------------------------------------------------------
(* The FIFOs.                                                              *)

LEMMA LeftSame ==
  ASSUME NEW s \in Streams, premux'[s] = premux[s], accepted'[s] = accepted[s]
  PROVE  HasEof(s)' = HasEof(s) /\ Packets(s)' = Packets(s) /\ Left(s)' = Left(s)
<1>1. HasEof(s)' = HasEof(s)
  BY DEF HasEof
<1> QED BY <1>1 DEF Packets, Left

(* A packet or an EOF goes into the FIFO.                                  *)
LEMMA AppendLeft ==
  ASSUME IInv, NEW s \in Streams, pc[s] = "locking", Queued(s)
  PROVE  /\ ~HasEof(s)
         /\ HasEof(s)' <=> hand[s] = Eof
         /\ Packets(s) = Len(premux[s])
         /\ Packets(s)' = Packets(s) + Size(hand[s])
         /\ Left(s)' = Left(s)
         /\ accepted'[s] = accepted[s] + Size(hand[s])
         /\ premux'[s] = Append(premux[s], hand[s])
         /\ Len(premux'[s]) = Len(premux[s]) + 1
         /\ \A k \in 1 .. Len(premux[s]) : premux'[s][k] = premux[s][k] /\ premux[s][k] # Eof
         /\ premux'[s][Len(premux[s]) + 1] = hand[s]
<1> DEFINE n == Len(premux[s])
<1>1. /\ premux[s] \in Seq(Nat) /\ n \in Nat /\ hand[s] \in Nat /\ accepted[s] \in Nat
      /\ DOMAIN premux[s] = 1 .. n
  BY StateFacts, HasEofFacts DEF IInv, Types
<1>2. /\ premux'[s] = Append(premux[s], hand[s])
      /\ accepted'[s] = accepted[s] + Size(hand[s])
  BY DEF Queued, Sent, IInv, Types
<1>3. ~HasEof(s)
  BY HasEofFacts DEF IInv
<1>4. /\ premux'[s] \in Seq(Nat) /\ Len(premux'[s]) = n + 1
      /\ DOMAIN premux'[s] = 1 .. n + 1
      /\ \A k \in 1 .. n : premux'[s][k] = premux[s][k]
      /\ premux'[s][n + 1] = hand[s]
  <2>1. /\ Append(premux[s], hand[s]) \in Seq(Nat)
        /\ Len(Append(premux[s], hand[s])) = n + 1
        /\ \A k \in 1 .. n : Append(premux[s], hand[s])[k] = premux[s][k]
        /\ Append(premux[s], hand[s])[n + 1] = hand[s]
    BY <1>1, AppendProperties
  <2> QED BY <1>2, <2>1, LenProperties
<1>5. \A k \in 1 .. n : premux[s][k] # Eof
  BY <1>1, <1>3 DEF HasEof
<1>6. HasEof(s)' <=> hand[s] = Eof
  <2>1. HasEof(s)' <=> \E k \in 1 .. n + 1 : premux'[s][k] = Eof
    BY <1>4 DEF HasEof
  <2>2. ASSUME NEW k \in 1 .. n + 1, premux'[s][k] = Eof PROVE hand[s] = Eof
    <3>1. k \notin 1 .. n
      BY <1>4, <1>5, <2>2
    <3>2. k = n + 1
      BY <1>1, <2>2, <3>1
    <3> QED BY <1>4, <2>2, <3>2
  <2>3. n + 1 \in 1 .. n + 1
    BY <1>1
  <2> HIDE DEF n
  <2> QED BY <1>4, <2>1, <2>2, <2>3
<1>7. Packets(s) = n
  BY <1>3 DEF Packets
<1>8. Packets(s)' = n + Size(hand[s])
  <2>1. Packets(s)' = IF HasEof(s)' THEN n + 1 - 1 ELSE n + 1
    BY <1>4 DEF Packets
  <2>2. CASE hand[s] = Eof
    <3>1. HasEof(s)'
      BY <1>6, <2>2
    <3> QED BY <1>1, <2>1, <2>2, <3>1 DEF Size
  <2>3. CASE hand[s] # Eof
    <3>1. ~HasEof(s)'
      BY <1>6, <2>3
    <3> QED BY <1>1, <2>1, <2>3, <3>1 DEF Size
  <2> QED BY <2>2, <2>3
<1>9. Left(s)' = Left(s)
  <2>1. Left(s)' = accepted'[s] - Packets(s)' /\ Left(s) = accepted[s] - Packets(s)
    BY DEF Left
  <2>2. Size(hand[s]) \in Nat
    BY StateFacts DEF IInv
  <2> HIDE DEF n
  <2> QED BY <1>1, <1>2, <1>7, <1>8, <2>1, <2>2 DEF n
<1> QED BY <1>2, <1>3, <1>4, <1>5, <1>6, <1>7, <1>8, <1>9

(* The first one is taken out.                                             *)
LEMMA TailLeft ==
  ASSUME IInv, NEW s \in Streams, premux[s] # <<>>, premux'[s] = Tail(premux[s]),
         accepted'[s] = accepted[s]
  PROVE  /\ HasEof(s)' <=> HasEof(s) /\ Head(premux[s]) # Eof
         /\ Left(s)' = Left(s) + Size(Head(premux[s]))
         /\ Head(premux[s]) # Eof => Head(premux[s]) = Left(s) + 1
         /\ Head(premux[s]) = Eof => HasEof(s)
         /\ Len(premux'[s]) = Len(premux[s]) - 1
         /\ \A k \in 1 .. Len(premux[s]) - 1 : premux'[s][k] = premux[s][k + 1]
<1> DEFINE n == Len(premux[s])
<1>1. /\ premux[s] \in Seq(Nat) /\ n \in Nat /\ n >= 1 /\ accepted[s] \in Nat
      /\ Packets(s) \in Nat /\ Left(s) \in Int
      /\ DOMAIN premux[s] = 1 .. n /\ Head(premux[s]) = premux[s][1]
  BY StateFacts, HasEofFacts, TailFacts DEF IInv, Types
<1>2. /\ premux'[s] \in Seq(Nat) /\ Len(premux'[s]) = n - 1
      /\ \A k \in 1 .. n - 1 : premux'[s][k] = premux[s][k + 1]
      /\ DOMAIN premux'[s] = 1 .. n - 1
  BY <1>1, TailFacts, LenProperties
<1>3. /\ HasEof(s) <=> \E k \in 1 .. n : premux[s][k] = Eof
      /\ HasEof(s)' <=> \E k \in 1 .. n - 1 : premux[s][k + 1] = Eof
  BY <1>1, <1>2 DEF HasEof
<1>4. Packets(s) = (IF HasEof(s) THEN n - 1 ELSE n)
      /\ Packets(s)' = (IF HasEof(s)' THEN n - 2 ELSE n - 1)
  BY <1>1, <1>2 DEF Packets
<1>5. Left(s)' = accepted[s] - Packets(s)' /\ Left(s) = accepted[s] - Packets(s)
  BY DEF Left
<1>6. CASE Head(premux[s]) = Eof
  <2>1. n = 1
    BY <1>6, EofIsLast DEF IInv
  <2>2. HasEof(s) /\ ~HasEof(s)'
    BY <1>1, <1>3, <1>6, <2>1
  <2> HIDE DEF n
  <2> QED BY <1>1, <1>2, <1>4, <1>5, <1>6, <2>1, <2>2 DEF Size, n
<1>7. CASE Head(premux[s]) # Eof
  <2>1. HasEof(s)' <=> HasEof(s)
    <3>1. ASSUME HasEof(s) PROVE HasEof(s)'
      <4>1. PICK k \in 1 .. n : premux[s][k] = Eof
        BY <1>3, <3>1
      <4>2. k - 1 \in 1 .. n - 1 /\ premux[s][(k - 1) + 1] = Eof
        BY <1>1, <1>7, <4>1
      <4> QED BY <1>3, <4>2
    <3>2. ASSUME HasEof(s)' PROVE HasEof(s)
      BY <1>1, <1>3, <3>2
    <3> QED BY <3>1, <3>2
  <2>2. Head(premux[s]) = Left(s) + 1
    BY <1>1, <1>7 DEF IInv, FifoInv
  <2> HIDE DEF n
  <2> QED BY <1>1, <1>2, <1>4, <1>5, <1>7, <2>1, <2>2 DEF Size, n
<1> QED BY <1>6, <1>7

(* What FifoInv says of one stream.                                        *)
InFifo(s) ==
  \A k \in 1 .. Len(premux[s]) :
    IF premux[s][k] = Eof THEN k = Len(premux[s]) /\ pc[s] = "done"
                          ELSE premux[s][k] = Left(s) + k

LEMMA InFifoSame ==
  ASSUME IInv, NEW s \in Streams, premux'[s] = premux[s], accepted'[s] = accepted[s],
         pc[s] = "done" => pc'[s] = "done"
  PROVE  InFifo(s)'
<1>1. InFifo(s) /\ Left(s)' = Left(s)
  BY LeftSame DEF IInv, FifoInv, InFifo
<1> QED BY <1>1 DEF InFifo

LEMMA SendInFifo ==
  ASSUME IInv, NEW s \in Streams, SendStep(s)
  PROVE  InFifo(s)'
<1>1. CASE send_locked(s) /\ Queued(s) /\ ~mux_started[MuxOf[s]]
  <2>1. pc[s] = "locking"
    BY <1>1 DEF send_locked
  <2>2. /\ Left(s)' = Left(s) /\ Left(s) = accepted[s] - Len(premux[s])
        /\ Len(premux'[s]) = Len(premux[s]) + 1 /\ Len(premux[s]) \in Nat
        /\ \A k \in 1 .. Len(premux[s]) : premux'[s][k] = premux[s][k] /\ premux[s][k] # Eof
        /\ premux'[s][Len(premux[s]) + 1] = hand[s]
    BY <1>1, <2>1, AppendLeft, HasEofFacts DEF Left, IInv
  <2>3. hand[s] # Eof => hand[s] = accepted[s] + 1
    BY <2>1 DEF IInv, SendInv
  <2>4. hand[s] = Eof => pc'[s] = "done"
    BY <1>1 DEF Queued, Sent, Goto, IInv, Types
  <2>5. \A k \in 1 .. Len(premux[s]) : premux[s][k] = Left(s) + k
    BY <2>2 DEF IInv, FifoInv
  <2>6. accepted[s] \in Nat
    BY StateFacts DEF IInv
  <2> SUFFICES ASSUME NEW k \in 1 .. Len(premux'[s])
               PROVE  IF premux'[s][k] = Eof THEN k = Len(premux'[s]) /\ pc'[s] = "done"
                                             ELSE premux'[s][k] = Left(s)' + k
    BY DEF InFifo
  <2>7. CASE k \in 1 .. Len(premux[s])
    BY <2>2, <2>5, <2>7
  <2>8. CASE k = Len(premux[s]) + 1
    BY <2>2, <2>3, <2>4, <2>6, <2>8
  <2> QED BY <2>2, <2>7, <2>8
<1>2. CASE ~(send_locked(s) /\ Queued(s) /\ ~mux_started[MuxOf[s]])
  <2>1. CASE UNCHANGED <<premux, accepted>>
    BY <1>1, <2>1, SendFrame, InFifoSame
  <2>2. CASE send_direct(s)
    <3>1. premux' = premux /\ premux[s] = <<>>
      BY <2>2 DEF send_direct, premuxVars, IInv, SendInv, NothingStranded
    <3> QED BY <3>1 DEF InFifo
  <2> QED BY <1>1, <1>2, <2>1, <2>2
      DEF SendStep, SendNext, send_packet, send_eof, Look, send_locked, NotQueued, premuxVars
<1> QED BY <1>1, <1>2

LEMMA NextFifoInv == ASSUME IInv, [Next]_vars PROVE FifoInv'
<1> USE DEF startVars, premuxVars, queueVars, sendVars, muxerVars
<1> SUFFICES ASSUME NEW r \in Streams PROVE InFifo(r)'
  BY DEF FifoInv, InFifo
<1>1. ASSUME NEW s \in Streams, SendStep(s) PROVE InFifo(r)'
  <2>1. CASE r # s
    BY <1>1, <2>1, SendFrame, InFifoSame
  <2>2. CASE r = s
    BY <1>1, <2>2, SendInFifo
  <2> QED BY <2>1, <2>2
<1>2. CASE FlushEof \/ FlushPacket
  <2>1. PICK s \in Streams : /\ premux[s] # <<>> /\ UNCHANGED <<pc, accepted>>
                             /\ premux' = [premux EXCEPT ![s] = Tail(premux[s])]
    BY <1>2, FlushFrame
  <2>2. CASE r # s
    <3>1. premux'[r] = premux[r]
      BY <2>1, <2>2 DEF IInv, Types
    <3> QED BY <2>1, <3>1, InFifoSame
  <2>3. CASE r = s
    <3>1. premux'[s] = Tail(premux[s])
      BY <2>1 DEF IInv, Types
    <3>2. /\ Left(s)' = Left(s) + Size(Head(premux[s]))
          /\ Len(premux'[s]) = Len(premux[s]) - 1 /\ Len(premux[s]) \in Nat /\ Left(s) \in Int
          /\ \A k \in 1 .. Len(premux[s]) - 1 : premux'[s][k] = premux[s][k + 1]
          /\ Head(premux[s]) = Eof => Len(premux[s]) = 1
      BY <2>1, <3>1, TailLeft, HasEofFacts, EofIsLast DEF IInv
    <3>3. InFifo(s)
      BY DEF IInv, FifoInv, InFifo
    <3> SUFFICES ASSUME NEW k \in 1 .. Len(premux'[s])
                 PROVE  IF premux'[s][k] = Eof THEN k = Len(premux'[s]) /\ pc'[s] = "done"
                                               ELSE premux'[s][k] = Left(s)' + k
      BY <2>3 DEF InFifo
    <3>4. k + 1 \in 1 .. Len(premux[s]) /\ premux'[s][k] = premux[s][k + 1]
      BY <3>2
    <3>5. Left(s)' = Left(s) + 1
      BY <3>2, <3>4 DEF Size
    <3>6. IF premux[s][k + 1] = Eof THEN k + 1 = Len(premux[s]) /\ pc[s] = "done"
                                    ELSE premux[s][k + 1] = Left(s) + (k + 1)
      BY <3>3, <3>4 DEF InFifo
    <3>7. k \in Int /\ pc' = pc
      BY <2>1
    <3> HIDE DEF Left
    <3> QED BY <3>2, <3>4, <3>5, <3>6, <3>7
  <2> QED BY <2>2, <2>3
<1>3. ASSUME UNCHANGED <<premux, accepted, pc>> PROVE InFifo(r)'
  BY <1>3, InFifoSame
<1>4. ASSUME NEW s \in Streams, sch_mux_stream_ready(s) \/ sch_mux_receive_finish(s)
      PROVE  InFifo(r)'
  BY <1>3, <1>4 DEF sch_mux_stream_ready, sch_mux_receive_finish
<1>5. CASE FlushDone
  BY <1>3, <1>5, FlushDoneFrame
<1>6. ASSUME NEW m \in Muxes, MuxerStep(m) PROVE InFifo(r)'
  BY <1>3, <1>6, MuxerFrame
<1>7. CASE UNCHANGED vars
  BY <1>3, <1>7 DEF vars
<1> QED BY <1>1, <1>2, <1>4, <1>5, <1>6, <1>7 DEF Next, SendStep, MuxerStep, mux_task_start

(* What RoomInv says of one stream, and of its FIFO when it grows.         *)
HasRoom(s) ==
  /\ ~Begun(MuxOf[s]) => data_size[s] = Packets(s)
  /\ room[s] <= Largest

LEMMA RoomIsLimited ==
  ASSUME IInv, NEW s \in Streams, ~Begun(MuxOf[s]), pc[s] = "locking"
  PROVE  NewRoom(s) \in Nat /\ NewRoom(s) <= Largest
<1>1. /\ room[s] \in Nat /\ MaxPackets \in Nat /\ DataThreshold \in Nat /\ data_size[s] \in Nat
      /\ Size(hand[s]) \in Nat
      /\ MaxPackets <= Largest /\ 2 * DataThreshold <= Largest /\ Largest \in Nat
      /\ room[s] <= Largest /\ Len(premux[s]) \in Nat /\ data_size[s] = Packets(s)
  BY StateFacts, LargestFacts, HasEofFacts DEF IInv, RoomInv
<1>2. Packets(s) = Len(premux[s])
  BY HasEofFacts DEF Packets, IInv
<1> DEFINE limit == Min({2 * room[s], MaxPackets})
<1>3. limit \in Nat /\ limit <= MaxPackets
  BY <1>1, MinOfTwo
<1>4. Max({room[s], limit}) = IF room[s] >= limit THEN room[s] ELSE limit
  <2> HIDE DEF limit
  <2> QED BY <1>1, <1>3, MaxOfTwo
<1>5. CASE Len(premux[s]) < room[s]
  BY <1>1, <1>5 DEF NewRoom
<1>6. CASE ~(Len(premux[s]) < room[s]) /\ ThreshReached(s)
  <2>1. NewRoom(s) = Max({room[s], limit})
    BY <1>6 DEF NewRoom
  <2> HIDE DEF limit
  <2> QED BY <1>1, <1>3, <1>4, <2>1
<1>7. CASE ~(Len(premux[s]) < room[s]) /\ ~ThreshReached(s)
  BY <1>1, <1>2, <1>7 DEF NewRoom, ThreshReached
<1> QED BY <1>5, <1>6, <1>7

LEMMA NextRoomInv == ASSUME IInv, [Next]_vars PROVE RoomInv'
<1> USE DEF startVars, premuxVars, queueVars, sendVars, muxerVars
<1> SUFFICES ASSUME NEW r \in Streams PROVE HasRoom(r)'
  BY DEF RoomInv, HasRoom
<1>1. HasRoom(r)
  BY DEF IInv, RoomInv, HasRoom
<1>2. ASSUME ~Begun(MuxOf[r])' => ~Begun(MuxOf[r]) /\ premux'[r] = premux[r] /\ accepted'[r] = accepted[r],
             data_size'[r] = data_size[r], room'[r] = room[r]
      PROVE  HasRoom(r)'
  BY <1>1, <1>2, LeftSame DEF HasRoom, Largest
<1>3. ASSUME NEW s \in Streams, SendStep(s) PROVE HasRoom(r)'
  <2>1. UNCHANGED <<starting, mux_started>> /\ Begun(MuxOf[r])' = Begun(MuxOf[r])
    BY <1>3, SendFrame DEF Begun
  <2>2. CASE r # s
    BY <1>2, <1>3, <2>1, <2>2, SendFrame
  <2>3. CASE r = s /\ send_locked(s) /\ Queued(s) /\ ~mux_started[MuxOf[s]]
    <3>1. pc[s] = "locking" /\ ~Begun(MuxOf[s])
      BY <2>3 DEF send_locked, IInv, StartInv, Begun
    <3>2. NewRoom(s) \in Nat /\ NewRoom(s) <= Largest
      BY <3>1, RoomIsLimited
    <3>3. room'[s] = NewRoom(s) /\ data_size'[s] = data_size[s] + Size(hand[s])
      BY <2>3 DEF Queued, IInv, Types
    <3>4. Packets(s)' = Packets(s) + Size(hand[s])
      BY <2>3, <3>1, AppendLeft
    <3>5. data_size[s] = Packets(s)
      BY <1>1, <2>3, <3>1 DEF HasRoom
    <3> QED BY <2>3, <3>2, <3>3, <3>4, <3>5 DEF HasRoom, Largest
  <2>4. CASE r = s /\ ~(send_locked(s) /\ Queued(s) /\ ~mux_started[MuxOf[s]])
    <3>1. UNCHANGED premuxVars
      BY <1>3, <2>4 DEF SendStep, SendNext, send_packet, send_eof, Look, send_locked, NotQueued,
                        send_direct
    <3>2. UNCHANGED accepted \/ mux_started[MuxOf[s]]
      BY <1>3, <2>4 DEF SendStep, SendNext, send_packet, send_eof, Look, send_locked, NotQueued,
                        send_direct, IInv, SendInv
    <3> QED BY <1>2, <2>1, <2>4, <3>1, <3>2 DEF Begun
  <2> QED BY <2>2, <2>3, <2>4
<1>4. ASSUME NEW s \in Streams, sch_mux_stream_ready(s) PROVE HasRoom(r)'
  BY <1>2, <1>4, ReadyFrame, StreamFacts
<1>5. ASSUME UNCHANGED <<starting, mux_started, premux, accepted, data_size, room>> PROVE HasRoom(r)'
  BY <1>2, <1>5 DEF Begun
<1>6. CASE FlushEof \/ FlushPacket
  <2>1. PICK s \in Streams :
          /\ UNCHANGED <<starting, mux_started, room, data_size, accepted>>
          /\ Begun(MuxOf[s])
          /\ premux' = [premux EXCEPT ![s] = Tail(premux[s])]
    BY <1>6, FlushFrame
  <2>2. Begun(MuxOf[r])' = Begun(MuxOf[r])
    BY <2>1 DEF Begun
  <2>3. r # s => premux'[r] = premux[r]
    BY <2>1 DEF IInv, Types
  <2> QED BY <1>2, <2>1, <2>2, <2>3
<1>7. CASE FlushDone
  BY <1>2, <1>7, FlushDoneFrame, StreamFacts
<1>8. ASSUME NEW s \in Streams, sch_mux_receive_finish(s) PROVE HasRoom(r)'
  BY <1>5, <1>8 DEF sch_mux_receive_finish
<1>9. ASSUME NEW m \in Muxes, MuxerStep(m) PROVE HasRoom(r)'
  BY <1>5, <1>9, MuxerFrame
<1>10. CASE UNCHANGED vars
  BY <1>5, <1>10 DEF vars
<1> QED BY <1>3, <1>4, <1>6, <1>7, <1>8, <1>9, <1>10
        DEF Next, SendStep, MuxerStep, mux_task_start

-----------------------------------------------------------------------------
(* The queues of the muxers.                                               *)

QueueShape(m) ==
  /\ Len(queue[m]) <= QueueSize
  /\ \A k \in 1 .. Len(queue[m]) : MuxOf[queue[m][k].stream] = m

LEMMA OnTheWaySame ==
  ASSUME NEW s \in Streams, OnTheWay(s), queue'[MuxOf[s]] = queue[MuxOf[s]],
         delivered'[s] = delivered[s], Left(s)' = Left(s)
  PROVE  OnTheWay(s)'
BY DEF OnTheWay

(* An item at the end of a queue.                                          *)
LEMMA AppendItem ==
  ASSUME NEW q \in Seq(Items), NEW e \in Items
  PROVE  /\ Len(q) \in Nat /\ Append(q, e) \in Seq(Items)
         /\ Len(Append(q, e)) = Len(q) + 1
         /\ \A k \in 1 .. Len(q) : Append(q, e)[k] = q[k]
         /\ Append(q, e)[Len(q) + 1] = e
         /\ e.stream \in Streams /\ e.num \in Nat
         /\ \A k \in 1 .. Len(q) : q[k].stream \in Streams /\ q[k].num \in Nat
<1>1. \A k \in 1 .. Len(q) : q[k] \in Items
  BY ElementOfSeq
<1> QED BY <1>1, AppendProperties, LenProperties DEF Items

LEMMA CarriedNext ==
  ASSUME NEW q \in Seq(Items), NEW s \in Streams, NEW d \in Nat, NEW left \in Int,
         NEW e \in Items, e.stream = s, e.num = left + 1, Carried(q, s, d, left)
  PROVE  Carried(Append(q, e), s, d, left + 1)
<1> DEFINE p == Append(q, e)
           l == Len(q)
<1>1. /\ l \in Nat /\ Len(p) = l + 1 /\ p[l + 1] = e
      /\ \A k \in 1 .. l : p[k] = q[k] /\ q[k].num \in Nat
      /\ e.num \in Nat
  BY AppendItem
<1>2. /\ d <= left
      /\ \A n \in d + 1 .. left : \E k \in 1 .. l : q[k].stream = s /\ q[k].num = n
      /\ \A k \in 1 .. l : q[k].stream = s => InPlace(q, s, d, left, k)
  BY DEF Carried
<1>3. \A k \in 1 .. l : q[k].stream = s =>
        /\ d < q[k].num /\ q[k].num <= left
        /\ left - q[k].num <= l - k
        /\ \A j \in 1 .. k - 1 : q[j].stream = s => q[j].num < q[k].num
  BY <1>2 DEF InPlace
<1> HIDE DEF p, l
<1>4. ASSUME NEW n \in d + 1 .. left + 1
      PROVE  \E k \in 1 .. l + 1 : p[k].stream = s /\ p[k].num = n
  <2>1. CASE n = left + 1
    <3>1. l + 1 \in 1 .. l + 1
      BY <1>1
    <3> QED BY <1>1, <2>1, <3>1
  <2>2. CASE n # left + 1
    <3>1. n \in d + 1 .. left
      BY <2>2
    <3>2. PICK k \in 1 .. l : q[k].stream = s /\ q[k].num = n
      BY <1>2, <3>1
    <3>3. k \in 1 .. l + 1 /\ p[k] = q[k]
      BY <1>1
    <3> QED BY <3>2, <3>3
  <2> QED BY <2>1, <2>2
<1>5. ASSUME NEW k \in 1 .. l + 1, p[k].stream = s
      PROVE  /\ d < p[k].num /\ p[k].num <= left + 1
             /\ left + 1 - p[k].num <= l + 1 - k
             /\ \A j \in 1 .. k - 1 : p[j].stream = s => p[j].num < p[k].num
  <2>1. \A j \in 1 .. k - 1 : j \in 1 .. l /\ p[j] = q[j]
    BY <1>1
  <2>2. CASE k \in 1 .. l
    <3>1. p[k] = q[k] /\ q[k].stream = s /\ q[k].num \in Nat
      BY <1>1, <1>5, <2>2
    <3>2. /\ d < q[k].num /\ q[k].num <= left
          /\ left - q[k].num <= l - k
          /\ \A j \in 1 .. k - 1 : q[j].stream = s => q[j].num < q[k].num
      BY <1>3, <2>2, <3>1
    <3>3. q[k].num <= left + 1 /\ left + 1 - q[k].num <= l + 1 - k
      <4>1. l \in Int /\ k \in Int /\ q[k].num \in Int
        BY <1>1, <2>2, <3>1
      <4> DEFINE n == q[k].num
      <4>2. n \in Int /\ n <= left /\ left - n <= l - k
        BY <3>2, <4>1
      <4> HIDE DEF n
      <4>3. n <= left + 1 /\ left + 1 - n <= l + 1 - k
        BY <4>1, <4>2
      <4> QED BY <4>3 DEF n
    <3> QED BY <2>1, <3>1, <3>2, <3>3
  <2>3. CASE k = l + 1
    <3>1. p[k].num = left + 1
      BY <1>1, <2>3
    <3>2. \A j \in 1 .. k - 1 : q[j].stream = s => q[j].num <= left /\ q[j].num \in Nat
      BY <1>1, <1>3, <2>1
    <3>3. \A j \in 1 .. k - 1 : p[j].stream = s => p[j].num < left + 1
      BY <2>1, <3>2
    <3>4. d < left + 1
      BY <1>2
    <3>5. left + 1 - (left + 1) <= l + 1 - k
      BY <1>1, <2>3
    <3> QED BY <3>1, <3>3, <3>4, <3>5
  <2>4. k \in 1 .. l \/ k = l + 1
    BY <1>1
  <2> QED BY <2>2, <2>3, <2>4
<1>6. d <= left + 1
  BY <1>2
<1>7. Len(p) = l + 1
  BY <1>1
<1>8. Carried(p, s, d, left + 1)
  <2>1. ASSUME NEW k \in 1 .. Len(p), p[k].stream = s PROVE InPlace(p, s, d, left + 1, k)
    <3>1. k \in 1 .. l + 1
      BY <1>7
    <3>2. /\ d < p[k].num /\ p[k].num <= left + 1
          /\ left + 1 - p[k].num <= l + 1 - k
          /\ \A j \in 1 .. k - 1 : p[j].stream = s => p[j].num < p[k].num
      BY <1>5, <2>1, <3>1
    <3>3. l \in Nat /\ p[k].num \in Nat
      BY <1>1, <3>1
    <3> QED BY <1>7, <3>1, <3>2, <3>3 DEF InPlace
  <2>2. \A n \in d + 1 .. left + 1 : \E k \in 1 .. Len(p) : p[k].stream = s /\ p[k].num = n
    BY <1>4, <1>7
  <2> QED BY <1>6, <2>1, <2>2 DEF Carried
<1> QED BY <1>8 DEF p

LEMMA CarriedOther ==
  ASSUME NEW q \in Seq(Items), NEW s \in Streams, NEW d \in Nat, NEW left \in Int,
         NEW e \in Items, e.stream # s, Carried(q, s, d, left)
  PROVE  Carried(Append(q, e), s, d, left)
<1> DEFINE p == Append(q, e)
           l == Len(q)
<1>1. /\ l \in Nat /\ Len(p) = l + 1 /\ p[l + 1] = e
      /\ \A k \in 1 .. l : p[k] = q[k] /\ q[k].num \in Nat
      /\ e.num \in Nat
  BY AppendItem
<1>2. /\ d <= left
      /\ \A n \in d + 1 .. left : \E k \in 1 .. l : q[k].stream = s /\ q[k].num = n
      /\ \A k \in 1 .. l : q[k].stream = s =>
           /\ d < q[k].num /\ q[k].num <= left
           /\ left - q[k].num <= l - k
           /\ \A j \in 1 .. k - 1 : q[j].stream = s => q[j].num < q[k].num
  BY DEF Carried, InPlace
<1> HIDE DEF p, l
<1>3. ASSUME NEW n \in d + 1 .. left
      PROVE  \E k \in 1 .. l + 1 : p[k].stream = s /\ p[k].num = n
  <2>1. PICK k \in 1 .. l : q[k].stream = s /\ q[k].num = n
    BY <1>2
  <2>2. k \in 1 .. l + 1 /\ p[k] = q[k]
    BY <1>1
  <2> QED BY <2>1, <2>2
<1>4. ASSUME NEW k \in 1 .. l + 1, p[k].stream = s
      PROVE  /\ d < p[k].num /\ p[k].num <= left
             /\ left - p[k].num <= l + 1 - k
             /\ \A j \in 1 .. k - 1 : p[j].stream = s => p[j].num < p[k].num
  <2>1. k # l + 1
    BY <1>1, <1>4
  <2>2. k \in 1 .. l
    BY <1>1, <2>1
  <2>3. p[k] = q[k] /\ q[k].num \in Nat
    BY <1>1, <2>2
  <2>4. \A j \in 1 .. k - 1 : j \in 1 .. l /\ p[j] = q[j]
    BY <1>1
  <2>5. /\ d < q[k].num /\ q[k].num <= left
        /\ left - q[k].num <= l - k
        /\ \A j \in 1 .. k - 1 : q[j].stream = s => q[j].num < q[k].num
    BY <1>2, <1>4, <2>2, <2>3
  <2>6. left - q[k].num <= l + 1 - k
    BY <1>1, <2>3, <2>5
  <2> QED BY <2>3, <2>4, <2>5, <2>6
<1>5. Len(p) = l + 1
  BY <1>1
<1>6. Carried(p, s, d, left)
  <2>1. ASSUME NEW k \in 1 .. Len(p), p[k].stream = s PROVE InPlace(p, s, d, left, k)
    <3>1. k \in 1 .. l + 1
      BY <1>5
    <3>2. /\ d < p[k].num /\ p[k].num <= left
          /\ left - p[k].num <= l + 1 - k
          /\ \A j \in 1 .. k - 1 : p[j].stream = s => p[j].num < p[k].num
      BY <1>4, <2>1, <3>1
    <3>3. l \in Nat /\ p[k].num \in Nat
      BY <1>1, <3>1
    <3> QED BY <1>5, <3>1, <3>2, <3>3 DEF InPlace
  <2>2. \A n \in d + 1 .. left : \E k \in 1 .. Len(p) : p[k].stream = s /\ p[k].num = n
    BY <1>3, <1>5
  <2> QED BY <1>2, <2>1, <2>2 DEF Carried
<1> QED BY <1>6 DEF p

(* The items of q from k + 1 on, when those before k are not of stream s,  *)
(* and that at k is the next one to be delivered or not of s either.       *)
LEMMA CarriedRest ==
  ASSUME NEW q \in Seq(Items), NEW s \in Streams, NEW d \in Nat, NEW left \in Int,
         NEW k \in 1 .. Len(q), Carried(q, s, d, left),
         \A j \in 1 .. k - 1 : q[j].stream # s
  PROVE  /\ q[k].stream = s => /\ q[k].num = d + 1 /\ d < left
                               /\ Carried(SubSeq(q, k + 1, Len(q)), s, d + 1, left)
         /\ q[k].stream # s => Carried(SubSeq(q, k + 1, Len(q)), s, d, left)
<1> DEFINE p == SubSeq(q, k + 1, Len(q))
           l == Len(q)
           c == IF q[k].stream = s THEN d + 1 ELSE d
<1>1. /\ l \in Nat /\ Len(p) = l - k /\ k \in Nat /\ k <= l
      /\ \A i \in 1 .. l - k : p[i] = q[i + k]
      /\ \A i \in 1 .. l : q[i].num \in Nat
  <2>1. l \in Nat /\ \A i \in 1 .. l : q[i] \in Items
    BY ElementOfSeq, LenProperties
  <2>2. k \in Nat /\ k <= l /\ k >= 1 /\ k + 1 \in 1 .. l + 1
    BY <2>1
  <2>3. \A i \in k + 1 .. l : q[i] \in Items
    BY <2>1, <2>2
  <2>4. /\ Len(p) = IF k + 1 <= l THEN l - (k + 1) + 1 ELSE 0
        /\ \A i \in 1 .. l - (k + 1) + 1 : p[i] = q[(k + 1) + i - 1]
    BY <2>1, <2>2, <2>3, SubSeqProperties
  <2>5. \A i \in 1 .. l - k : i \in 1 .. l - (k + 1) + 1 /\ (k + 1) + i - 1 = i + k
    BY <2>1, <2>2
  <2>6. Len(p) = l - k
    BY <2>1, <2>2, <2>4
  <2>7. \A i \in 1 .. l : q[i].num \in Nat
    BY <2>1 DEF Items
  <2> HIDE DEF p, l
  <2> QED BY <2>1, <2>2, <2>4, <2>5, <2>6, <2>7
<1>2. /\ d <= left
      /\ \A n \in d + 1 .. left : \E i \in 1 .. l : q[i].stream = s /\ q[i].num = n
      /\ \A i \in 1 .. l : q[i].stream = s =>
           /\ d < q[i].num /\ q[i].num <= left
           /\ left - q[i].num <= l - i
           /\ \A j \in 1 .. i - 1 : q[j].stream = s => q[j].num < q[i].num
  BY DEF Carried, InPlace
<1>3. k \in 1 .. l
  OBVIOUS
<1> HIDE DEF p, l
<1>4. \A i \in 1 .. l : q[i].stream = s => k <= i
  BY <1>1
<1>5. ASSUME q[k].stream = s PROVE q[k].num = d + 1 /\ d < left
  <2>1. d < q[k].num /\ q[k].num <= left /\ q[k].num \in Nat
    BY <1>1, <1>2, <1>3, <1>5
  <2>2. d + 1 \in d + 1 .. left
    BY <2>1
  <2>3. PICK i \in 1 .. l : q[i].stream = s /\ q[i].num = d + 1
    BY <1>2, <2>2
  <2>4. CASE i = k
    BY <2>1, <2>3, <2>4
  <2>5. CASE i # k
    <3>1. k \in 1 .. i - 1
      BY <1>1, <1>4, <2>3, <2>5
    <3>2. q[k].num < q[i].num
      BY <1>2, <1>5, <2>3, <3>1
    <3> QED BY <2>1, <2>3, <3>2
  <2> QED BY <2>4, <2>5
<1>6. c \in Nat /\ c <= left
  BY <1>2, <1>5
<1>7. ASSUME NEW n \in c + 1 .. left
      PROVE  \E i \in 1 .. l - k : p[i].stream = s /\ p[i].num = n
  <2>1. n \in d + 1 .. left
    BY <1>6
  <2>2. PICK i \in 1 .. l : q[i].stream = s /\ q[i].num = n
    BY <1>2, <2>1
  <2>3. i # k
    BY <1>5, <1>7, <2>2
  <2>4. i - k \in 1 .. l - k /\ (i - k) + k = i
    BY <1>1, <1>4, <2>2, <2>3
  <2>5. p[i - k] = q[i]
    BY <1>1, <2>4
  <2> QED BY <2>2, <2>4, <2>5
<1>8. ASSUME NEW i \in 1 .. l - k, p[i].stream = s
      PROVE  /\ c < p[i].num /\ p[i].num <= left
             /\ left - p[i].num <= (l - k) - i
             /\ \A j \in 1 .. i - 1 : p[j].stream = s => p[j].num < p[i].num
  <2>1. i + k \in 1 .. l /\ p[i] = q[i + k] /\ q[i + k].num \in Nat
    BY <1>1
  <2>2. /\ d < q[i + k].num /\ q[i + k].num <= left
        /\ left - q[i + k].num <= l - (i + k)
        /\ \A j \in 1 .. (i + k) - 1 : q[j].stream = s => q[j].num < q[i + k].num
    BY <1>2, <1>8, <2>1
  <2>3. \A j \in 1 .. i - 1 : j + k \in 1 .. (i + k) - 1 /\ p[j] = q[j + k]
    BY <1>1
  <2>4. c < q[i + k].num
    <3>1. CASE q[k].stream # s
      BY <2>2, <3>1
    <3>2. CASE q[k].stream = s
      <4>1. k \in 1 .. (i + k) - 1
        BY <1>1
      <4>2. d + 1 < q[i + k].num
        BY <1>5, <2>2, <3>2, <4>1
      <4> QED BY <3>2, <4>2
    <3> QED BY <3>1, <3>2
  <2>5. left - q[i + k].num <= (l - k) - i
    BY <1>1, <2>1, <2>2
  <2> QED BY <2>1, <2>2, <2>3, <2>4, <2>5
<1>9. Len(p) = l - k
  BY <1>1
<1> HIDE DEF c
<1>10. Carried(p, s, c, left)
  BY <1>6, <1>7, <1>8, <1>9 DEF Carried, InPlace
<1> QED BY <1>5, <1>10 DEF c, p, l

LEMMA OnTheWayFacts ==
  ASSUME IInv, NEW s \in Streams, ~recvClosed[s]
  PROVE  /\ Left(s) \in Int /\ delivered[s] \in Nat /\ delivered[s] <= Left(s)
         /\ MuxOf[s] \in Muxes /\ queue[MuxOf[s]] \in Seq(Items)
         /\ Carried(queue[MuxOf[s]], s, delivered[s], Left(s))
<1>1. OnTheWay(s)
  BY DEF IInv, QueueInv
<1> QED BY <1>1, StateFacts, HasEofFacts DEF IInv, OnTheWay, Carried

(* A packet leaves its FIFO, or goes around it, and is put at the end.     *)
LEMMA PutKeeps ==
  ASSUME IInv, NEW s \in Streams, NEW n \in Nat, n = Left(s) + 1, ~recvClosed[s],
         Left(s)' = Left(s) + 1, \A r \in Streams : r # s => Left(r)' = Left(r),
         UNCHANGED <<delivered, recvClosed>>, Len(queue[MuxOf[s]]) < QueueSize,
         queue' = [queue EXCEPT ![MuxOf[s]] =
                     Append(queue[MuxOf[s]], [stream |-> s, num |-> n])]
  PROVE  QueueInv'
<1> DEFINE m == MuxOf[s]
           q == queue[m]
           e == [stream |-> s, num |-> n]
<1>1. q \in Seq(Items) /\ e \in Items /\ e.stream = s /\ e.num = n /\ m \in Muxes
  BY OnTheWayFacts DEF Items
<1>2. queue'[m] = Append(q, e) /\ \A x \in Muxes : x # m => queue'[x] = queue[x]
  BY <1>1 DEF IInv, Types
<1> HIDE DEF e
<1>3. ASSUME NEW x \in Muxes PROVE QueueShape(x)'
  <2>1. QueueShape(x)
    BY DEF IInv, QueueInv, QueueShape
  <2>2. CASE x # m
    BY <1>2, <2>1, <2>2 DEF QueueShape
  <2>3. CASE x = m
    <3>1. /\ Len(q) \in Nat /\ Len(queue'[m]) = Len(q) + 1
          /\ \A k \in 1 .. Len(q) : queue'[m][k] = q[k]
          /\ queue'[m][Len(q) + 1] = e
      BY <1>1, <1>2, AppendItem
    <3>2. \A k \in 1 .. Len(q) + 1 : k \in 1 .. Len(q) \/ k = Len(q) + 1
      BY <3>1
    <3>3. \A k \in 1 .. Len(q) : MuxOf[q[k].stream] = m
      BY <2>1, <2>3 DEF QueueShape
    <3>4. Len(q) + 1 <= QueueSize
      BY <3>1, StateFacts DEF IInv
    <3> HIDE DEF q
    <3>5. \A k \in 1 .. Len(q) + 1 : MuxOf[queue'[m][k].stream] = m
      BY <1>1, <3>1, <3>2, <3>3
    <3> HIDE DEF m
    <3> QED BY <2>3, <3>1, <3>4, <3>5 DEF QueueShape
  <2> QED BY <2>2, <2>3
<1>4. ASSUME NEW r \in Streams, ~recvClosed[r] PROVE OnTheWay(r)'
  <2>1. /\ Left(r) \in Int /\ delivered[r] \in Nat /\ delivered'[r] = delivered[r]
        /\ Carried(queue[MuxOf[r]], r, delivered[r], Left(r))
    BY <1>4, OnTheWayFacts
  <2>2. CASE MuxOf[r] # m
    <3>1. queue'[MuxOf[r]] = queue[MuxOf[r]] /\ Left(r)' = Left(r)
      BY <1>2, <2>2, StreamFacts
    <3> QED BY <2>1, <3>1 DEF OnTheWay
  <2>3. CASE r = s
    <3>1. Carried(Append(q, e), s, delivered[s], Left(s) + 1)
      BY <1>1, <2>1, <2>3, CarriedNext
    <3> QED BY <1>2, <2>1, <2>3, <3>1 DEF OnTheWay
  <2>4. CASE MuxOf[r] = m /\ r # s
    <3>1. Carried(Append(q, e), r, delivered[r], Left(r))
      BY <1>1, <2>1, <2>4, CarriedOther
    <3> QED BY <1>2, <2>1, <2>4, <3>1 DEF OnTheWay
  <2> QED BY <2>2, <2>3, <2>4
<1> QED BY <1>3, <1>4 DEF QueueInv, QueueShape

(* Nothing is put into the queues, and nothing leaves the FIFO of an open  *)
(* stream.                                                                 *)
LEMMA QueueSame ==
  ASSUME IInv, UNCHANGED <<queue, delivered>>,
         \A s \in Streams : ~recvClosed'[s] => ~recvClosed[s] /\ Left(s)' = Left(s)
  PROVE  QueueInv'
<1>1. \A m \in Muxes : QueueShape(m)'
  BY DEF IInv, QueueInv, QueueShape
<1>2. ASSUME NEW s \in Streams, ~recvClosed'[s] PROVE OnTheWay(s)'
  BY <1>2, OnTheWaySame DEF IInv, QueueInv
<1> QED BY <1>1, <1>2 DEF QueueInv, QueueShape

LEMMA SendQueueInv ==
  ASSUME IInv, NEW s \in Streams, SendStep(s)
  PROVE  QueueInv'
<1>1. /\ UNCHANGED <<delivered, recvClosed>>
      /\ \A r \in Streams : r # s => Left(r)' = Left(r)
  BY SendFrame, LeftSame DEF muxerVars
<1>2. CASE UNCHANGED queue /\ Left(s)' = Left(s)
  BY <1>1, <1>2, QueueSame
<1>3. CASE send_locked(s) /\ Queued(s)
  <2>1. queue' = queue /\ pc[s] = "locking"
    BY <1>3 DEF send_locked, queueVars
  <2> QED BY <1>2, <1>3, <2>1, AppendLeft
<1>4. CASE UNCHANGED <<queue, premux, accepted>>
  BY <1>2, <1>4, LeftSame
<1>5. CASE send_direct(s) /\ hand[s] = Eof
  <2>1. UNCHANGED <<queue, premux>>
    BY <1>5 DEF send_direct, premuxVars
  <2>2. accepted'[s] = accepted[s]
    BY <1>5, StateFacts DEF send_direct, Sent, Size, IInv, Types
  <2> QED BY <1>2, <2>1, <2>2, LeftSame
<1>6. CASE send_direct(s) /\ hand[s] # Eof /\ accepted' # accepted
  <2>1. /\ ~recvClosed[s] /\ Len(queue[MuxOf[s]]) < QueueSize
        /\ queue' = [queue EXCEPT ![MuxOf[s]] =
                       Append(queue[MuxOf[s]], [stream |-> s, num |-> hand[s]])]
        /\ accepted'[s] = accepted[s] + 1 /\ premux' = premux /\ pc[s] = "sending"
    BY <1>6, StateFacts
    DEF send_direct, Sent, Size, TqRoom, TqPut, premuxVars, IInv, Types
  <2>2. premux[s] = <<>>
    BY <2>1 DEF IInv, SendInv, NothingStranded
  <2>3. Left(s) = accepted[s] /\ Left(s)' = accepted[s] + 1
    <3>1. Packets(s) = 0 /\ Packets(s)' = 0
      BY <2>1, <2>2 DEF Packets, HasEof
    <3> QED BY <2>1, <3>1, StateFacts DEF Left, IInv
  <2>4. hand[s] = accepted[s] + 1 /\ hand[s] \in Nat
    BY <1>6, <2>1, StateFacts DEF IInv, SendInv
  <2> QED BY <1>1, <2>1, <2>3, <2>4, PutKeeps
<1>7. CASE send_direct(s) /\ hand[s] # Eof /\ accepted' = accepted
  <2>1. UNCHANGED <<queue, premux>> \/ accepted'[s] = accepted[s] + 1
    BY <1>7, StateFacts DEF send_direct, Sent, Size, premuxVars, IInv, Types
  <2>2. accepted'[s] # accepted[s] + 1
    BY <1>7, StateFacts DEF IInv
  <2> QED BY <1>4, <1>7, <2>1, <2>2
<1> QED BY <1>3, <1>4, <1>5, <1>6, <1>7
        DEF SendStep, SendNext, send_packet, send_eof, Look, send_locked, NotQueued,
            premuxVars, queueVars

LEMMA FlushQueueInv ==
  ASSUME IInv, FlushEof \/ FlushPacket
  PROVE  QueueInv'
<1>1. PICK s \in Streams :
        /\ s = MinStream /\ premux[s] # <<>>
        /\ UNCHANGED <<accepted, delivered, recvClosed>>
        /\ premux' = [premux EXCEPT ![s] = Tail(premux[s])]
  BY FlushFrame DEF sendVars, muxerVars
<1>2. premux'[s] = Tail(premux[s]) /\ \A r \in Streams : r # s => premux'[r] = premux[r]
  BY <1>1 DEF IInv, Types
<1>3. \A r \in Streams : r # s => Left(r)' = Left(r)
  BY <1>1, <1>2, LeftSame
<1>4. /\ Left(s)' = Left(s) + Size(Head(premux[s])) /\ Left(s) \in Int
      /\ Head(premux[s]) # Eof => Head(premux[s]) = Left(s) + 1
      /\ Head(premux[s]) \in Nat
  BY <1>1, <1>2, TailLeft, HasEofFacts, HeadFacts DEF IInv
<1>5. CASE FlushEof
  <2>1. queue' = queue /\ Head(premux[s]) = Eof
    BY <1>1, <1>5 DEF FlushEof, MinHead
  <2>2. Left(s)' = Left(s)
    BY <1>4, <2>1 DEF Size
  <2> QED BY <1>1, <1>3, <2>1, <2>2, QueueSame
<1>6. CASE FlushPacket
  <2>1. Head(premux[s]) # Eof /\ Left(s)' = Left(s) + 1
    BY <1>1, <1>4, <1>6 DEF FlushPacket, MinHead, Size
  <2>2. CASE queue' = queue /\ recvClosed[s]
    BY <1>1, <1>3, <2>2, QueueSame
  <2>3. CASE ~(queue' = queue /\ recvClosed[s])
    <3>1. /\ ~recvClosed[s] /\ Len(queue[MuxOf[s]]) < QueueSize
          /\ queue' = [queue EXCEPT ![MuxOf[s]] =
                         Append(queue[MuxOf[s]], [stream |-> s, num |-> Head(premux[s])])]
      BY <1>1, <1>6, <2>3 DEF FlushPacket, TqRoom, TqPut, TqEof, MinHead, IInv, ClosedInv
    <3> QED BY <1>1, <1>3, <1>4, <2>1, <3>1, PutKeeps
  <2> QED BY <2>2, <2>3
<1> QED BY <1>5, <1>6

LEMMA ReceiveQueueInv ==
  ASSUME IInv, NEW m \in Muxes, sch_mux_receive(m)
  PROVE  /\ QueueInv'
         /\ \E s \in Streams : /\ ~recvClosed[s] /\ delivered[s] < Left(s)
                               /\ delivered' = [delivered EXCEPT ![s] = delivered[s] + 1]
<1> DEFINE k == Min(Deliverable(m))
           s == queue[m][k].stream
           q == queue[m]
<1>1. /\ Deliverable(m) # {}
      /\ delivered' = [delivered EXCEPT ![s] = q[k].num]
      /\ queue' = [queue EXCEPT ![m] = SubSeq(q, k + 1, Len(q))]
      /\ UNCHANGED <<premux, accepted, recvClosed>>
  BY DEF sch_mux_receive, premuxVars, sendVars
<1>2. /\ q \in Seq(Items) /\ Len(q) \in Nat /\ k \in 1 .. Len(q) /\ q[k] \in Items
      /\ MuxOf[s] = m /\ ~recvClosed[s]
      /\ \A j \in 1 .. k - 1 : recvClosed[q[j].stream]
  BY <1>1, DeliverableFacts
<1>3. s \in Streams
  BY <1>2 DEF Items
<1>4. queue'[m] = SubSeq(q, k + 1, Len(q)) /\ \A n \in Muxes : n # m => queue'[n] = queue[n]
  BY <1>1 DEF IInv, Types
<1> HIDE DEF k, s, q
<1>5. \A r \in Streams : Left(r)' = Left(r)
  BY <1>1, LeftSame
<1>6. q[k].num = delivered[s] + 1 /\ delivered[s] < Left(s)
      /\ Carried(SubSeq(q, k + 1, Len(q)), s, delivered[s] + 1, Left(s))
  <2>1. /\ Left(s) \in Int /\ delivered[s] \in Nat
        /\ Carried(q, s, delivered[s], Left(s))
    BY <1>2, <1>3, OnTheWayFacts DEF q
  <2>2. \A j \in 1 .. k - 1 : q[j].stream # s
    BY <1>2
  <2>3. q[k].stream = s
    BY DEF q, s
  <2> DEFINE d    == delivered[s]
             left == Left(s)
  <2>4. d \in Nat /\ left \in Int /\ Carried(q, s, d, left)
    BY <2>1
  <2> HIDE DEF d, left
  <2>5. q[k].num = d + 1 /\ d < left /\ Carried(SubSeq(q, k + 1, Len(q)), s, d + 1, left)
    BY <1>2, <1>3, <2>2, <2>3, <2>4, CarriedRest
  <2> QED BY <2>5 DEF d, left
<1>7. ASSUME NEW n \in Muxes PROVE QueueShape(n)'
  <2>1. QueueShape(n)
    BY DEF IInv, QueueInv, QueueShape
  <2>2. CASE n # m
    BY <1>4, <2>1, <2>2 DEF QueueShape
  <2>3. CASE n = m
    <3>1. /\ Len(queue'[m]) <= Len(q)
          /\ \A i \in 1 .. Len(queue'[m]) : i + k \in 1 .. Len(q) /\ queue'[m][i] = q[i + k]
      <4>1. \A i \in k + 1 .. Len(q) : q[i] \in Items
        BY <1>2, ElementOfSeq
      <4>2. /\ Len(queue'[m]) = IF k + 1 <= Len(q) THEN Len(q) - (k + 1) + 1 ELSE 0
            /\ \A i \in 1 .. Len(q) - (k + 1) + 1 : queue'[m][i] = q[(k + 1) + i - 1]
        BY <1>2, <1>4, <4>1, SubSeqProperties
      <4>3. Len(q) \in Nat /\ k \in Nat /\ k >= 1 /\ k <= Len(q)
        BY <1>2
      <4>4. Len(queue'[m]) = Len(q) - k
        BY <4>2, <4>3
      <4>5. \A i \in 1 .. Len(q) - k :
              i \in 1 .. Len(q) - (k + 1) + 1 /\ (k + 1) + i - 1 = i + k /\ i + k \in 1 .. Len(q)
        BY <4>3
      <4> QED BY <4>2, <4>3, <4>4, <4>5
    <3>2. Len(q) <= QueueSize /\ \A i \in 1 .. Len(q) : MuxOf[q[i].stream] = m
      BY <2>1, <2>3 DEF QueueShape, q
    <3>3. \A i \in 1 .. Len(queue'[m]) : MuxOf[queue'[m][i].stream] = m
      BY <3>1, <3>2
    <3>4. Len(queue'[m]) \in Nat /\ QueueSize \in Nat
      <4>1. queue'[m] \in Seq(Items)
        BY MuxerTypes DEF MuxerStep, MuxerNext, Types
      <4> QED BY <1>3, <4>1, StateFacts, LenProperties DEF IInv
    <3>5. Len(queue'[m]) <= QueueSize
      BY <1>2, <3>1, <3>2, <3>4
    <3> QED BY <2>3, <3>3, <3>5 DEF QueueShape
  <2> QED BY <2>2, <2>3
<1>8. ASSUME NEW r \in Streams, ~recvClosed[r] PROVE OnTheWay(r)'
  <2>1. /\ Left(r) \in Int /\ delivered[r] \in Nat /\ delivered \in [Streams -> Nat]
        /\ Carried(queue[MuxOf[r]], r, delivered[r], Left(r))
    BY <1>8, OnTheWayFacts DEF IInv, Types
  <2>2. CASE r = s
    <3>1. delivered'[r] = delivered[s] + 1
      BY <1>1, <1>6, <2>1, <2>2
    <3> QED BY <1>2, <1>4, <1>5, <1>6, <2>2, <3>1 DEF OnTheWay
  <2>3. CASE r # s
    <3>1. delivered'[r] = delivered[r]
      BY <1>1, <2>1, <2>3
    <3>2. CASE MuxOf[r] # m
      <4>1. queue'[MuxOf[r]] = queue[MuxOf[r]]
        BY <1>4, <3>2, StreamFacts
      <4> QED BY <1>5, <2>1, <3>1, <4>1 DEF OnTheWay
    <3>3. CASE MuxOf[r] = m
      <4>1. Carried(q, r, delivered[r], Left(r))
        BY <2>1, <3>3 DEF q
      <4>2. \A j \in 1 .. k - 1 : q[j].stream # r
        BY <1>2, <1>8
      <4>3. q[k].stream # r
        BY <2>3 DEF q, s
      <4>4. Carried(SubSeq(q, k + 1, Len(q)), r, delivered[r], Left(r))
        BY <1>2, <2>1, <4>1, <4>2, <4>3, CarriedRest
      <4> QED BY <1>4, <1>5, <3>1, <3>3, <4>4 DEF OnTheWay
    <3> QED BY <3>2, <3>3
  <2> QED BY <2>2, <2>3
<1> QED BY <1>1, <1>2, <1>3, <1>6, <1>7, <1>8 DEF QueueInv, QueueShape

(* When nothing is left that somebody wants, all that left the FIFOs of    *)
(* open streams was delivered.                                             *)
LEMMA NothingDeliverable ==
  ASSUME IInv, NEW s \in Streams, ~recvClosed[s], Deliverable(MuxOf[s]) = {}
  PROVE  delivered[s] = Left(s)
<1> DEFINE q == queue[MuxOf[s]]
<1>1. /\ Left(s) \in Int /\ delivered[s] \in Nat
      /\ q \in Seq(Items) /\ DOMAIN q = 1 .. Len(q)
      /\ Carried(q, s, delivered[s], Left(s))
  BY OnTheWayFacts, LenProperties
<1>2. \A k \in 1 .. Len(q) : q[k].stream # s
  BY <1>1 DEF Deliverable
<1> HIDE DEF q
<1>3. ~(delivered[s] < Left(s))
  <2>1. SUFFICES ASSUME delivered[s] < Left(s) PROVE FALSE
    OBVIOUS
  <2>2. delivered[s] + 1 \in delivered[s] + 1 .. Left(s)
    BY <1>1, <2>1
  <2> QED BY <1>1, <1>2, <2>2 DEF Carried
<1> QED BY <1>1, <1>3 DEF Carried

LEMMA EmptyingQueueInv ==
  ASSUME IInv, NEW m \in Muxes, sch_mux_receive_eof(m) \/ sch_mux_receive_waits(m)
  PROVE  QueueInv'
<1>1. /\ Deliverable(m) = {}
      /\ queue' = [queue EXCEPT ![m] = <<>>]
      /\ UNCHANGED <<premux, accepted, delivered>>
  BY DEF sch_mux_receive_eof, sch_mux_receive_waits, premuxVars, sendVars, muxerVars
<1>2. queue'[m] = <<>> /\ \A n \in Muxes : n # m => queue'[n] = queue[n]
  BY <1>1 DEF IInv, Types
<1>3. \A s \in Streams : ~recvClosed'[s] => ~recvClosed[s] /\ Left(s)' = Left(s)
  BY <1>1, LeftSame, MuxerCloses DEF MuxerStep, MuxerNext
<1>4. ASSUME NEW n \in Muxes PROVE QueueShape(n)'
  <2>1. CASE n # m
    BY <1>2, <2>1 DEF IInv, QueueInv, QueueShape
  <2>2. CASE n = m
    <3>1. Len(queue'[m]) = 0 /\ 0 <= QueueSize
      BY <1>2, MuxStartAssumption DEF MuxStartAssumption
    <3> QED BY <2>2, <3>1 DEF QueueShape
  <2> QED BY <2>1, <2>2
<1>5. ASSUME NEW s \in Streams, ~recvClosed'[s] PROVE OnTheWay(s)'
  <2>1. ~recvClosed[s] /\ Left(s)' = Left(s) /\ delivered'[s] = delivered[s]
    BY <1>1, <1>3, <1>5
  <2>2. CASE MuxOf[s] # m
    <3>1. queue'[MuxOf[s]] = queue[MuxOf[s]] /\ OnTheWay(s)
      BY <1>2, <2>1, <2>2, StreamFacts DEF IInv, QueueInv
    <3> QED BY <2>1, <3>1, OnTheWaySame
  <2>3. CASE MuxOf[s] = m
    <3>1. delivered[s] = Left(s) /\ Left(s) \in Int
      BY <1>1, <2>1, <2>3, NothingDeliverable, OnTheWayFacts
    <3>2. Carried(<<>>, s, delivered[s], Left(s))
      BY <3>1 DEF Carried
    <3> QED BY <1>2, <2>1, <2>3, <3>2 DEF OnTheWay
  <2> QED BY <2>2, <2>3
<1> QED BY <1>4, <1>5 DEF QueueInv, QueueShape

LEMMA NextQueueInv == ASSUME IInv, [Next]_vars PROVE QueueInv'
<1> USE DEF startVars, premuxVars, queueVars, sendVars, muxerVars
<1>1. ASSUME NEW s \in Streams, SendStep(s) PROVE QueueInv'
  BY <1>1, SendQueueInv
<1>2. CASE FlushEof \/ FlushPacket
  BY <1>2, FlushQueueInv
<1>3. ASSUME UNCHANGED <<queue, delivered, premux, accepted>>,
             \A s \in Streams : recvClosed[s] => recvClosed'[s]
      PROVE  QueueInv'
  <2>1. \A s \in Streams : Left(s)' = Left(s)
    BY <1>3, LeftSame
  <2>2. \A s \in Streams : ~recvClosed'[s] => ~recvClosed[s]
    BY <1>3
  <2> QED BY <1>3, <2>1, <2>2, QueueSame
<1>4. CASE FlushDone
  BY <1>3, <1>4, FlushDoneFrame
<1>5. ASSUME NEW s \in Streams, sch_mux_stream_ready(s) PROVE QueueInv'
  BY <1>3, <1>5 DEF sch_mux_stream_ready
<1>6. ASSUME NEW s \in Streams, sch_mux_receive_finish(s) PROVE QueueInv'
  BY <1>3, <1>6 DEF sch_mux_receive_finish, IInv, Types
<1>7. ASSUME NEW m \in Muxes, MuxerStep(m) PROVE QueueInv'
  <2>1. CASE sch_mux_receive(m)
    BY <2>1, ReceiveQueueInv
  <2>2. CASE sch_mux_receive_eof(m) \/ sch_mux_receive_waits(m)
    BY <2>2, EmptyingQueueInv
  <2>3. CASE muxer_thread_ends(m) \/ muxer_thread_stops(m) \/ mux_done(m)
    <3>1. UNCHANGED <<queue, delivered, premux, accepted>>
      BY <2>3 DEF muxer_thread_ends, muxer_thread_stops, mux_done
    <3> QED BY <1>3, <1>7, <3>1, MuxerCloses
  <2> QED BY <1>7, <2>1, <2>2, <2>3 DEF MuxerStep, MuxerNext
<1>8. CASE UNCHANGED vars
  BY <1>3, <1>8 DEF vars
<1> QED BY <1>1, <1>2, <1>4, <1>5, <1>6, <1>7, <1>8
        DEF Next, SendStep, MuxerStep, mux_task_start

-----------------------------------------------------------------------------
LEMMA NextIInv == IInv /\ [Next]_vars => IInv'
BY NextTypes, NextStartInv, NextSendInv, NextStranded, NextFifoInv, NextRoomInv,
   NextQueueInv, NextClosedInv DEF IInv

LEMMA SpecIInv == Spec => []IInv
BY InitIInv, NextIInv, PTL DEF Spec

(* send_to_mux() and mux_task_start() leave nothing in a pre-mux FIFO from *)
(* which nobody would take it, whatever streams, muxers and timings.       *)
THEOREM NothingIsStranded == Spec => []NothingStranded
<1>1. IInv => NothingStranded
  BY DEF IInv
<1> QED BY SpecIInv, <1>1, PTL

-----------------------------------------------------------------------------
(* The order of the flush.                                                 *)

(* No stream has a packet with an earlier dts than one before it.          *)
DtsInOrder ==
  \A t \in Timings : \A s \in Streams : \A i \in DOMAIN t[s] : \A j \in i .. Len(t[s]) :
    t[s][i] # NOPTS /\ t[s][j] # NOPTS => t[s][i] <= t[s][j]

(* The packets in a FIFO are packets of the stream.                        *)
LEMMA EntryFacts ==
  ASSUME IInv, NEW s \in Streams, NEW k \in 1 .. Len(premux[s])
  PROVE  /\ DtsOf(s, premux[s][k]) \in Dts
         /\ premux[s][k] # Eof => /\ premux[s][k] = Left(s) + k
                                  /\ premux[s][k] \in 1 .. Len(timing[s])
<1>1. premux[s][k] \in Nat /\ k \in Nat
  BY HasEofFacts, ElementOfSeq DEF IInv
<1>2. CASE premux[s][k] = Eof
  BY <1>2 DEF DtsOf, Dts
<1>3. CASE premux[s][k] # Eof
  <2>1. premux[s][k] = Left(s) + k /\ k <= Packets(s) /\ Packets(s) \in Nat
    BY <1>3, HasEofFacts DEF IInv, FifoInv
  <2>2. accepted[s] \in Nat /\ accepted[s] <= Len(timing[s])
        /\ timing[s] \in Seq(Dts) /\ Len(timing[s]) \in Nat
    BY StateFacts DEF IInv, SendInv
  <2>3. premux[s][k] <= Len(timing[s])
    BY <1>1, <2>1, <2>2 DEF Left
  <2>4. premux[s][k] \in 1 .. Len(timing[s])
    BY <1>1, <1>3, <2>2, <2>3 DEF Eof
  <2> QED BY <1>3, <2>1, <2>2, <2>4, ElementOfSeq DEF DtsOf
<1> QED BY <1>2, <1>3

(* Nothing in a FIFO is earlier than its head.                             *)
LEMMA HeadIsEarliest ==
  ASSUME IInv, DtsInOrder, timing \in Timings,
         NEW s \in Streams, NEW k \in 1 .. Len(premux[s]),
         HeadDts(s) # NOPTS, DtsOf(s, premux[s][k]) # NOPTS
  PROVE  HeadDts(s) <= DtsOf(s, premux[s][k])
<1>1. Len(premux[s]) \in Nat /\ premux[s] # <<>> /\ 1 \in 1 .. Len(premux[s])
  BY HasEofFacts DEF IInv
<1>2. Head(premux[s]) = premux[s][1]
  BY <1>1, HeadFacts
<1>3. /\ premux[s][1] = Left(s) + 1 /\ premux[s][1] \in 1 .. Len(timing[s])
      /\ HeadDts(s) = timing[s][premux[s][1]]
  BY <1>1, <1>2, EntryFacts DEF HeadDts, DtsOf
<1>4. /\ premux[s][k] = Left(s) + k /\ premux[s][k] \in 1 .. Len(timing[s])
      /\ DtsOf(s, premux[s][k]) = timing[s][premux[s][k]]
  BY EntryFacts DEF DtsOf
<1>5. Left(s) \in Int
  BY HasEofFacts DEF IInv
<1>6. /\ premux[s][k] \in premux[s][1] .. Len(timing[s])
      /\ DOMAIN timing[s] = 1 .. Len(timing[s])
  BY <1>1, <1>3, <1>4, <1>5, StateFacts, LenProperties DEF IInv
<1> QED BY <1>3, <1>4, <1>6 DEF DtsInOrder

OrderInv == timing \in Timings /\ FlushedInOrder

(* FlushedInOrder, with the entries of a FIFO by their places.             *)
LEMMA OrderFacts ==
  ASSUME Types
  PROVE  FlushedInOrder <=>
           \A s \in Streams : \A k \in 1 .. Len(premux[s]) :
             DtsOf(s, premux[s][k]) # NOPTS => flushed[MuxOf[s]] <= DtsOf(s, premux[s][k])
<1>1. \A s \in Streams : DOMAIN premux[s] = 1 .. Len(premux[s])
  BY LenProperties DEF Types
<1> QED BY <1>1 DEF FlushedInOrder

(* A packet is put into a FIFO before anything is flushed to the muxer.    *)
LEMMA SendOrder ==
  ASSUME IInv, FlushedInOrder, NEW s \in Streams, SendStep(s)
  PROVE  FlushedInOrder'
<1>1. UNCHANGED <<timing, flushed>> /\ \A r \in Streams : r # s => premux'[r] = premux[r]
  BY SendFrame
<1>2. CASE premux' = premux
  BY <1>1, <1>2 DEF FlushedInOrder, DtsOf
<1>3. CASE premux' # premux
  <2>1. ~mux_started[MuxOf[s]] /\ mux_ready_lock = Free
    BY <1>3 DEF SendStep, SendNext, send_packet, send_eof, Look, send_locked, Queued,
                NotQueued, send_direct, premuxVars
  <2>2. flushed[MuxOf[s]] = NOPTS
    BY <2>1, StreamFacts DEF IInv, StartInv, Begun
  <2>3. /\ premux'[s] = Append(premux[s], hand[s]) /\ premux[s] \in Seq(Nat)
        /\ hand[s] \in Nat /\ pc[s] = "locking"
    BY <1>3, StateFacts DEF SendStep, SendNext, send_packet, send_eof, Look, send_locked,
       Queued, NotQueued, send_direct, premuxVars, IInv, Types
  <2>4. ASSUME NEW k \in 1 .. Len(premux'[s])
        PROVE  flushed'[MuxOf[s]] <= DtsOf(s, premux[s][k])'
    <3>1. CASE k \in 1 .. Len(premux[s])
      <4>1. premux'[s][k] = premux[s][k]
        BY <2>3, <3>1, AppendProperties
      <4>2. DtsOf(s, premux[s][k]) \in Dts
        BY <3>1, EntryFacts
      <4> QED BY <1>1, <2>2, <4>1, <4>2 DEF DtsOf, Dts, NOPTS
    <3>2. CASE k \notin 1 .. Len(premux[s])
      <4>1. premux'[s][k] = hand[s]
        BY <2>3, <3>2, AppendProperties, LenProperties
      <4>2. hand[s] # Eof => hand[s] \in 1 .. Len(timing[s]) /\ timing[s] \in Seq(Dts)
        BY <2>3, StateFacts DEF IInv, SendInv, Eof
      <4>3. DtsOf(s, hand[s]) \in Dts
        BY <4>2, ElementOfSeq DEF DtsOf, Dts
      <4> QED BY <1>1, <2>2, <4>1, <4>3 DEF DtsOf, Dts, NOPTS
    <3> QED BY <3>1, <3>2
  <2>5. ASSUME NEW r \in Streams, r # s, NEW k \in 1 .. Len(premux'[r]),
               DtsOf(r, premux[r][k])' # NOPTS
        PROVE  flushed'[MuxOf[r]] <= DtsOf(r, premux[r][k])'
    BY <1>1, <2>5, OrderFacts DEF IInv, DtsOf
  <2>6. \A r \in Streams : DOMAIN premux'[r] = 1 .. Len(premux'[r])
    <3>1. premux'[s] \in Seq(Nat)
      BY <2>3, AppendProperties
    <3> QED BY <1>1, <3>1, LenProperties DEF IInv, Types
  <2> QED BY <2>4, <2>5, <2>6 DEF FlushedInOrder
<1> QED BY <1>2, <1>3

(* The packet that is flushed is not later than what stays behind.         *)
LEMMA FlushOrder ==
  ASSUME IInv, OrderInv, DtsInOrder, FlushEof \/ FlushPacket
  PROVE  FlushedInOrder'
<1> DEFINE s == MinStream
<1>1. /\ UNCHANGED timing /\ s \in Streams /\ MuxOf[s] = Starting /\ premux[s] # <<>>
      /\ premux' = [premux EXCEPT ![s] = Tail(premux[s])]
      /\ Starting \in Muxes
      /\ \A m \in Muxes : m # Starting => UNCHANGED flushed[m]
  BY FlushFrame
<1>2. /\ HeadDts(s) \in Dts /\ flushed[Starting] \in Dts
      /\ flushed \in [Muxes -> Dts] /\ premux \in [Streams -> Seq(Nat)]
  BY <1>1, HeadFacts DEF IInv, Types
<1>3. \A r \in Waiting : HeadDts(s) <= HeadDts(r)
  BY MinStreamFacts DEF FlushEof, FlushPacket, TakeMinHead
<1>4. flushed'[Starting] \in {flushed[Starting], Max({flushed[Starting], HeadDts(s)})}
  BY <1>1, <1>2 DEF FlushEof, FlushPacket
<1> HIDE DEF s
<1>5. flushed'[Starting] \in {flushed[Starting], HeadDts(s)}
  BY <1>2, <1>4, MaxOfTwo DEF Dts, NOPTS
<1>6. ASSUME NEW r \in Streams, NEW k \in 1 .. Len(premux[r]),
             DtsOf(r, premux[r][k]) # NOPTS
      PROVE  flushed'[MuxOf[r]] <= DtsOf(r, premux[r][k])
  <2>1. flushed[MuxOf[r]] <= DtsOf(r, premux[r][k]) /\ MuxOf[r] \in Muxes
    BY <1>6, OrderFacts, StreamFacts DEF OrderInv, IInv
  <2>2. CASE MuxOf[r] # Starting \/ flushed'[Starting] = flushed[Starting]
    BY <1>1, <2>1, <2>2
  <2>3. CASE MuxOf[r] = Starting /\ flushed'[Starting] = HeadDts(s)
    <3>1. DtsOf(r, premux[r][k]) \in Dts
      BY EntryFacts
    <3>2. premux[r] # <<>>
      BY <1>2, LenProperties, EmptySeq
    <3>3. HeadDts(s) <= HeadDts(r) /\ HeadDts(r) \in Dts
      BY <1>3, <2>3, <3>2, StreamFacts, HeadFacts DEF Waiting
    <3>4. CASE HeadDts(s) = NOPTS
      BY <2>3, <3>1, <3>4 DEF Dts, NOPTS
    <3>5. CASE HeadDts(s) # NOPTS
      <4>1. HeadDts(r) # NOPTS
        BY <1>2, <3>3, <3>5 DEF Dts, NOPTS
      <4>2. HeadDts(r) <= DtsOf(r, premux[r][k])
        BY <1>6, <4>1, HeadIsEarliest DEF OrderInv
      <4> QED BY <1>2, <2>3, <3>1, <3>3, <4>2 DEF Dts, NOPTS
    <3> QED BY <3>4, <3>5
  <2> QED BY <1>5, <2>2, <2>3
<1>7. ASSUME NEW r \in Streams
      PROVE  /\ DOMAIN premux'[r] = 1 .. Len(premux'[r])
             /\ \A k \in 1 .. Len(premux'[r]) :
                  \E j \in 1 .. Len(premux[r]) : premux'[r][k] = premux[r][j]
  <2>1. CASE r # s
    <3>1. premux'[r] = premux[r] /\ premux[r] \in Seq(Nat)
      BY <1>1, <1>2, <2>1
    <3> QED BY <3>1, LenProperties
  <2>2. CASE r = s
    <3> DEFINE t == Tail(premux[s])
    <3>1. premux'[s] = t
      BY <1>1, <1>2
    <3>2. /\ premux[s] \in Seq(Nat) /\ Len(premux[s]) \in Nat
          /\ t \in Seq(Nat) /\ Len(t) = Len(premux[s]) - 1
          /\ \A k \in 1 .. Len(premux[s]) - 1 : t[k] = premux[s][k + 1]
      BY <1>1, <1>2, TailFacts, LenProperties
    <3>3. DOMAIN t = 1 .. Len(t)
      BY <3>2, LenProperties
    <3> HIDE DEF t
    <3>4. ASSUME NEW k \in 1 .. Len(t) PROVE \E j \in 1 .. Len(premux[s]) : t[k] = premux[s][j]
      <4>1. k + 1 \in 1 .. Len(premux[s]) /\ t[k] = premux[s][k + 1]
        BY <3>2
      <4> QED BY <4>1
    <3> QED BY <2>2, <3>1, <3>3, <3>4
  <2> QED BY <2>1, <2>2
<1>8. ASSUME NEW r \in Streams, NEW k \in DOMAIN premux'[r], DtsOf(r, premux[r][k])' # NOPTS
      PROVE  flushed'[MuxOf[r]] <= DtsOf(r, premux[r][k])'
  <2>1. PICK j \in 1 .. Len(premux[r]) : premux'[r][k] = premux[r][j]
    BY <1>7
  <2>2. DtsOf(r, premux[r][k])' = DtsOf(r, premux[r][j])
    BY <1>1, <2>1 DEF DtsOf
  <2> QED BY <1>6, <1>8, <2>2
<1> QED BY <1>8 DEF FlushedInOrder

LEMMA NextOrder ==
  ASSUME IInv, OrderInv, DtsInOrder, [Next]_vars
  PROVE  OrderInv'
<1> USE DEF startVars, premuxVars, queueVars, sendVars, muxerVars
<1>1. ASSUME UNCHANGED <<timing, premux, flushed>> PROVE OrderInv'
  BY <1>1 DEF OrderInv, FlushedInOrder, DtsOf
<1>2. ASSUME NEW s \in Streams, SendStep(s) PROVE OrderInv'
  BY <1>2, SendFrame, SendOrder DEF OrderInv
<1>3. CASE FlushEof \/ FlushPacket
  BY <1>3, FlushFrame, FlushOrder DEF OrderInv
<1>4. CASE FlushDone
  BY <1>1, <1>4, FlushDoneFrame
<1>5. ASSUME NEW s \in Streams, sch_mux_stream_ready(s) \/ sch_mux_receive_finish(s)
      PROVE  OrderInv'
  BY <1>1, <1>5 DEF sch_mux_stream_ready, sch_mux_receive_finish
<1>6. ASSUME NEW m \in Muxes, MuxerStep(m) PROVE OrderInv'
  BY <1>1, <1>6, MuxerFrame
<1>7. CASE UNCHANGED vars
  BY <1>1, <1>7 DEF vars
<1> QED BY <1>2, <1>3, <1>4, <1>5, <1>6, <1>7 DEF Next, SendStep, MuxerStep, mux_task_start

(* mux_task_start() merges the FIFOs by dts, when no stream brings packets *)
(* with a dts below that of an earlier one (packets without dts may come   *)
(* anywhere).                                                              *)
THEOREM FlushIsInOrder ==
  ASSUME DtsInOrder
  PROVE  Spec => []FlushedInOrder
<1>1. Init => OrderInv
  BY DEF Init, OrderInv, FlushedInOrder
<1>2. IInv /\ OrderInv /\ [Next]_vars => OrderInv'
  BY NextOrder
<1>3. OrderInv => FlushedInOrder
  BY DEF OrderInv
<1> QED BY <1>1, <1>2, <1>3, SpecIInv, PTL DEF Spec

-----------------------------------------------------------------------------
(* The way of a stream is a channel.                                       *)

Closed == [s \in Streams |-> sendClosed[s] \/ HasEof(s)]

LEMMA ClosedSame ==
  ASSUME \A s \in Streams : (sendClosed'[s] \/ HasEof(s)') = (sendClosed[s] \/ HasEof(s))
  PROVE  Closed' = Closed
BY DEF Closed

LEMMA ClosedKept ==
  ASSUME UNCHANGED <<sendClosed, premux>>
  PROVE  Closed' = Closed
BY DEF Closed, HasEof

LEMMA ClosedNow ==
  ASSUME NEW s \in Streams, sendClosed'[s] = TRUE \/ HasEof(s)',
         \A r \in Streams : r # s =>
           (sendClosed'[r] \/ HasEof(r)') = (sendClosed[r] \/ HasEof(r))
  PROVE  Closed' = [Closed EXCEPT ![s] = TRUE]
<1>1. (sendClosed'[s] \/ HasEof(s)') = TRUE
  OBVIOUS
<1> QED BY <1>1 DEF Closed

(* What was taken and not delivered is in the FIFO or in the queue.        *)
LEMMA Backlog ==
  ASSUME IInv, NEW s \in Streams, ~recvClosed[s]
  PROVE  /\ accepted[s] <= delivered[s] + Len(queue[MuxOf[s]]) + Len(premux[s])
         /\ Left(s) <= accepted[s]
         /\ premux[s] = <<>> => Left(s) = accepted[s]
<1> DEFINE q == queue[MuxOf[s]]
           d == delivered[s]
           left == Left(s)
<1>1. /\ left \in Int /\ d \in Nat /\ q \in Seq(Items) /\ Len(q) \in Nat
      /\ Carried(q, s, d, left)
  BY OnTheWayFacts, LenProperties
<1>2. /\ Packets(s) \in Nat /\ Packets(s) <= Len(premux[s]) /\ Len(premux[s]) \in Nat
      /\ left = accepted[s] - Packets(s) /\ accepted[s] \in Nat
  BY HasEofFacts, StateFacts DEF IInv, Left
<1>3. premux[s] = <<>> => Packets(s) = 0
  BY <1>2
<1> HIDE DEF q, d, left
<1>4. left <= d + Len(q)
  <2>1. CASE d < left
    <3>1. d + 1 \in d + 1 .. left
      BY <1>1, <2>1
    <3>2. PICK k \in 1 .. Len(q) : q[k].stream = s /\ q[k].num = d + 1
      BY <1>1, <3>1 DEF Carried
    <3>3. left - (d + 1) <= Len(q) - k
      BY <1>1, <3>2 DEF Carried, InPlace
    <3> QED BY <1>1, <3>2, <3>3
  <2>2. CASE ~(d < left)
    BY <1>1, <2>2
  <2> QED BY <2>1, <2>2
<1>5. accepted[s] <= d + Len(q) + Len(premux[s])
  <2> DEFINE a == accepted[s]
             p == Packets(s)
             l == Len(premux[s])
             n == Len(q)
  <2>1. /\ p \in Nat /\ p <= l /\ l \in Nat /\ left = a - p /\ a \in Nat
        /\ left <= d + n /\ d \in Nat /\ n \in Nat
    BY <1>1, <1>2, <1>4
  <2> HIDE DEF a, p, l, n
  <2>2. a <= d + n + l
    BY <2>1
  <2> QED BY <2>2 DEF a, l, n
<1> QED BY <1>1, <1>2, <1>3, <1>5 DEF q, d, left

LEMMA InitChannels == Init => Channels!Init
<1> SUFFICES ASSUME Init PROVE Channels!Init
  OBVIOUS
<1>1. \A s \in Streams : (sendClosed[s] \/ HasEof(s)) = FALSE
  BY DEF Init, HasEof
<1>2. [s \in Streams |-> sendClosed[s] \/ HasEof(s)] = [s \in Streams |-> FALSE]
  BY <1>1
<1> QED BY <1>2 DEF Init, Channels!Init

(* A packet is taken, by the FIFO or by the queue.                         *)
LEMMA TakeChannels ==
  ASSUME IInv, NEW s \in Streams, ~recvClosed[s],
         \/ Len(premux[s]) < Largest
         \/ premux[s] = <<>> /\ Len(queue[MuxOf[s]]) < QueueSize,
         accepted' = [accepted EXCEPT ![s] = accepted[s] + 1],
         UNCHANGED <<delivered, eofs, recvClosed>>, Closed' = Closed
  PROVE  Channels!Next
<1>1. accepted[s] < delivered[s] + Capacity
  <2>1. /\ accepted[s] <= delivered[s] + Len(queue[MuxOf[s]]) + Len(premux[s])
        /\ Len(queue[MuxOf[s]]) <= QueueSize
    BY Backlog, StreamFacts DEF IInv, QueueInv
  <2>2. /\ accepted[s] \in Nat /\ delivered[s] \in Nat /\ QueueSize \in Nat
        /\ Len(queue[MuxOf[s]]) \in Nat /\ Len(premux[s]) \in Nat /\ Largest \in Nat
        /\ premux[s] = <<>> => Len(premux[s]) = 0
    BY StateFacts, HasEofFacts, LargestFacts, LenProperties DEF IInv
  <2>3. Capacity = QueueSize + Largest
    BY DEF Capacity, Largest
  <2> DEFINE a == accepted[s]
             d == delivered[s]
             n == Len(queue[MuxOf[s]])
             l == Len(premux[s])
  <2>4. /\ a \in Nat /\ d \in Nat /\ n \in Nat /\ l \in Nat
        /\ QueueSize \in Nat /\ Largest \in Nat
    BY <2>2
  <2>5. a <= d + n + l /\ n <= QueueSize
    BY <2>1
  <2>6. l < Largest \/ (l = 0 /\ n < QueueSize)
    BY <2>2
  <2> HIDE DEF a, d, n, l
  <2>7. a < d + (QueueSize + Largest)
    BY <2>4, <2>5, <2>6
  <2> QED BY <2>3, <2>7 DEF a, d
<1>2. Channels!Accept(s)
  BY <1>1 DEF Channels!Accept, Closed
<1> QED BY <1>2 DEF Channels!Next

(* The sending side of a stream is closed.                                 *)
LEMMA CloseChannels ==
  ASSUME NEW s \in Streams, UNCHANGED <<accepted, delivered, eofs, recvClosed>>,
         Closed' = [Closed EXCEPT ![s] = TRUE]
  PROVE  Channels!Next
<1>1. Channels!CloseSend(s)
  BY DEF Channels!CloseSend, Closed
<1> QED BY <1>1 DEF Channels!Next

LEMMA StutterChannels ==
  ASSUME UNCHANGED <<accepted, delivered, eofs, recvClosed>>, Closed' = Closed
  PROVE  UNCHANGED Channels!vars
BY DEF Channels!vars, Closed

LEMMA SendChannels ==
  ASSUME IInv, NEW s \in Streams, SendStep(s)
  PROVE  [Channels!Next]_(Channels!vars)
<1> USE DEF startVars, premuxVars, queueVars, sendVars, muxerVars
<1>1. /\ UNCHANGED <<delivered, eofs, recvClosed>>
      /\ \A r \in Streams : r # s =>
           UNCHANGED <<sendClosed[r], premux[r], accepted[r]>>
  BY SendFrame
<1>2. \A r \in Streams : r # s =>
        (sendClosed'[r] \/ HasEof(r)') = (sendClosed[r] \/ HasEof(r))
  BY <1>1, LeftSame
<1>3. CASE UNCHANGED <<premux, sendClosed, accepted>>
  BY <1>1, <1>3, ClosedKept, StutterChannels
<1>4. CASE send_locked(s) /\ Queued(s) /\ ~mux_started[MuxOf[s]]
  <2>1. pc[s] = "locking" /\ sendClosed' = sendClosed /\ ~Begun(MuxOf[s]) /\ ~recvClosed[s]
    BY <1>4, StreamFacts DEF send_locked, IInv, StartInv, Begun
  <2>2. /\ accepted' = [accepted EXCEPT ![s] = accepted[s] + Size(hand[s])]
        /\ HasEof(s)' <=> hand[s] = Eof
        /\ ~HasEof(s)
        /\ accepted \in [Streams -> Nat]
    BY <1>4, <2>1, AppendLeft DEF Queued, Sent, IInv, Types
  <2>3. CASE hand[s] = Eof
    <3>1. accepted' = accepted
      BY <2>2, <2>3 DEF Size
    <3>2. Closed' = [Closed EXCEPT ![s] = TRUE]
      BY <1>2, <2>2, <2>3, ClosedNow
    <3> QED BY <1>1, <3>1, <3>2, CloseChannels
  <2>4. CASE hand[s] # Eof
    <3>1. Closed' = Closed
      BY <1>2, <2>1, <2>2, <2>4, ClosedSame
    <3>2. Len(premux[s]) < Largest
      <4>1. Len(premux[s]) < NewRoom(s) /\ NewRoom(s) <= Largest /\ NewRoom(s) \in Nat
        BY <1>4, <2>1, RoomIsLimited DEF Queued, CanQueue
      <4> QED BY <4>1, LargestFacts, HasEofFacts DEF IInv
    <3>3. accepted' = [accepted EXCEPT ![s] = accepted[s] + 1]
      BY <2>2, <2>4 DEF Size
    <3> QED BY <1>1, <2>1, <3>1, <3>2, <3>3, TakeChannels
  <2> QED BY <2>3, <2>4
<1>5. CASE send_direct(s)
  <2>1. UNCHANGED premux /\ premux[s] = <<>> /\ pc[s] = "sending"
    BY <1>5 DEF send_direct, IInv, SendInv, NothingStranded
  <2>2. ASSUME hand[s] = Eof, Sent(s) PROVE accepted' = accepted
    <3>1. accepted' = [accepted EXCEPT ![s] = accepted[s] + 0]
      BY <2>2 DEF Sent, Size
    <3>2. accepted \in [Streams -> Nat]
      BY DEF IInv, Types
    <3> QED BY <3>1, <3>2
  <2>3. CASE sendClosed' # sendClosed
    <3>1. sendClosed' = [sendClosed EXCEPT ![s] = TRUE] /\ accepted' = accepted
      BY <1>5, <2>3, <2>2 DEF send_direct, TqClose
    <3>2. sendClosed'[s] = TRUE
      BY <3>1 DEF IInv, Types
    <3>3. Closed' = [Closed EXCEPT ![s] = TRUE]
      BY <1>2, <3>2, ClosedNow
    <3> QED BY <1>1, <3>1, <3>3, CloseChannels
  <2>4. CASE sendClosed' = sendClosed /\ accepted' = accepted
    BY <1>3, <2>1, <2>4
  <2>5. CASE sendClosed' = sendClosed /\ accepted' # accepted
    <3>1. hand[s] # Eof /\ TqRoom(s) /\ accepted' = [accepted EXCEPT ![s] = accepted[s] + 1]
      BY <1>5, <2>5, <2>2 DEF send_direct, Sent, Size
    <3>2. Closed' = Closed
      BY <2>1, <2>5, ClosedKept
    <3> QED BY <1>1, <2>1, <3>1, <3>2, TakeChannels DEF TqRoom
  <2> QED BY <2>3, <2>4, <2>5
<1>6. CASE ~(send_locked(s) /\ Queued(s) /\ ~mux_started[MuxOf[s]]) /\ ~send_direct(s)
  <2>1. UNCHANGED <<premux, sendClosed, accepted>>
    BY <1>6 DEF SendStep, SendNext, send_packet, send_eof, Look, send_locked, NotQueued
  <2> QED BY <1>3, <2>1
<1> QED BY <1>4, <1>5, <1>6

(* What the flush does is not to be seen, but that the sending side of a   *)
(* stream is closed that the muxer has closed.                             *)
LEMMA FlushChannels ==
  ASSUME IInv, FlushEof \/ FlushPacket
  PROVE  [Channels!Next]_(Channels!vars)
<1>1. PICK s \in Streams :
        /\ s = MinStream /\ premux[s] # <<>>
        /\ UNCHANGED <<accepted, delivered, eofs, recvClosed>>
        /\ premux' = [premux EXCEPT ![s] = Tail(premux[s])]
  BY FlushFrame DEF sendVars, muxerVars
<1>2. /\ premux'[s] = Tail(premux[s]) /\ \A r \in Streams : r # s => premux'[r] = premux[r]
      /\ sendClosed \in [Streams -> BOOLEAN]
  BY <1>1 DEF IInv, Types
<1>3. \A r \in Streams : r # s => HasEof(r)' = HasEof(r)
  BY <1>1, <1>2, LeftSame
<1>4. /\ HasEof(s)' <=> HasEof(s) /\ Head(premux[s]) # Eof
      /\ Head(premux[s]) = Eof => HasEof(s)
  BY <1>1, <1>2, TailLeft
<1>5. CASE FlushEof
  <2>1. Head(premux[s]) = Eof /\ sendClosed' = [sendClosed EXCEPT ![s] = TRUE]
    BY <1>1, <1>5 DEF FlushEof, MinHead, TqClose
  <2>2. Closed' = Closed
    BY <1>2, <1>3, <1>4, <2>1, ClosedSame
  <2> QED BY <1>1, <2>2, StutterChannels
<1>6. CASE FlushPacket /\ sendClosed' = sendClosed
  <2>1. Head(premux[s]) # Eof
    BY <1>1, <1>6 DEF FlushPacket, MinHead
  <2>2. Closed' = Closed
    BY <1>3, <1>4, <1>6, <2>1, ClosedSame
  <2> QED BY <1>1, <2>2, StutterChannels
<1>7. CASE FlushPacket /\ sendClosed' # sendClosed
  <2>1. sendClosed' = [sendClosed EXCEPT ![s] = TRUE]
    BY <1>1, <1>7 DEF FlushPacket, TqClose
  <2>2. Closed' = [Closed EXCEPT ![s] = TRUE]
    BY <1>2, <1>3, <2>1, ClosedNow
  <2> QED BY <1>1, <2>2, CloseChannels
<1> QED BY <1>5, <1>6, <1>7

(* The receiving side of a stream is closed.                               *)
LEMMA RecvChannels ==
  ASSUME UNCHANGED <<accepted, delivered, eofs, sendClosed, premux>>,
         \/ recvClosed' = recvClosed
         \/ \E s \in Streams : recvClosed' = [recvClosed EXCEPT ![s] = TRUE]
  PROVE  [Channels!Next]_(Channels!vars)
<1>1. Closed' = Closed
  BY ClosedKept
<1>2. CASE recvClosed' = recvClosed
  BY <1>1, <1>2, StutterChannels
<1>3. ASSUME NEW s \in Streams, recvClosed' = [recvClosed EXCEPT ![s] = TRUE]
      PROVE  Channels!Next
  <2>1. Channels!CloseRecv(s)
    BY <1>1, <1>3 DEF Channels!CloseRecv, Closed
  <2> QED BY <2>1 DEF Channels!Next
<1> QED BY <1>2, <1>3

LEMMA MuxerChannels ==
  ASSUME IInv, NEW m \in Muxes, MuxerStep(m)
  PROVE  [Channels!Next]_(Channels!vars)
<1>1. UNCHANGED <<sendClosed, premux, accepted>> /\ Closed' = Closed
  BY MuxerFrame, ClosedKept DEF premuxVars, sendVars
<1>2. CASE sch_mux_receive(m)
  <2>1. PICK s \in Streams : /\ ~recvClosed[s] /\ delivered[s] < Left(s)
                             /\ delivered' = [delivered EXCEPT ![s] = delivered[s] + 1]
    BY <1>2, ReceiveQueueInv
  <2>2. delivered[s] < accepted[s]
    <3>1. Left(s) <= accepted[s]
      BY <2>1, Backlog
    <3> QED BY <2>1, <3>1, HasEofFacts, StateFacts DEF IInv
  <2>3. UNCHANGED <<eofs, recvClosed>>
    BY <1>2 DEF sch_mux_receive
  <2>4. Channels!Deliver(s)
    BY <1>1, <2>1, <2>2, <2>3 DEF Channels!Deliver, Closed
  <2> QED BY <2>4 DEF Channels!Next
<1>3. CASE sch_mux_receive_eof(m)
  <2>1. PICK s \in Streams :
          /\ MuxOf[s] = m /\ sendClosed[s] /\ ~recvClosed[s] /\ Deliverable(m) = {}
          /\ recvClosed' = [recvClosed EXCEPT ![s] = TRUE]
          /\ eofs' = [eofs EXCEPT ![s] = eofs[s] + 1]
    BY <1>3, ClosesFacts DEF sch_mux_receive_eof, Ended
  <2>2. delivered[s] = accepted[s]
    <3>1. premux[s] = <<>>
      BY <2>1 DEF IInv, ClosedInv
    <3> QED BY <2>1, <3>1, Backlog, NothingDeliverable
  <2>3. UNCHANGED delivered
    BY <1>3 DEF sch_mux_receive_eof
  <2>4. Channels!DeliverEof(s)
    BY <1>1, <2>1, <2>2, <2>3 DEF Channels!DeliverEof, Closed
  <2> QED BY <2>4 DEF Channels!Next
<1>4. CASE \/ sch_mux_receive_waits(m)
           \/ muxer_thread_ends(m) \/ muxer_thread_stops(m) \/ mux_done(m)
  <2>1. UNCHANGED <<delivered, eofs>>
    BY <1>4 DEF sch_mux_receive_waits, muxerVars, muxer_thread_ends, muxer_thread_stops, mux_done
  <2>2. \/ recvClosed' = recvClosed
        \/ \E s \in Streams : recvClosed' = [recvClosed EXCEPT ![s] = TRUE]
    BY MuxerFrame
  <2> QED BY <1>1, <2>1, <2>2, RecvChannels
<1> QED BY <1>2, <1>3, <1>4 DEF MuxerStep, MuxerNext

LEMMA NextChannels ==
  ASSUME IInv, [Next]_vars
  PROVE  [Channels!Next]_(Channels!vars)
<1> USE DEF startVars, premuxVars, queueVars, sendVars, muxerVars
<1>1. ASSUME NEW s \in Streams, SendStep(s) PROVE [Channels!Next]_(Channels!vars)
  BY <1>1, SendChannels
<1>2. ASSUME NEW s \in Streams, sch_mux_stream_ready(s) \/ sch_mux_receive_finish(s)
      PROVE  [Channels!Next]_(Channels!vars)
  BY <1>2, RecvChannels DEF sch_mux_stream_ready, sch_mux_receive_finish
<1>3. CASE FlushEof \/ FlushPacket
  BY <1>3, FlushChannels
<1>4. CASE FlushDone
  BY <1>4, FlushDoneFrame, RecvChannels
<1>5. ASSUME NEW m \in Muxes, MuxerStep(m) PROVE [Channels!Next]_(Channels!vars)
  BY <1>5, MuxerChannels
<1>6. CASE UNCHANGED vars
  BY <1>6, RecvChannels DEF vars
<1> QED BY <1>1, <1>2, <1>3, <1>4, <1>5, <1>6
        DEF Next, SendStep, MuxerStep, mux_task_start

(* What send_to_mux() takes of a stream comes out of sch_mux_receive() as  *)
(* from one channel: nothing is lost, duplicated or overtaken on the way   *)
(* through the pre-mux FIFO, the flush of mux_task_start() and the queue,  *)
(* or around the FIFO, and never more than both hold is on that way.       *)
THEOREM WayImplementsChannels == Spec => ImplementsChannels
BY InitChannels, NextChannels, SpecIInv, PTL DEF Spec, ImplementsChannels, Channels!Spec
=============================================================================
