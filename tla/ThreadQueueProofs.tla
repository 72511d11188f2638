------------------------- MODULE ThreadQueueProofs -------------------------
(***************************************************************************)
(* What holds of ThreadQueue for every number of streams and producers and *)
(* every size of the queue.                                                *)
(***************************************************************************)
EXTENDS ThreadQueue, SequenceTheorems, WellFoundedInduction, TLAPS

(* The inductive invariant.                                                *)
IInv ==
  /\ TypeOK
  /\ FifosInStep
  /\ ItemsAccountedFor
  /\ EofComplete
  /\ NoLostWakeup

USE ThreadQueueAssumption DEF ThreadQueueAssumption

LEMMA InitIInv == Init => IInv
<1> SUFFICES ASSUME Init PROVE IInv
  OBVIOUS
<1> USE DEF Init
<1>1. TypeOK
  <2>1. choked \in BOOLEAN
    OBVIOUS
  <2>2. finished \in [Streams -> SUBSET Flags]
    OBVIOUS
  <2>3. fifo \in Seq(Item)
    OBVIOUS
  <2>4. fifo_stream_index \in Seq(Streams)
    OBVIOUS
  <2>5. pc \in [Threads -> {"idle", "waiting", "woken"}]
    OBVIOUS
  <2>6. arg \in [Producers -> Streams]
    BY DEF Streams
  <2>7. /\ accepted \in [Streams -> Nat] 
        /\ delivered \in [Streams -> Nat]
        /\ eofs \in [Streams -> 0 .. 1]
        /\ nchokes \in 0 .. MaxChokes
    OBVIOUS
  <2> QED BY <2>1, <2>2, <2>3, <2>4, <2>5, <2>6, <2>7 DEF TypeOK
<1>2. FifosInStep
  BY DEF FifosInStep
<1>3. ItemsAccountedFor
  BY DEF ItemsAccountedFor, StreamAccountedFor
<1>4. EofComplete
  BY DEF EofComplete
<1>5. NoLostWakeup
  BY DEF NoLostWakeup, Threads
<1>6. QED
  BY <1>1, <1>2, <1>3, <1>4, <1>5 DEF IInv

-----------------------------------------------------------------------------
(* The data structures.                                                    *)

LessNat == {ss \in Nat \X Nat : ss[1] < ss[2]}

(* Every nonempty set of numbers has a smallest element.                   *)
LEMMA Smallest ==
  ASSUME NEW S \in SUBSET Nat, S # {}
  PROVE  \E k \in S : \A j \in S : k <= j
<1>1. PICK k \in S : \A j \in S : ~(<<j, k>> \in LessNat)
  <2>1. IsWellFoundedOn(LessNat, Nat)
    BY NatLessThanWellFounded DEF LessNat, OpToRel
  <2> QED BY <2>1, WFMin
<1>2. \A j \in S : k <= j
  <2> TAKE j \in S
  <2>1. <<j, k>> \in Nat \X Nat
    OBVIOUS
  <2>2. ~(<<j, k>>[1] < <<j, k>>[2])
    BY <1>1, <2>1, Zenon DEF LessNat
  <2> QED BY <2>2
<1> QED BY <1>2

(* The position receive_locked() stops at, and what it skips.              *)
LEMMA FirstDeliverableFacts ==
  ASSUME TypeOK, Deliverable # {}
  PROVE  /\ FirstDeliverable \in 1 .. Len(fifo)
         /\ ~RecvFinished(fifo_stream_index[FirstDeliverable])
         /\ \A j \in 1 .. FirstDeliverable - 1 : RecvFinished(fifo_stream_index[j])
<1>1. Deliverable \in SUBSET Nat /\ Deliverable \subseteq 1 .. Len(fifo)
  BY DEF Deliverable, TypeOK
<1>2. \E k \in Deliverable : \A j \in Deliverable : k <= j
  BY <1>1, Smallest
<1>3. /\ FirstDeliverable \in Deliverable
      /\ \A j \in Deliverable : FirstDeliverable <= j
  BY <1>2 DEF FirstDeliverable
<1>4. \A j \in 1 .. FirstDeliverable - 1 : j \in DOMAIN fifo /\ j \notin Deliverable
  BY <1>1, <1>3 DEF TypeOK
<1> QED BY <1>1, <1>3, <1>4 DEF Deliverable

(* The stream whose EOF receive_locked() returns.                          *)
LEMMA FirstEofFacts ==
  ASSUME EofPending # {}
  PROVE  FirstEof \in EofPending
<1>1. EofPending \in SUBSET Nat
  BY DEF EofPending, Streams
<1>2. \E s \in EofPending : \A t \in EofPending : s <= t
  BY <1>1, Smallest
<1> QED BY <1>2 DEF FirstEof

LEMMA DrainShifts ==
  ASSUME TypeOK, FifosInStep, ~nomem, NEW n \in 0 .. Len(fifo), Drain(n)
  PROVE  /\ fifo' \in Seq(Item)
         /\ fifo_stream_index' \in Seq(Streams)
         /\ Len(fifo') = Len(fifo) - n
         /\ Len(fifo_stream_index') = Len(fifo) - n
         /\ \A k \in 1 .. Len(fifo) - n :
              /\ fifo'[k] = fifo[k + n]
              /\ fifo_stream_index'[k] = fifo_stream_index[k + n]
<1>1. /\ n + 1 \in Int
      /\ Len(fifo) \in Int
      /\ \A i \in n + 1 .. Len(fifo) : fifo[i] \in Item
      /\ Len(fifo_stream_index) = Len(fifo)
      /\ \A i \in n + 1 .. Len(fifo) : fifo_stream_index[i] \in Streams
  BY DEF TypeOK, FifosInStep
<1>2. /\ fifo' \in Seq(Item)
      /\ Len(fifo') = Len(fifo) - n
      /\ \A k \in 1 .. Len(fifo) - n : fifo'[k] = fifo[k + n]
  BY <1>1, SubSeqProperties DEF Drain
<1>3. /\ fifo_stream_index' \in Seq(Streams)
      /\ Len(fifo_stream_index') = Len(fifo) - n
      /\ \A k \in 1 .. Len(fifo) - n : fifo_stream_index'[k] = fifo_stream_index[k + n]
  BY <1>1, SubSeqProperties DEF Drain
<1> QED BY <1>2, <1>3

(* The fields of the items.                                                *)
LEMMA ItemFields ==
  ASSUME TypeOK
  PROVE  /\ Len(fifo) \in Nat
         /\ DOMAIN fifo = 1 .. Len(fifo)
         /\ \A k \in DOMAIN fifo : fifo[k].stream \in Streams /\ fifo[k].num \in Nat
<1>1. \A k \in DOMAIN fifo : fifo[k] \in Item
  BY DEF TypeOK
<1>2. \A i \in Item : i.stream \in Streams /\ i.num \in Nat
  BY DEF Item
<1> QED BY <1>1, <1>2 DEF TypeOK

(* A broadcast leaves nobody asleep.                                       *)
LEMMA BroadcastWakes ==
  ASSUME NEW q \in [Threads -> {"idle", "waiting", "woken"}]
  PROVE  /\ Broadcast(q) \in [Threads -> {"idle", "waiting", "woken"}]
         /\ \A t \in Threads : Broadcast(q)[t] # "waiting"
BY DEF Broadcast

-----------------------------------------------------------------------------
(* Each operation preserves the invariant.                                 *)

LEMMA SendEofStep ==
  ASSUME IInv, ~nomem, NEW p \in Producers, NEW s \in Streams, SendEof(p, s)
  PROVE  IInv'
<1> USE DEF IInv, SendEof, queueVars, historyVars, RecvFinished, SendFinished
<1>1. TypeOK'
  BY DEF TypeOK, Threads, Flags
<1>2. FifosInStep'
  BY DEF FifosInStep
<1>3. \A t \in Streams : RecvFinished(t)' <=> RecvFinished(t)
  BY DEF TypeOK, FINISHED_RECV, FINISHED_SEND
<1>4. ItemsAccountedFor'
  <2>1. ASSUME NEW t \in Streams PROVE StreamAccountedFor(t)'
    BY <1>3 DEF ItemsAccountedFor, StreamAccountedFor
  <2>2. ASSUME NEW k \in DOMAIN fifo PROVE ItemInPlace(k)'
    BY <1>3, ItemFields DEF ItemsAccountedFor, ItemInPlace, TypeOK
  <2> QED BY <2>1, <2>2 DEF ItemsAccountedFor
<1>5. EofComplete'
  BY <1>3 DEF EofComplete
<1>6. NoLostWakeup'
  <2>1. \A t \in Threads : pc'[t] = "waiting" => pc[t] = "waiting"
    BY DEF TypeOK
  <2>2. EofPending' = EofPending
    BY <1>3 DEF EofPending, TypeOK, FINISHED_RECV, FINISHED_SEND
  <2>3. Deliverable' = Deliverable
    <3>1. fifo' = fifo /\ fifo_stream_index' = fifo_stream_index
      OBVIOUS
    <3>2. \A k \in DOMAIN fifo : fifo_stream_index[k] \in Streams
      BY DEF TypeOK, FifosInStep
    <3> HIDE DEF SendEof, IInv, RecvFinished
    <3> QED BY <1>3, <3>1, <3>2 DEF Deliverable
  <2>4. AllFinished' => AllFinished
    BY DEF AllFinished, TypeOK
  <2>5. ReceiveEnabled' => ReceiveEnabled
    BY <2>2, <2>3, <2>4 DEF ReceiveEnabled
  <2>6. \A q \in Producers : SendEnabled(arg[q])' => SendEnabled(arg[q])
    BY <1>3 DEF SendEnabled, Full, TypeOK
  <2> QED BY <2>1, <2>5, <2>6 DEF NoLostWakeup, Threads
<1> QED BY <1>1, <1>2, <1>4, <1>5, <1>6

LEMMA SendWriteStep ==
  ASSUME IInv, ~nomem, NEW p \in Producers, NEW s \in Streams, SendWrite(p, s)
  PROVE  IInv'
<1> USE DEF IInv, SendWrite, RecvFinished, SendFinished
<1> DEFINE item == [stream |-> s, num |-> accepted[s] + 1]
<1>1. item \in Item
  BY DEF TypeOK, Item
<1>2. /\ fifo' \in Seq(Item)
      /\ fifo_stream_index' \in Seq(Streams)
      /\ Len(fifo') = Len(fifo) + 1
      /\ Len(fifo_stream_index') = Len(fifo_stream_index) + 1
      /\ \A k \in 1 .. Len(fifo) : fifo'[k] = fifo[k]
      /\ \A k \in 1 .. Len(fifo) : fifo_stream_index'[k] = fifo_stream_index[k]
      /\ fifo'[Len(fifo) + 1] = item
      /\ fifo_stream_index'[Len(fifo) + 1] = s
  BY <1>1 DEF TypeOK, FifosInStep
<1>3. DOMAIN fifo = 1 .. Len(fifo) /\ DOMAIN fifo' = 1 .. Len(fifo) + 1
  BY <1>2 DEF TypeOK
<1>4. /\ pc' \in [Threads -> {"idle", "waiting", "woken"}]
      /\ \A t \in Threads : pc'[t] # "waiting"
  <2>1. [pc EXCEPT ![p] = "idle"] \in [Threads -> {"idle", "waiting", "woken"}]
    BY DEF TypeOK, Threads
  <2> QED BY <2>1, BroadcastWakes
<1>5. TypeOK'
  <2>1. accepted' \in [Streams -> Nat]
    BY DEF TypeOK
  <2> QED BY <1>2, <1>4, <2>1 DEF TypeOK
<1>6. FifosInStep'
  <2>1. Len(fifo) \in Nat /\ Len(fifo) + 1 <= QueueSize
    BY DEF Full, FifosInStep, TypeOK
  <2>2. ASSUME NEW k \in DOMAIN fifo' PROVE fifo'[k].stream = fifo_stream_index'[k]
    <3>1. CASE k \in 1 .. Len(fifo)
      <4>1. fifo[k].stream = fifo_stream_index[k]
        BY <1>3, <3>1 DEF FifosInStep
      <4> HIDE DEF SendWrite, IInv
      <4> QED BY <1>2, <3>1, <4>1
    <3>2. CASE k = Len(fifo) + 1
      <4>1. fifo'[k] = item /\ fifo_stream_index'[k] = s
        BY <1>2, <3>2
      <4> QED BY <4>1
    <3>3. k \in 1 .. Len(fifo) + 1
      BY <1>2, <2>1
    <3> HIDE DEF SendWrite
    <3> QED BY <2>1, <3>1, <3>2, <3>3
  <2> QED BY <1>2, <2>1, <2>2 DEF FifosInStep
<1>7. ItemsAccountedFor'
  <2>1. ASSUME NEW t \in Streams PROVE StreamAccountedFor(t)'
    <3>1. /\ StreamAccountedFor(t)
          /\ accepted[t] \in Nat
          /\ delivered[t] \in Nat
          /\ accepted'[t] = IF t = s THEN accepted[t] + 1 ELSE accepted[t]
          /\ delivered'[t] = delivered[t]
          /\ RecvFinished(t)' = RecvFinished(t)
      BY DEF ItemsAccountedFor, TypeOK
    <3>2. ASSUME ~RecvFinished(t), NEW n \in delivered[t] + 1 .. accepted'[t]
          PROVE  \E k \in DOMAIN fifo' : fifo'[k].stream = t /\ fifo'[k].num = n
      <4>1. CASE n <= accepted[t]
        <5>1. PICK k \in DOMAIN fifo : fifo[k].stream = t /\ fifo[k].num = n
          BY <3>1, <3>2, <4>1 DEF StreamAccountedFor
        <5> HIDE DEF SendWrite, IInv
        <5>2. k \in 1 .. Len(fifo)
          BY <1>3, <5>1
        <5>3. k \in DOMAIN fifo' /\ fifo'[k] = fifo[k]
          BY <1>2, <1>3, <5>2
        <5> QED BY <5>1, <5>3
      <4>2. CASE ~(n <= accepted[t])
        <5>1. t = s /\ n = accepted[s] + 1
          BY <3>1, <3>2, <4>2
        <5>2. Len(fifo) + 1 \in DOMAIN fifo'
          BY <1>3 DEF TypeOK
        <5> HIDE DEF SendWrite, IInv
        <5> QED BY <1>2, <5>1, <5>2
      <4> QED BY <4>1, <4>2
    <3> QED BY <3>1, <3>2 DEF StreamAccountedFor
  <2>2. ASSUME NEW k \in DOMAIN fifo' PROVE ItemInPlace(k)'
    <3>1. /\ accepted' = [accepted EXCEPT ![s] = accepted[s] + 1]
          /\ delivered' = delivered
          /\ \A t \in Streams : RecvFinished(t)' = RecvFinished(t)
          /\ \A t \in Streams : accepted[t] \in Nat /\ delivered[t] \in Nat
          /\ \A t \in Streams : delivered[t] <= accepted[t]
          /\ Len(fifo) \in Nat
      BY DEF TypeOK, ItemsAccountedFor, StreamAccountedFor
    <3>5. finished' = finished /\ delivered' = delivered
      OBVIOUS
    <3>2. CASE k \in 1 .. Len(fifo)
      <4>1. ItemInPlace(k) /\ fifo[k].stream \in Streams /\ fifo[k].num \in Nat
        BY <3>2, ItemFields DEF ItemsAccountedFor, TypeOK
      <4>2. fifo'[k] = fifo[k] /\ \A j \in 1 .. k - 1 : fifo'[j] = fifo[j]
        <5> HIDE DEF SendWrite, IInv
        <5> QED BY <1>2, <3>1, <3>2
      <4>3. \A t \in Streams : accepted'[t] \in Nat /\ accepted[t] <= accepted'[t]
        BY <3>1 DEF TypeOK
      <4>4. accepted'[fifo[k].stream] <= accepted[fifo[k].stream] + 1
        <5>1. \A t \in Streams : accepted'[t] = IF t = s THEN accepted[t] + 1 ELSE accepted[t]
          BY DEF TypeOK
        <5> HIDE DEF SendWrite, IInv
        <5> QED BY <3>1, <4>1, <5>1
      <4> DEFINE t == fifo[k].stream
                 n == fifo[k].num
      <4> HIDE DEF SendWrite
      <4>5. n <= accepted'[t]
        <5>1. n <= accepted[t] /\ n \in Nat /\ t \in Streams
          BY <4>1 DEF ItemInPlace
        <5>2. accepted[t] \in Nat /\ accepted'[t] \in Nat /\ accepted[t] <= accepted'[t]
          BY <3>1, <4>3, <5>1
        <5> HIDE DEF n, t, IInv
        <5> QED BY <5>1, <5>2
      <4>6. accepted'[t] + k <= n + Len(fifo')
        <5>1. /\ n \in Nat
              /\ accepted[t] \in Nat
              /\ accepted'[t] \in Nat
              /\ accepted'[t] <= accepted[t] + 1
              /\ accepted[t] + k <= n + Len(fifo)
          BY <3>1, <4>1, <4>3, <4>4 DEF ItemInPlace
        <5> HIDE DEF n, t
        <5> QED BY <1>2, <3>1, <3>2, <5>1
      <4>7. ~RecvFinished(t)' => delivered'[t] < n
        BY <3>5, <4>1, <4>2 DEF ItemInPlace
      <4>8. \A j \in 1 .. k - 1 : fifo'[j].stream = t => fifo'[j].num < n
        BY <4>1, <4>2 DEF ItemInPlace
      <4> QED BY <4>2, <4>5, <4>6, <4>7, <4>8 DEF ItemInPlace
    <3>3. CASE k = Len(fifo) + 1
      <4>1. fifo'[k].stream = s /\ fifo'[k].num = accepted[s] + 1
        BY <1>2, <3>3
      <4>2. \A j \in 1 .. k - 1 : fifo'[j] = fifo[j]
        BY <1>2, <3>3, <3>1
      <4>3. \A j \in 1 .. k - 1 : fifo[j].stream = s => fifo[j].num <= accepted[s]
        BY <3>1, <3>3 DEF ItemsAccountedFor, ItemInPlace, TypeOK
      <4>4. accepted'[s] = accepted[s] + 1
        BY <3>1 DEF TypeOK
      <4>5. \A j \in 1 .. k - 1 : fifo'[j].stream = s => fifo'[j].num < accepted[s] + 1
        BY <3>1, <3>3, <4>2, <4>3, ItemFields
      <4> QED BY <1>2, <3>1, <3>3, <4>1, <4>4, <4>5 DEF ItemInPlace
    <3> QED BY <1>2, <3>1, <3>2, <3>3
  <2> QED BY <2>1, <2>2 DEF ItemsAccountedFor
<1>8. EofComplete'
  BY DEF EofComplete, TypeOK
<1>9. NoLostWakeup'
  BY <1>4 DEF NoLostWakeup, Threads
<1> QED BY <1>5, <1>6, <1>7, <1>8, <1>9

LEMMA SendWaitStep ==
  ASSUME IInv, ~nomem, NEW p \in Producers, NEW s \in Streams, SendWait(p, s)
  PROVE  IInv'
<1> USE DEF IInv, SendWait, queueVars, historyVars, RecvFinished, SendFinished
<1>1. TypeOK'
  BY DEF TypeOK, Threads
<1>2. FifosInStep' /\ ItemsAccountedFor' /\ EofComplete'
  BY DEF FifosInStep, ItemsAccountedFor, StreamAccountedFor, ItemInPlace, EofComplete
<1>3. NoLostWakeup'
  <2>1. p # Consumer
    OBVIOUS
  <2>2. pc'[Consumer] = pc[Consumer]
    BY <2>1 DEF TypeOK, Threads
  <2>3. ReceiveEnabled' = ReceiveEnabled
    BY DEF ReceiveEnabled, Deliverable, EofPending, AllFinished
  <2>4. ASSUME NEW q \in Producers, pc'[q] = "waiting"
        PROVE  ~SendEnabled(arg[q])'
    BY <2>4 DEF SendEnabled, Full, TypeOK, Threads, NoLostWakeup
  <2> QED BY <2>2, <2>3, <2>4 DEF NoLostWakeup
<1> QED BY <1>1, <1>2, <1>3

LEMMA ReceiveItemStep ==
  ASSUME IInv, ~nomem, ReceiveItem
  PROVE  IInv'
<1> DEFINE k  == FirstDeliverable
           s0 == fifo_stream_index[k]
           m  == fifo[k].num
<1>1. /\ k \in 1 .. Len(fifo)
      /\ s0 \in Streams
      /\ ~RecvFinished(s0)
      /\ \A j \in 1 .. k - 1 : RecvFinished(fifo_stream_index[j])
      /\ Len(fifo) \in Nat
  BY FirstDeliverableFacts, ItemFields DEF IInv, ReceiveItem, TypeOK, FifosInStep
<1>2. /\ fifo' \in Seq(Item)
      /\ fifo_stream_index' \in Seq(Streams)
      /\ Len(fifo') = Len(fifo) - k
      /\ Len(fifo_stream_index') = Len(fifo) - k
      /\ \A j \in 1 .. Len(fifo) - k : /\ fifo'[j] = fifo[j + k]
                                       /\ fifo_stream_index'[j] = fifo_stream_index[j + k]
  <2>1. k \in 0 .. Len(fifo) /\ Drain(k)
    BY <1>1 DEF ReceiveItem
  <2> HIDE DEF k
  <2> QED BY <2>1, DrainShifts DEF IInv
<1>3. /\ finished' = finished
      /\ accepted' = accepted
      /\ eofs' = eofs
      /\ delivered' = [delivered EXCEPT ![s0] = m]
      /\ pc' = Broadcast([pc EXCEPT ![Consumer] = "idle"])
      /\ UNCHANGED <<choked, arg, nomem, nchokes>>
  BY DEF ReceiveItem
<1>4. /\ fifo[k].stream = s0
      /\ fifo[k].stream \in Streams
      /\ m \in Nat
      /\ ItemInPlace(k)
  BY <1>1, ItemFields DEF IInv, FifosInStep, ItemsAccountedFor
<1>5. m <= accepted[s0] /\ delivered[s0] < m
  BY <1>1, <1>4 DEF ItemInPlace
<1>6. \A j \in 1 .. Len(fifo) :
        /\ fifo_stream_index[j] = fifo[j].stream
        /\ fifo[j].stream \in Streams
        /\ fifo[j].num \in Nat
        /\ ItemInPlace(j)
  BY ItemFields DEF IInv, FifosInStep, ItemsAccountedFor
<1>7. \A t \in Streams : /\ accepted[t] \in Nat /\ delivered[t] \in Nat
                         /\ StreamAccountedFor(t)
                         /\ delivered'[t] = IF t = s0 THEN m ELSE delivered[t]
                         /\ RecvFinished(t)' <=> RecvFinished(t)
  BY <1>3 DEF IInv, TypeOK, ItemsAccountedFor, RecvFinished
<1>8. /\ pc' \in [Threads -> {"idle", "waiting", "woken"}]
      /\ \A t \in Threads : pc'[t] # "waiting"
  <2>1. [pc EXCEPT ![Consumer] = "idle"] \in [Threads -> {"idle", "waiting", "woken"}]
    BY DEF IInv, TypeOK, Threads
  <2> QED BY <1>3, <2>1, BroadcastWakes
<1>9. TypeOK'
  <2>1. delivered' \in [Streams -> Nat]
    BY <1>3, <1>4, <1>1 DEF IInv, TypeOK
  <2> QED BY <1>2, <1>3, <1>8, <2>1 DEF IInv, TypeOK
<1> HIDE DEF k, s0, m
<1>10. FifosInStep'
  <2>1. ASSUME NEW j \in DOMAIN fifo' PROVE fifo'[j].stream = fifo_stream_index'[j]
    <3>1. j \in 1 .. Len(fifo) - k /\ j + k \in 1 .. Len(fifo)
      BY <1>1, <1>2, <2>1
    <3> QED BY <1>2, <1>6, <3>1
  <2>2. Len(fifo) <= QueueSize
    BY DEF IInv, FifosInStep
  <2> QED BY <1>1, <1>2, <2>1, <2>2 DEF FifosInStep
<1>11. ItemsAccountedFor'
  <2>1. ASSUME NEW t \in Streams PROVE StreamAccountedFor(t)'
    <3>1. delivered'[t] <= accepted'[t]
      BY <1>3, <1>5, <1>7 DEF StreamAccountedFor
    <3>2. ASSUME ~RecvFinished(t), NEW n \in delivered'[t] + 1 .. accepted[t]
          PROVE  \E j \in DOMAIN fifo' : fifo'[j].stream = t /\ fifo'[j].num = n
      <4>1. n \in delivered[t] + 1 .. accepted[t]
        BY <1>4, <1>5, <1>7
      <4>2. PICK i \in 1 .. Len(fifo) : fifo[i].stream = t /\ fifo[i].num = n
        BY <1>7, <3>2, <4>1, ItemFields DEF IInv, StreamAccountedFor
      <4>3. ~(i < k)
        BY <1>1, <1>6, <3>2, <4>2
      <4>4. i # k
        <5>1. SUFFICES ASSUME i = k PROVE FALSE
          OBVIOUS
        <5>2. t = s0 /\ n = m
          BY <1>4, <4>2, <5>1 DEF m
        <5> QED BY <1>4, <1>7, <5>2
      <4>5. i - k \in 1 .. Len(fifo) - k /\ (i - k) + k = i
        BY <1>1, <4>3, <4>4
      <4>6. i - k \in DOMAIN fifo'
        BY <1>1, <1>2, <4>5
      <4> QED BY <1>2, <4>2, <4>5, <4>6
    <3> QED BY <1>3, <1>7, <3>1, <3>2 DEF StreamAccountedFor
  <2>2. ASSUME NEW j \in DOMAIN fifo' PROVE ItemInPlace(j)'
    <3>1. /\ j \in 1 .. Len(fifo) - k
          /\ j + k \in 1 .. Len(fifo)
          /\ fifo'[j] = fifo[j + k]
      BY <1>1, <1>2, <2>2
    <3> DEFINE t == fifo[j + k].stream
               n == fifo[j + k].num
    <3>2. /\ t \in Streams
          /\ n \in Nat
          /\ n <= accepted[t]
          /\ accepted[t] + (j + k) <= n + Len(fifo)
          /\ ~RecvFinished(t) => delivered[t] < n
          /\ \A i \in 1 .. (j + k) - 1 : fifo[i].stream = t => fifo[i].num < n
      BY <1>6, <3>1 DEF ItemInPlace
    <3>3. fifo'[j].stream = t /\ fifo'[j].num = n
      BY <3>1
    <3>4. k \in 1 .. (j + k) - 1
      BY <1>1, <3>1
    <3>5. t = s0 => m < n
      BY <1>4, <3>2, <3>4 DEF m
    <3>6. accepted'[t] + j <= n + Len(fifo')
      <4>1. /\ accepted'[t] = accepted[t]
            /\ accepted[t] \in Nat
            /\ j \in Nat /\ k \in Nat
            /\ Len(fifo') = Len(fifo) - k
        BY <1>1, <1>2, <1>3, <1>7, <3>1, <3>2
      <4> HIDE DEF t, n
      <4> QED BY <1>1, <3>2, <4>1
    <3>7. ~RecvFinished(t) => delivered'[t] < n
      BY <1>7, <3>2, <3>5
    <3>8. \A i \in 1 .. j - 1 : fifo'[i].stream = t => fifo'[i].num < n
      <4>1. ASSUME NEW i \in 1 .. j - 1
            PROVE  i + k \in 1 .. (j + k) - 1 /\ fifo'[i] = fifo[i + k]
        BY <1>1, <1>2, <3>1
      <4> QED BY <3>2, <4>1
    <3>9. n <= accepted'[t]
      BY <1>3, <3>2
    <3>10. finished' = finished
      BY <1>3
    <3> HIDE DEF t, n
    <3> QED BY <3>3, <3>6, <3>7, <3>8, <3>9, <3>10 DEF ItemInPlace, RecvFinished
  <2> QED BY <2>1, <2>2 DEF ItemsAccountedFor
<1>12. EofComplete'
  BY <1>1, <1>3, <1>7 DEF IInv, EofComplete, RecvFinished
<1>13. NoLostWakeup'
  BY <1>8 DEF NoLostWakeup, Threads
<1> QED BY <1>9, <1>10, <1>11, <1>12, <1>13 DEF IInv

(* When nothing is deliverable, all that was accepted for the streams      *)
(* that are open for receiving has been delivered, and the FIFOs end up    *)
(* empty.                                                                  *)
LEMMA DropAllFacts ==
  ASSUME IInv, ~nomem, NEW state \in {"idle", "waiting"}, DropAll(state)
  PROVE  /\ fifo' \in Seq(Item)
         /\ fifo_stream_index' \in Seq(Streams)
         /\ Len(fifo') = 0
         /\ Len(fifo_stream_index') = 0
         /\ \A s \in Streams : ~RecvFinished(s) => delivered[s] = accepted[s]
         /\ pc' \in [Threads -> {"idle", "waiting", "woken"}]
         /\ pc'[Consumer] = state
         /\ \A p \in Producers : pc'[p] # "waiting"
<1>1. Len(fifo) \in Nat /\ Deliverable = {} /\ Drain(Len(fifo))
  BY ItemFields DEF IInv, DropAll
<1>2. /\ fifo' \in Seq(Item)
      /\ fifo_stream_index' \in Seq(Streams)
      /\ Len(fifo') = 0
      /\ Len(fifo_stream_index') = 0
  BY <1>1, DrainShifts DEF IInv
<1>3. ASSUME NEW s \in Streams, ~RecvFinished(s)
      PROVE  delivered[s] = accepted[s]
  <2>1. /\ delivered[s] \in Nat
        /\ accepted[s] \in Nat
        /\ StreamAccountedFor(s)
    BY DEF IInv, TypeOK, ItemsAccountedFor
  <2>2. ASSUME delivered[s] < accepted[s] PROVE FALSE
    <3>1. PICK k \in DOMAIN fifo : fifo[k].stream = s
      BY <1>3, <2>1, <2>2 DEF StreamAccountedFor
    <3>2. k \in Deliverable
      BY <1>3, <3>1 DEF IInv, FifosInStep, Deliverable
    <3> QED BY <1>1, <3>2
  <2> QED BY <2>1, <2>2 DEF StreamAccountedFor
<1>4. ASSUME fifo = <<>>, NEW p \in Producers PROVE pc[p] # "waiting"
  BY <1>4 DEF IInv, TypeOK, NoLostWakeup, FifosInStep, SendEnabled, Full
<1>5. /\ pc' \in [Threads -> {"idle", "waiting", "woken"}]
      /\ pc'[Consumer] = state
      /\ \A p \in Producers : pc'[p] # "waiting"
  <2> DEFINE q == IF fifo # <<>> THEN Broadcast(pc) ELSE pc
  <2>1. q \in [Threads -> {"idle", "waiting", "woken"}]
    BY BroadcastWakes DEF IInv, TypeOK
  <2>2. \A p \in Producers : q[p] # "waiting"
    BY <1>4, BroadcastWakes DEF IInv, TypeOK, Threads
  <2>3. pc' = [q EXCEPT ![Consumer] = state]
    BY DEF DropAll
  <2> HIDE DEF q
  <2> QED BY <2>1, <2>2, <2>3 DEF Threads
<1> QED BY <1>2, <1>3, <1>5

LEMMA EmptyFifosInStep ==
  ASSUME IInv, ~nomem,
         Len(fifo') = 0, Len(fifo_stream_index') = 0, fifo' \in Seq(Item),
         accepted' = accepted, delivered' = delivered,
         \A s \in Streams : ~RecvFinished(s)' => delivered[s] = accepted[s]
  PROVE  FifosInStep' /\ ItemsAccountedFor'
<1>1. DOMAIN fifo' = {}
  OBVIOUS
<1>2. FifosInStep'
  BY <1>1 DEF FifosInStep
<1>3. ASSUME NEW s \in Streams PROVE StreamAccountedFor(s)'
  <2>1. delivered[s] \in Nat /\ accepted[s] \in Nat /\ delivered[s] <= accepted[s]
    BY DEF IInv, TypeOK, ItemsAccountedFor, StreamAccountedFor
  <2>2. ~RecvFinished(s)' => delivered'[s] + 1 .. accepted'[s] = {}
    BY <2>1
  <2> QED BY <2>1, <2>2 DEF StreamAccountedFor
<1> QED BY <1>1, <1>2, <1>3 DEF ItemsAccountedFor

LEMMA ReceiveEofStep ==
  ASSUME IInv, ~nomem, ReceiveEof
  PROVE  IInv'
<1>1. /\ FirstEof \in Streams
      /\ ~RecvFinished(FirstEof)
  BY FirstEofFacts DEF ReceiveEof, EofPending
<1>2. /\ fifo' \in Seq(Item)
      /\ fifo_stream_index' \in Seq(Streams)
      /\ Len(fifo') = 0
      /\ Len(fifo_stream_index') = 0
      /\ \A s \in Streams : ~RecvFinished(s) => delivered[s] = accepted[s]
      /\ pc' \in [Threads -> {"idle", "waiting", "woken"}]
      /\ pc'[Consumer] = "idle"
      /\ \A p \in Producers : pc'[p] # "waiting"
  BY DropAllFacts DEF ReceiveEof
<1>3. \A s \in Streams : RecvFinished(s)' <=> (RecvFinished(s) \/ s = FirstEof)
  BY <1>1 DEF ReceiveEof, RecvFinished, IInv, TypeOK
<1>4. \A s \in Streams : eofs'[s] = IF s = FirstEof THEN 1 ELSE eofs[s]
  BY <1>1 DEF ReceiveEof, IInv, TypeOK, EofComplete
<1>5. TypeOK'
  <2>1. eofs' \in [Streams -> 0 .. 1]
    <3>1. eofs' = [eofs EXCEPT ![FirstEof] = eofs[FirstEof] + 1]
      BY DEF ReceiveEof
    <3>2. eofs \in [Streams -> 0 .. 1]
      BY DEF IInv, TypeOK
    <3>3. eofs[FirstEof] + 1 = 1
      BY <1>1, <1>4, <3>1, <3>2
    <3> QED BY <1>1, <3>1, <3>2, <3>3
  <2>2. finished' \in [Streams -> SUBSET Flags]
    BY DEF ReceiveEof, IInv, TypeOK, Flags
  <2> QED BY <1>2, <2>1, <2>2 DEF ReceiveEof, IInv, TypeOK
<1>6. FifosInStep' /\ ItemsAccountedFor'
  BY <1>2, <1>3, EmptyFifosInStep DEF ReceiveEof
<1>7. EofComplete'
  BY <1>1, <1>2, <1>3, <1>4 DEF ReceiveEof, IInv, EofComplete
<1>8. NoLostWakeup'
  BY <1>2 DEF NoLostWakeup
<1> QED BY <1>5, <1>6, <1>7, <1>8 DEF IInv

LEMMA ReceiveAllDoneStep ==
  ASSUME IInv, ~nomem, ReceiveAllDone
  PROVE  IInv'
<1> USE DEF ReceiveAllDone, historyVars
<1>1. /\ fifo' \in Seq(Item)
      /\ fifo_stream_index' \in Seq(Streams)
      /\ Len(fifo') = 0
      /\ Len(fifo_stream_index') = 0
      /\ \A s \in Streams : ~RecvFinished(s) => delivered[s] = accepted[s]
      /\ pc' \in [Threads -> {"idle", "waiting", "woken"}]
      /\ pc'[Consumer] = "idle"
      /\ \A p \in Producers : pc'[p] # "waiting"
  BY DropAllFacts
<1>2. TypeOK'
  BY <1>1 DEF IInv, TypeOK
<1>3. FifosInStep' /\ ItemsAccountedFor'
  BY <1>1, EmptyFifosInStep DEF RecvFinished
<1>4. EofComplete'
  BY DEF IInv, EofComplete, RecvFinished
<1>5. NoLostWakeup'
  BY <1>1 DEF NoLostWakeup
<1> QED BY <1>2, <1>3, <1>4, <1>5 DEF IInv

LEMMA ReceiveWaitStep ==
  ASSUME IInv, ~nomem, ReceiveWait
  PROVE  IInv'
<1> USE DEF historyVars
<1>1. CASE choked /\ pc' = [pc EXCEPT ![Consumer] = "waiting"]
           /\ UNCHANGED <<fifo, fifo_stream_index>>
  <2>1. TypeOK'
    BY <1>1 DEF ReceiveWait, IInv, TypeOK, Threads
  <2>2. FifosInStep' /\ ItemsAccountedFor' /\ EofComplete'
    BY <1>1 DEF ReceiveWait, IInv, FifosInStep, ItemsAccountedFor, StreamAccountedFor,
                ItemInPlace, EofComplete, RecvFinished
  <2>3. ~ReceiveEnabled'
    BY <1>1 DEF ReceiveWait, ReceiveEnabled
  <2>4. \A p \in Producers : pc'[p] = pc[p] /\ (SendEnabled(arg[p])' <=> SendEnabled(arg[p]))
    BY <1>1 DEF ReceiveWait, IInv, TypeOK, Threads, SendEnabled, Full, RecvFinished
  <2>5. NoLostWakeup'
    BY <2>3, <2>4 DEF IInv, NoLostWakeup
  <2> QED BY <2>1, <2>2, <2>5 DEF IInv
<1>2. CASE ~choked /\ EofPending = {} /\ ~AllFinished /\ DropAll("waiting")
  <2>1. /\ fifo' \in Seq(Item)
        /\ fifo_stream_index' \in Seq(Streams)
        /\ Len(fifo') = 0
        /\ Len(fifo_stream_index') = 0
        /\ \A s \in Streams : ~RecvFinished(s) => delivered[s] = accepted[s]
        /\ pc' \in [Threads -> {"idle", "waiting", "woken"}]
        /\ \A p \in Producers : pc'[p] # "waiting"
    BY <1>2, DropAllFacts
  <2>2. TypeOK'
    BY <2>1 DEF ReceiveWait, IInv, TypeOK
  <2>3. FifosInStep' /\ ItemsAccountedFor'
    BY <2>1, EmptyFifosInStep DEF ReceiveWait, RecvFinished
  <2>4. EofComplete'
    BY DEF ReceiveWait, IInv, EofComplete, RecvFinished
  <2>5. ~ReceiveEnabled'
    <3>1. Deliverable' = {}
      BY <2>1 DEF Deliverable
    <3>2. EofPending' = {} /\ ~AllFinished'
      BY <1>2 DEF ReceiveWait, EofPending, AllFinished, SendFinished, RecvFinished
    <3> QED BY <3>1, <3>2 DEF ReceiveEnabled
  <2>6. NoLostWakeup'
    BY <2>1, <2>5 DEF NoLostWakeup
  <2> QED BY <2>2, <2>3, <2>4, <2>6 DEF IInv
<1> QED BY <1>1, <1>2 DEF ReceiveWait

LEMMA SendFinishStep ==
  ASSUME IInv, ~nomem, NEW p \in Producers, NEW s \in Streams, tq_send_finish(p, s)
  PROVE  IInv'
<1> USE DEF tq_send_finish, historyVars
<1>1. /\ pc' \in [Threads -> {"idle", "waiting", "woken"}]
      /\ \A t \in Threads : pc'[t] # "waiting"
  BY BroadcastWakes DEF IInv, TypeOK
<1>2. \A t \in Streams : RecvFinished(t)' <=> RecvFinished(t)
  BY DEF IInv, TypeOK, RecvFinished, FINISHED_RECV, FINISHED_SEND
<1>3. TypeOK'
  <2>1. finished' \in [Streams -> SUBSET Flags]
    BY DEF IInv, TypeOK, Flags
  <2> QED BY <1>1, <2>1 DEF IInv, TypeOK
<1>4. FifosInStep'
  BY DEF IInv, FifosInStep
<1>5. ItemsAccountedFor'
  <2>1. ASSUME NEW t \in Streams PROVE StreamAccountedFor(t)'
    BY <1>2 DEF IInv, ItemsAccountedFor, StreamAccountedFor
  <2>2. ASSUME NEW k \in DOMAIN fifo PROVE ItemInPlace(k)'
    BY <1>2, ItemFields DEF IInv, ItemsAccountedFor, ItemInPlace
  <2> QED BY <2>1, <2>2 DEF ItemsAccountedFor
<1>6. EofComplete'
  BY <1>2 DEF IInv, EofComplete
<1>7. NoLostWakeup'
  BY <1>1 DEF NoLostWakeup, Threads
<1> QED BY <1>3, <1>4, <1>5, <1>6, <1>7 DEF IInv

LEMMA ReceiveFinishStep ==
  ASSUME IInv, ~nomem, NEW s \in Streams, tq_receive_finish(s)
  PROVE  IInv'
<1> USE DEF tq_receive_finish, historyVars
<1>1. /\ pc' \in [Threads -> {"idle", "waiting", "woken"}]
      /\ \A t \in Threads : pc'[t] # "waiting"
  BY BroadcastWakes DEF IInv, TypeOK
<1>2. \A t \in Streams : RecvFinished(t) => RecvFinished(t)'
  BY DEF IInv, TypeOK, RecvFinished
<1>3. TypeOK'
  <2>1. finished' \in [Streams -> SUBSET Flags]
    BY DEF IInv, TypeOK, Flags
  <2> QED BY <1>1, <2>1 DEF IInv, TypeOK
<1>4. FifosInStep'
  BY DEF IInv, FifosInStep
<1>5. ItemsAccountedFor'
  <2>1. ASSUME NEW t \in Streams PROVE StreamAccountedFor(t)'
    BY <1>2 DEF IInv, ItemsAccountedFor, StreamAccountedFor
  <2>2. ASSUME NEW k \in DOMAIN fifo PROVE ItemInPlace(k)'
    BY <1>2, ItemFields DEF IInv, ItemsAccountedFor, ItemInPlace
  <2> QED BY <2>1, <2>2 DEF ItemsAccountedFor
<1>6. EofComplete'
  BY <1>2 DEF IInv, EofComplete
<1>7. NoLostWakeup'
  BY <1>1 DEF NoLostWakeup, Threads
<1> QED BY <1>3, <1>4, <1>5, <1>6, <1>7 DEF IInv

(* What the invariant says of the data does not depend on the threads.     *)
LEMMA DataUnchanged ==
  ASSUME IInv, ~nomem, UNCHANGED <<finished, fifo, fifo_stream_index, historyVars>>
  PROVE  FifosInStep' /\ ItemsAccountedFor' /\ EofComplete'
BY DEF IInv, FifosInStep, ItemsAccountedFor, StreamAccountedFor, ItemInPlace,
       EofComplete, RecvFinished, historyVars

LEMMA ChokeStep ==
  ASSUME IInv, ~nomem, NEW c \in BOOLEAN, tq_choke(c)
  PROVE  IInv'
<1>1. /\ pc' \in [Threads -> {"idle", "waiting", "woken"}]
      /\ \A t \in Threads : pc'[t] # "waiting"
  BY BroadcastWakes DEF IInv, TypeOK, tq_choke
<1>2. nchokes' \in 0 .. MaxChokes
  BY DEF IInv, TypeOK, tq_choke
<1>3. TypeOK'
  BY <1>1, <1>2 DEF IInv, TypeOK, tq_choke, historyVars
<1>4. FifosInStep' /\ ItemsAccountedFor' /\ EofComplete'
  BY DataUnchanged DEF tq_choke
<1>5. NoLostWakeup'
  BY <1>1 DEF NoLostWakeup, Threads
<1> QED BY <1>3, <1>4, <1>5 DEF IInv

(* Steps that leave the queue alone and put nobody to sleep.               *)
LEMMA WakeStep ==
  ASSUME IInv, ~nomem,
         pc' \in [Threads -> {"idle", "waiting", "woken"}],
         \A t \in Threads : pc'[t] = "waiting" => pc[t] = "waiting",
         UNCHANGED <<queueVars, arg, historyVars, nchokes>>
  PROVE  IInv'
<1>1. TypeOK'
  BY DEF IInv, TypeOK, queueVars, historyVars
<1>2. FifosInStep' /\ ItemsAccountedFor' /\ EofComplete'
  BY DataUnchanged DEF queueVars
<1>3. ReceiveEnabled' <=> ReceiveEnabled
  BY DEF queueVars, ReceiveEnabled, Deliverable, EofPending, AllFinished,
         RecvFinished, SendFinished
<1>4. \A p \in Producers : SendEnabled(arg[p])' <=> SendEnabled(arg[p])
  BY DEF queueVars, SendEnabled, Full, RecvFinished
<1>5. NoLostWakeup'
  BY <1>3, <1>4 DEF IInv, NoLostWakeup, Threads
<1> QED BY <1>1, <1>2, <1>5 DEF IInv

LEMMA SpuriousWakeupStep ==
  ASSUME IInv, ~nomem, NEW t \in Threads, SpuriousWakeup(t)
  PROVE  IInv'
<1>1. /\ pc' \in [Threads -> {"idle", "waiting", "woken"}]
      /\ \A u \in Threads : pc'[u] = "waiting" => pc[u] = "waiting"
  BY DEF SpuriousWakeup, IInv, TypeOK
<1> QED BY <1>1, WakeStep DEF SpuriousWakeup

-----------------------------------------------------------------------------
(* The same after an allocation has failed, when only the types, the size  *)
(* of the FIFOs and the flags of the streams are left to be kept.          *)

LEMMA DrainTypes ==
  ASSUME TypeOK, FifosInStep, NEW n \in 0 .. Len(fifo), Drain(n)
  PROVE  /\ fifo' \in Seq(Item)
         /\ fifo_stream_index' \in Seq(Streams)
         /\ Len(fifo') = Len(fifo) - n
         /\ Len(fifo_stream_index') = Len(fifo_stream_index) - n
<1>1. /\ n + 1 \in Int
      /\ Len(fifo) \in Int /\ Len(fifo_stream_index) \in Int
      /\ Len(fifo) <= Len(fifo_stream_index)
      /\ \A i \in n + 1 .. Len(fifo) : fifo[i] \in Item
      /\ \A i \in n + 1 .. Len(fifo_stream_index) : fifo_stream_index[i] \in Streams
  BY DEF TypeOK, FifosInStep
<1>2. fifo' \in Seq(Item) /\ Len(fifo') = Len(fifo) - n
  BY <1>1, SubSeqProperties DEF Drain
<1>3. /\ fifo_stream_index' \in Seq(Streams)
      /\ Len(fifo_stream_index') = Len(fifo_stream_index) - n
  BY <1>1, SubSeqProperties DEF Drain
<1> QED BY <1>2, <1>3

(* What is left of the invariant.                                          *)
LEMMA AfterFailure ==
  ASSUME TypeOK', nomem',
         Len(fifo)' <= Len(fifo_stream_index)',
         Len(fifo_stream_index)' <= QueueSize,
         \A s \in Streams : eofs'[s] = 1 => RecvFinished(s)'
  PROVE  IInv'
BY DEF IInv, FifosInStep, ItemsAccountedFor, EofComplete, NoLostWakeup

LEMMA BroadcastTypes ==
  ASSUME TypeOK, NEW t \in Threads, NEW state \in {"idle", "waiting", "woken"}
  PROVE  /\ Broadcast(pc) \in [Threads -> {"idle", "waiting", "woken"}]
         /\ [pc EXCEPT ![t] = state] \in [Threads -> {"idle", "waiting", "woken"}]
         /\ Broadcast([pc EXCEPT ![t] = state]) \in [Threads -> {"idle", "waiting", "woken"}]
         /\ [Broadcast(pc) EXCEPT ![t] = state] \in [Threads -> {"idle", "waiting", "woken"}]
BY BroadcastWakes DEF TypeOK

LEMMA SendNoMemStep ==
  ASSUME IInv, NEW p \in Producers, NEW s \in Streams, SendNoMem(p, s)
  PROVE  IInv'
<1>1. /\ Len(fifo_stream_index') = Len(fifo_stream_index) + 1
      /\ Len(fifo) <= Len(fifo_stream_index)
      /\ Len(fifo_stream_index) < QueueSize
      /\ Len(fifo) \in Nat /\ Len(fifo_stream_index) \in Nat
      /\ fifo' = fifo
  BY DEF SendNoMem, IInv, TypeOK, FifosInStep, Full
<1>2. /\ Len(fifo') <= Len(fifo_stream_index')
      /\ Len(fifo_stream_index') <= QueueSize
  BY <1>1
<1>3. TypeOK'
  BY DEF SendNoMem, IInv, TypeOK, Threads
<1>4. nomem' /\ \A t \in Streams : eofs'[t] = 1 => RecvFinished(t)'
  BY DEF SendNoMem, IInv, EofComplete, RecvFinished
<1> QED BY <1>2, <1>3, <1>4, AfterFailure

LEMMA SendTryAfterFailure ==
  ASSUME IInv, nomem, NEW p \in Producers, NEW s \in Streams, SendTry(p, s)
  PROVE  IInv'
<1>1. CASE SendEof(p, s)
  <2>1. TypeOK'
    BY <1>1 DEF SendEof, historyVars, IInv, TypeOK, Threads, Flags
  <2>2. /\ UNCHANGED <<fifo, fifo_stream_index, nomem>>
        /\ \A t \in Streams : eofs'[t] = 1 => RecvFinished(t)'
    BY <1>1 DEF SendEof, historyVars, IInv, TypeOK, EofComplete, RecvFinished
  <2> QED BY <2>1, <2>2, AfterFailure DEF IInv, FifosInStep
<1>2. CASE SendWrite(p, s)
  <2>1. /\ Len(fifo_stream_index') = Len(fifo_stream_index) + 1
        /\ Len(fifo') = Len(fifo) + 1
        /\ Len(fifo) <= Len(fifo_stream_index)
        /\ Len(fifo_stream_index) < QueueSize
        /\ Len(fifo) \in Nat /\ Len(fifo_stream_index) \in Nat
    BY <1>2 DEF SendWrite, IInv, TypeOK, FifosInStep, Full
  <2>2. /\ Len(fifo') <= Len(fifo_stream_index')
        /\ Len(fifo_stream_index') <= QueueSize
    BY <2>1
  <2>3. [stream |-> s, num |-> accepted[s] + 1] \in Item
    BY DEF Item, IInv, TypeOK
  <2>4. /\ fifo' \in Seq(Item)
        /\ fifo_stream_index' \in Seq(Streams)
        /\ accepted' \in [Streams -> Nat]
    BY <1>2, <2>3 DEF SendWrite, IInv, TypeOK
  <2>5. pc' \in [Threads -> {"idle", "waiting", "woken"}]
    BY <1>2, BroadcastTypes DEF SendWrite, IInv, Threads
  <2>6. TypeOK'
    BY <1>2, <2>4, <2>5 DEF SendWrite, IInv, TypeOK
  <2>7. nomem' /\ \A t \in Streams : eofs'[t] = 1 => RecvFinished(t)'
    BY <1>2 DEF SendWrite, IInv, EofComplete, RecvFinished
  <2> QED BY <2>2, <2>6, <2>7, AfterFailure
<1>3. CASE SendWait(p, s)
  <2>1. TypeOK'
    BY <1>3 DEF SendWait, queueVars, historyVars, IInv, TypeOK, Threads
  <2>2. /\ UNCHANGED <<fifo, fifo_stream_index, nomem>>
        /\ \A t \in Streams : eofs'[t] = 1 => RecvFinished(t)'
    BY <1>3 DEF SendWait, queueVars, historyVars, IInv, EofComplete, RecvFinished
  <2> QED BY <2>1, <2>2, AfterFailure DEF IInv, FifosInStep
<1> QED BY <1>1, <1>2, <1>3, SendNoMemStep DEF SendTry

LEMMA DropAllAfterFailure ==
  ASSUME IInv, nomem, NEW state \in {"idle", "waiting"}, DropAll(state)
  PROVE  /\ fifo' \in Seq(Item)
         /\ fifo_stream_index' \in Seq(Streams)
         /\ Len(fifo') <= Len(fifo_stream_index')
         /\ Len(fifo_stream_index') <= QueueSize
         /\ pc' \in [Threads -> {"idle", "waiting", "woken"}]
<1>1. Len(fifo) \in 0 .. Len(fifo) /\ Drain(Len(fifo))
  BY DEF DropAll, IInv, TypeOK
<1>2. /\ fifo' \in Seq(Item)
      /\ fifo_stream_index' \in Seq(Streams)
      /\ Len(fifo') = Len(fifo) - Len(fifo)
      /\ Len(fifo_stream_index') = Len(fifo_stream_index) - Len(fifo)
  BY <1>1, DrainTypes DEF IInv
<1>3. /\ Len(fifo) <= Len(fifo_stream_index)
      /\ Len(fifo_stream_index) <= QueueSize
      /\ Len(fifo) \in Nat /\ Len(fifo_stream_index) \in Nat
  BY DEF IInv, TypeOK, FifosInStep
<1>4. pc' \in [Threads -> {"idle", "waiting", "woken"}]
  BY BroadcastTypes DEF DropAll, IInv, Threads
<1> QED BY <1>2, <1>3, <1>4

LEMMA ReceiveAfterFailure ==
  ASSUME IInv, nomem, tq_receive
  PROVE  IInv'
<1>1. CASE ReceiveItem
  <2> DEFINE k == FirstDeliverable
  <2>1. k \in 1 .. Len(fifo) /\ k \in 0 .. Len(fifo) /\ Drain(k)
    BY <1>1, FirstDeliverableFacts, ItemFields DEF ReceiveItem, IInv
  <2>2. /\ fifo' \in Seq(Item)
        /\ fifo_stream_index' \in Seq(Streams)
        /\ Len(fifo') = Len(fifo) - k
        /\ Len(fifo_stream_index') = Len(fifo_stream_index) - k
    BY <2>1, DrainTypes DEF IInv
  <2>3. /\ Len(fifo) <= Len(fifo_stream_index)
        /\ Len(fifo_stream_index) <= QueueSize
        /\ Len(fifo) \in Nat /\ Len(fifo_stream_index) \in Nat
    BY DEF IInv, TypeOK, FifosInStep
  <2>4. fifo[k].num \in Nat /\ fifo_stream_index[k] \in Streams
    BY <2>1, <2>3, ItemFields DEF IInv, TypeOK
  <2>5. delivered' \in [Streams -> Nat]
    BY <1>1, <2>4 DEF ReceiveItem, IInv, TypeOK
  <2>6. pc' \in [Threads -> {"idle", "waiting", "woken"}]
    BY <1>1, BroadcastTypes DEF ReceiveItem, IInv, Threads
  <2>7. TypeOK'
    BY <1>1, <2>2, <2>5, <2>6 DEF ReceiveItem, IInv, TypeOK
  <2>8. nomem' /\ \A t \in Streams : eofs'[t] = 1 => RecvFinished(t)'
    BY <1>1 DEF ReceiveItem, IInv, EofComplete, RecvFinished
  <2> HIDE DEF k
  <2>9. Len(fifo') <= Len(fifo_stream_index') /\ Len(fifo_stream_index') <= QueueSize
    BY <2>1, <2>2, <2>3
  <2> QED BY <2>7, <2>8, <2>9, AfterFailure
<1>2. CASE ReceiveEof
  <2>1. /\ fifo' \in Seq(Item)
        /\ fifo_stream_index' \in Seq(Streams)
        /\ Len(fifo') <= Len(fifo_stream_index')
        /\ Len(fifo_stream_index') <= QueueSize
        /\ pc' \in [Threads -> {"idle", "waiting", "woken"}]
    BY <1>2, DropAllAfterFailure DEF ReceiveEof
  <2>2. FirstEof \in Streams /\ ~RecvFinished(FirstEof)
    BY <1>2, FirstEofFacts DEF ReceiveEof, EofPending
  <2>3. eofs[FirstEof] = 0
    BY <2>2 DEF IInv, TypeOK, EofComplete
  <2>4. /\ finished' \in [Streams -> SUBSET Flags]
        /\ eofs' \in [Streams -> 0 .. 1]
        /\ \A t \in Streams : eofs'[t] = 1 => RecvFinished(t)'
    BY <1>2, <2>2, <2>3 DEF ReceiveEof, IInv, TypeOK, EofComplete, RecvFinished, Flags
  <2>5. TypeOK'
    BY <1>2, <2>1, <2>4 DEF ReceiveEof, IInv, TypeOK
  <2>6. nomem'
    BY <1>2 DEF ReceiveEof
  <2> QED BY <2>1, <2>4, <2>5, <2>6, AfterFailure
<1>3. CASE ReceiveAllDone
  <2>1. /\ fifo' \in Seq(Item)
        /\ fifo_stream_index' \in Seq(Streams)
        /\ Len(fifo') <= Len(fifo_stream_index')
        /\ Len(fifo_stream_index') <= QueueSize
        /\ pc' \in [Threads -> {"idle", "waiting", "woken"}]
    BY <1>3, DropAllAfterFailure DEF ReceiveAllDone
  <2>2. TypeOK'
    BY <1>3, <2>1 DEF ReceiveAllDone, historyVars, IInv, TypeOK
  <2>3. nomem' /\ \A t \in Streams : eofs'[t] = 1 => RecvFinished(t)'
    BY <1>3 DEF ReceiveAllDone, historyVars, IInv, EofComplete, RecvFinished
  <2> QED BY <2>1, <2>2, <2>3, AfterFailure
<1>4. CASE ReceiveWait
  <2>1. /\ fifo' \in Seq(Item)
        /\ fifo_stream_index' \in Seq(Streams)
        /\ Len(fifo') <= Len(fifo_stream_index')
        /\ Len(fifo_stream_index') <= QueueSize
        /\ pc' \in [Threads -> {"idle", "waiting", "woken"}]
    <3>1. CASE choked
      BY <1>4, <3>1, BroadcastTypes DEF ReceiveWait, IInv, TypeOK, FifosInStep, Threads
    <3>2. CASE ~choked
      BY <1>4, <3>2, DropAllAfterFailure DEF ReceiveWait
    <3> QED BY <3>1, <3>2
  <2>2. TypeOK'
    BY <1>4, <2>1 DEF ReceiveWait, historyVars, IInv, TypeOK
  <2>3. nomem' /\ \A t \in Streams : eofs'[t] = 1 => RecvFinished(t)'
    BY <1>4 DEF ReceiveWait, historyVars, IInv, EofComplete, RecvFinished
  <2> QED BY <2>1, <2>2, <2>3, AfterFailure
<1> QED BY <1>1, <1>2, <1>3, <1>4 DEF tq_receive

(* Steps that only touch flags of the streams and the state of threads.    *)
LEMMA FlagsAfterFailure ==
  ASSUME IInv, nomem,
         UNCHANGED <<fifo, fifo_stream_index, arg, historyVars>>,
         choked' \in BOOLEAN, nchokes' \in 0 .. MaxChokes,
         finished' \in [Streams -> SUBSET Flags],
         \A s \in Streams : RecvFinished(s) => RecvFinished(s)',
         pc' \in [Threads -> {"idle", "waiting", "woken"}]
  PROVE  IInv'
<1>1. TypeOK'
  BY DEF IInv, TypeOK, historyVars
<1>2. nomem' /\ \A t \in Streams : eofs'[t] = 1 => RecvFinished(t)'
  BY DEF IInv, EofComplete, historyVars
<1> QED BY <1>1, <1>2, AfterFailure DEF IInv, FifosInStep

-----------------------------------------------------------------------------
LEMMA SendTryStep ==
  ASSUME IInv, NEW p \in Producers, NEW s \in Streams, SendTry(p, s)
  PROVE  IInv'
<1>1. CASE nomem
  BY <1>1, SendTryAfterFailure
<1>2. CASE ~nomem
  BY <1>2, SendEofStep, SendWriteStep, SendWaitStep, SendNoMemStep DEF SendTry
<1> QED BY <1>1, <1>2

LEMMA ReceiveStep ==
  ASSUME IInv, tq_receive
  PROVE  IInv'
<1>1. CASE nomem
  BY <1>1, ReceiveAfterFailure
<1>2. CASE ~nomem
  BY <1>2, ReceiveItemStep, ReceiveEofStep, ReceiveAllDoneStep, ReceiveWaitStep DEF tq_receive
<1> QED BY <1>1, <1>2

(* The other steps, once an allocation has failed.                         *)
LEMMA OthersAfterFailure ==
  ASSUME IInv, nomem
  PROVE  /\ \A p \in Producers, s \in Streams : tq_send_finish(p, s) => IInv'
         /\ \A s \in Streams : tq_receive_finish(s) => IInv'
         /\ \A c \in BOOLEAN : tq_choke(c) => IInv'
         /\ \A t \in Threads : SpuriousWakeup(t) => IInv'
         /\ UNCHANGED vars => IInv'
<1>1. ASSUME NEW p \in Producers, NEW s \in Streams, tq_send_finish(p, s) PROVE IInv'
  BY <1>1, FlagsAfterFailure, BroadcastTypes
     DEF tq_send_finish, IInv, TypeOK, Flags, RecvFinished, Threads
<1>2. ASSUME NEW s \in Streams, tq_receive_finish(s) PROVE IInv'
  <2>1. /\ finished' \in [Streams -> SUBSET Flags]
        /\ \A t \in Streams : RecvFinished(t) => RecvFinished(t)'
    BY <1>2 DEF tq_receive_finish, IInv, TypeOK, Flags, RecvFinished
  <2>2. pc' \in [Threads -> {"idle", "waiting", "woken"}]
    BY <1>2, BroadcastWakes DEF tq_receive_finish, IInv, TypeOK
  <2> QED BY <1>2, <2>1, <2>2, FlagsAfterFailure DEF tq_receive_finish, IInv, TypeOK
<1>3. ASSUME NEW c \in BOOLEAN, tq_choke(c) PROVE IInv'
  <2>1. nchokes' \in 0 .. MaxChokes
    BY <1>3 DEF tq_choke, IInv, TypeOK
  <2> QED BY <1>3, <2>1, FlagsAfterFailure, BroadcastTypes
          DEF tq_choke, IInv, TypeOK, RecvFinished, Threads
<1>4. ASSUME NEW t \in Threads, SpuriousWakeup(t) PROVE IInv'
  BY <1>4, FlagsAfterFailure, BroadcastTypes
     DEF SpuriousWakeup, queueVars, IInv, TypeOK, RecvFinished
<1>5. CASE UNCHANGED vars
  BY <1>5, FlagsAfterFailure DEF vars, historyVars, IInv, TypeOK, RecvFinished
<1> QED BY <1>1, <1>2, <1>3, <1>4, <1>5

LEMMA NextIInv ==
  ASSUME IInv, [Next]_vars
  PROVE  IInv'
<1>1. ASSUME NEW p \in Producers, NEW s \in Streams, tq_send(p, s) PROVE IInv'
  BY <1>1, SendTryStep DEF tq_send
<1>2. ASSUME NEW p \in Producers, tq_send_resume(p) PROVE IInv'
  BY <1>2, SendTryStep DEF tq_send_resume, IInv, TypeOK
<1>3. CASE tq_receive
  BY <1>3, ReceiveStep
<1>4. CASE nomem
  BY <1>1, <1>2, <1>3, <1>4, OthersAfterFailure DEF Next
<1>5. CASE ~nomem
  <2>1. ASSUME NEW p \in Producers, NEW s \in Streams, tq_send_finish(p, s) PROVE IInv'
    BY <1>5, <2>1, SendFinishStep
  <2>2. ASSUME NEW s \in Streams, tq_receive_finish(s) PROVE IInv'
    BY <1>5, <2>2, ReceiveFinishStep
  <2>3. ASSUME NEW c \in BOOLEAN, tq_choke(c) PROVE IInv'
    BY <1>5, <2>3, ChokeStep
  <2>4. ASSUME NEW t \in Threads, SpuriousWakeup(t) PROVE IInv'
    BY <1>5, <2>4, SpuriousWakeupStep
  <2>5. CASE UNCHANGED vars
    BY <1>5, <2>5, WakeStep DEF vars, IInv, TypeOK, queueVars, historyVars
  <2> QED BY <1>1, <1>2, <1>3, <2>1, <2>2, <2>3, <2>4, <2>5 DEF Next
<1> QED BY <1>4, <1>5

LEMMA SpecIInv == Spec => []IInv
<1>1. IInv /\ [Next]_vars => IInv'
  BY NextIInv
<1> QED BY InitIInv, <1>1, PTL DEF Spec

(* Every variable keeps its type: in particular the EOF of a stream is     *)
(* reported at most once.                                                  *)
THEOREM TypeCorrect == Spec => []TypeOK
<1>1. IInv => TypeOK
  BY DEF IInv
<1> QED BY SpecIInv, <1>1, PTL

(* Nobody sleeps on tq->cond while the condition waited for is true.       *)
THEOREM NoWakeupIsLost == Spec => []NoLostWakeup
<1>1. IInv => NoLostWakeup
  BY DEF IInv
<1> QED BY SpecIInv, <1>1, PTL

(* The item FIFO and the stream index FIFO stay in step.                   *)
THEOREM FifosStayInStep == Spec => []FifosInStep
<1>1. IInv => FifosInStep
  BY DEF IInv
<1> QED BY SpecIInv, <1>1, PTL

(* No item is lost, duplicated or overtaken.                               *)
THEOREM NoItemIsLost == Spec => []ItemsAccountedFor
<1>1. IInv => ItemsAccountedFor
  BY DEF IInv
<1> QED BY SpecIInv, <1>1, PTL

(* The EOF of a stream comes after its last item.                          *)
THEOREM EofComesLast == Spec => []EofComplete
<1>1. IInv => EofComplete
  BY DEF IInv
<1> QED BY SpecIInv, <1>1, PTL

-----------------------------------------------------------------------------
(* The queue implements a channel per stream.                              *)

(* The state of the channels.                                              *)
sendClosed == [s \in Streams |-> SendFinished(s)]
recvClosed == [s \in Streams |-> RecvFinished(s)]

LEMMA FlagsToClosed ==
  ASSUME TypeOK, NEW t \in Streams, NEW f \in Flags,
         finished' = [finished EXCEPT ![t] = @ \cup {f}]
  PROVE  /\ f = FINISHED_SEND => /\ sendClosed' = [sendClosed EXCEPT ![t] = TRUE]
                                 /\ recvClosed' = recvClosed
         /\ f = FINISHED_RECV => /\ recvClosed' = [recvClosed EXCEPT ![t] = TRUE]
                                 /\ sendClosed' = sendClosed
<1>1. \A s \in Streams : finished'[s] = IF s = t THEN finished[s] \cup {f} ELSE finished[s]
  BY DEF TypeOK
<1>2. CASE f = FINISHED_SEND
  <2>1. \A s \in Streams : SendFinished(s)' <=> SendFinished(s) \/ s = t
    BY <1>1, <1>2 DEF SendFinished
  <2>2. \A s \in Streams : RecvFinished(s)' = RecvFinished(s)
    BY <1>1, <1>2 DEF RecvFinished, FINISHED_SEND, FINISHED_RECV
  <2>3. /\ sendClosed' = [s \in Streams |-> SendFinished(s)']
        /\ recvClosed' = [s \in Streams |-> RecvFinished(s)']
    BY DEF sendClosed, recvClosed
  <2>4. ASSUME NEW s \in Streams
        PROVE  SendFinished(s)' = IF s = t THEN TRUE ELSE SendFinished(s)
    <3>1. CASE s = t
      <4>1. SendFinished(s)' = TRUE
        BY <1>1, <1>2, <3>1 DEF SendFinished
      <4> QED BY <3>1, <4>1
    <3>2. CASE s # t
      <4>1. finished'[s] = finished[s]
        BY <1>1, <3>2
      <4>2. SendFinished(s)' = SendFinished(s)
        BY <4>1 DEF SendFinished
      <4> QED BY <3>2, <4>2
    <3> QED BY <3>1, <3>2
  <2>5. /\ sendClosed' = [sendClosed EXCEPT ![t] = TRUE]
        /\ recvClosed' = recvClosed
    BY <2>2, <2>3, <2>4, Zenon DEF sendClosed, recvClosed
  <2> QED BY <1>2, <2>5 DEF FINISHED_SEND, FINISHED_RECV
<1>3. CASE f = FINISHED_RECV
  <2>1. \A s \in Streams : RecvFinished(s)' <=> RecvFinished(s) \/ s = t
    BY <1>1, <1>3 DEF RecvFinished
  <2>2. \A s \in Streams : SendFinished(s)' = SendFinished(s)
    BY <1>1, <1>3 DEF SendFinished, FINISHED_SEND, FINISHED_RECV
  <2>3. /\ sendClosed' = [s \in Streams |-> SendFinished(s)']
        /\ recvClosed' = [s \in Streams |-> RecvFinished(s)']
    BY DEF sendClosed, recvClosed
  <2>4. ASSUME NEW s \in Streams
        PROVE  RecvFinished(s)' = IF s = t THEN TRUE ELSE RecvFinished(s)
    <3>1. CASE s = t
      <4>1. RecvFinished(s)' = TRUE
        BY <1>1, <1>3, <3>1 DEF RecvFinished
      <4> QED BY <3>1, <4>1
    <3>2. CASE s # t
      <4>1. finished'[s] = finished[s]
        BY <1>1, <3>2
      <4>2. RecvFinished(s)' = RecvFinished(s)
        BY <4>1 DEF RecvFinished
      <4> QED BY <3>2, <4>2
    <3> QED BY <3>1, <3>2
  <2>5. /\ recvClosed' = [recvClosed EXCEPT ![t] = TRUE]
        /\ sendClosed' = sendClosed
    BY <2>2, <2>3, <2>4, Zenon DEF sendClosed, recvClosed
  <2> QED BY <1>3, <2>5 DEF FINISHED_SEND, FINISHED_RECV
<1> QED BY <1>2, <1>3 DEF Flags

(* What tq_send() took and tq_receive() did not return is in the FIFO.     *)
LEMMA Backlog ==
  ASSUME IInv, ~nomem, NEW s \in Streams, ~RecvFinished(s)
  PROVE  accepted[s] <= delivered[s] + Len(fifo)
<1>1. /\ accepted[s] \in Nat
      /\ delivered[s] \in Nat
      /\ delivered[s] <= accepted[s]
      /\ Len(fifo) \in Nat
  BY DEF IInv, TypeOK, ItemsAccountedFor, StreamAccountedFor
<1>2. CASE delivered[s] < accepted[s]
  <2>1. PICK k \in DOMAIN fifo : fifo[k].stream = s /\ fifo[k].num = delivered[s] + 1
    BY <1>1, <1>2 DEF IInv, ItemsAccountedFor, StreamAccountedFor
  <2>2. accepted[s] + k <= delivered[s] + 1 + Len(fifo)
    BY <2>1 DEF IInv, ItemsAccountedFor, ItemInPlace
  <2>3. k \in 1 .. Len(fifo)
    BY <2>1, ItemFields DEF IInv
  <2> QED BY <1>1, <2>2, <2>3
<1> QED BY <1>1, <1>2

(* The item receive_locked() finds is the next one of its stream.          *)
LEMMA NextItem ==
  ASSUME IInv, ~nomem, Deliverable # {}
  PROVE  LET k == FirstDeliverable
             s == fifo_stream_index[k]
         IN  /\ s \in Streams
             /\ ~RecvFinished(s)
             /\ fifo[k].num = delivered[s] + 1
             /\ delivered[s] < accepted[s]
<1> DEFINE k == FirstDeliverable
           s == fifo_stream_index[k]
<1>1. /\ k \in 1 .. Len(fifo)
      /\ Len(fifo) \in Nat
      /\ s \in Streams
      /\ ~RecvFinished(s)
      /\ \A j \in 1 .. k - 1 : RecvFinished(fifo_stream_index[j])
  BY FirstDeliverableFacts, ItemFields DEF IInv, TypeOK, FifosInStep
<1>2. \A j \in 1 .. Len(fifo) : /\ fifo[j].stream = fifo_stream_index[j]
                                /\ fifo[j].num \in Nat
                                /\ ItemInPlace(j)
  BY ItemFields DEF IInv, FifosInStep, ItemsAccountedFor
<1> HIDE DEF k, s
<1>3. fifo[k].stream = s
  BY <1>1, <1>2 DEF s
<1>4. /\ delivered[s] \in Nat
      /\ accepted[s] \in Nat
      /\ delivered[s] < fifo[k].num
      /\ fifo[k].num <= accepted[s]
  BY <1>1, <1>2, <1>3 DEF IInv, TypeOK, ItemInPlace
<1>5. PICK i \in DOMAIN fifo : fifo[i].stream = s /\ fifo[i].num = delivered[s] + 1
  <2>1. delivered[s] + 1 \in delivered[s] + 1 .. accepted[s]
    BY <1>2, <1>1, <1>4
  <2>2. StreamAccountedFor(s)
    BY <1>1 DEF IInv, ItemsAccountedFor
  <2> QED BY <1>1, <2>1, <2>2 DEF StreamAccountedFor
<1>6. i \in 1 .. Len(fifo)
  BY <1>5, ItemFields DEF IInv
<1>7. ~(i < k)
  BY <1>1, <1>2, <1>5, <1>6
<1>8. ~(k < i)
  <2>1. SUFFICES ASSUME k < i PROVE FALSE
    OBVIOUS
  <2>2. k \in 1 .. i - 1
    BY <1>1, <1>6, <2>1
  <2>3. fifo[k].num < fifo[i].num
    BY <1>2, <1>3, <1>5, <1>6, <2>2 DEF ItemInPlace
  <2> QED BY <1>1, <1>2, <1>4, <1>5, <2>3
<1>9. i = k
  BY <1>1, <1>6, <1>7, <1>8
<1> QED BY <1>1, <1>2, <1>4, <1>5, <1>9 DEF k, s

LEMMA InitChannels == Init => Channels!Init
<1> SUFFICES ASSUME Init PROVE Channels!Init
  OBVIOUS
<1>1. \A s \in Streams : SendFinished(s) = FALSE /\ RecvFinished(s) = FALSE
  BY DEF Init, SendFinished, RecvFinished
<1>2. /\ accepted = [s \in Streams |-> 0]
      /\ delivered = [s \in Streams |-> 0]
      /\ eofs = [s \in Streams |-> 0]
  BY DEF Init
<1>3. /\ [s \in Streams |-> SendFinished(s)] = [s \in Streams |-> FALSE]
      /\ [s \in Streams |-> RecvFinished(s)] = [s \in Streams |-> FALSE]
  BY <1>1
<1> QED BY <1>2, <1>3 DEF Channels!Init

LEMMA SendTryChannels ==
  ASSUME IInv, ~nomem, NEW p \in Producers, NEW s \in Streams, SendTry(p, s)
  PROVE  [Channels!Next \/ nomem']_(Channels!vars)
<1>1. CASE SendEof(p, s)
  <2>1. finished' = [finished EXCEPT ![s] = @ \cup {FINISHED_SEND}]
    BY <1>1 DEF SendEof
  <2>2. sendClosed' = [sendClosed EXCEPT ![s] = TRUE] /\ recvClosed' = recvClosed
    BY <2>1, FlagsToClosed DEF IInv, Flags
  <2>3. Channels!CloseSend(s)
    BY <1>1, <2>2 DEF SendEof, historyVars, Channels!CloseSend, sendClosed, recvClosed
  <2> QED BY <2>3 DEF Channels!Next
<1>2. CASE SendWrite(p, s)
  <2>1. accepted[s] < delivered[s] + QueueSize
    <3>1. Len(fifo) < QueueSize /\ Len(fifo) \in Nat
      BY <1>2 DEF SendWrite, Full, IInv, TypeOK, FifosInStep
    <3>2. accepted[s] \in Nat /\ delivered[s] \in Nat /\ QueueSize \in Nat
      BY ThreadQueueAssumption DEF IInv, TypeOK
    <3>3. ~RecvFinished(s)
      BY <1>2 DEF SendWrite
    <3>4. accepted[s] <= delivered[s] + Len(fifo)
      BY <3>3, Backlog
    <3> QED BY <3>1, <3>2, <3>4
  <2>2. sendClosed' = sendClosed /\ recvClosed' = recvClosed
    BY <1>2 DEF SendWrite, sendClosed, recvClosed, SendFinished, RecvFinished
  <2>3. recvClosed[s] = RecvFinished(s)
    BY DEF recvClosed
  <2>4. Channels!Accept(s)
    BY <1>2, <2>1, <2>2, <2>3 DEF SendWrite, Channels!Accept, sendClosed, recvClosed
  <2> QED BY <2>4 DEF Channels!Next
<1>3. CASE SendWait(p, s)
  BY <1>3 DEF SendWait, queueVars, historyVars, Channels!vars, SendFinished, RecvFinished
<1>4. CASE SendNoMem(p, s)
  BY <1>4 DEF SendNoMem
<1> QED BY <1>1, <1>2, <1>3, <1>4 DEF SendTry

LEMMA ReceiveChannels ==
  ASSUME IInv, ~nomem, tq_receive
  PROVE  [Channels!Next]_(Channels!vars)
<1>1. CASE ReceiveItem
  <2> DEFINE k == FirstDeliverable
             s == fifo_stream_index[k]
  <2>1. /\ s \in Streams
        /\ ~RecvFinished(s)
        /\ fifo[k].num = delivered[s] + 1
        /\ delivered[s] < accepted[s]
    BY <1>1, NextItem DEF ReceiveItem
  <2>2. delivered' = [delivered EXCEPT ![s] = delivered[s] + 1]
    BY <1>1, <2>1 DEF ReceiveItem
  <2>3. sendClosed' = sendClosed /\ recvClosed' = recvClosed
    BY <1>1 DEF ReceiveItem, sendClosed, recvClosed, SendFinished, RecvFinished
  <2>4. recvClosed[s] = RecvFinished(s)
    BY <2>1 DEF recvClosed
  <2>5. accepted' = accepted /\ eofs' = eofs
    BY <1>1 DEF ReceiveItem
  <2> HIDE DEF k, s
  <2>6. Channels!Deliver(s)
    BY <2>1, <2>2, <2>3, <2>4, <2>5 DEF Channels!Deliver, sendClosed, recvClosed
  <2> QED BY <2>1, <2>6 DEF Channels!Next
<1>2. CASE ReceiveEof
  <2>1. FirstEof \in Streams /\ SendFinished(FirstEof) /\ ~RecvFinished(FirstEof)
    BY <1>2, FirstEofFacts DEF ReceiveEof, EofPending
  <2>2. delivered[FirstEof] = accepted[FirstEof]
    BY <1>2, <2>1, DropAllFacts DEF ReceiveEof
  <2>3. sendClosed' = sendClosed /\ recvClosed' = [recvClosed EXCEPT ![FirstEof] = TRUE]
    BY <1>2, <2>1, FlagsToClosed DEF ReceiveEof, IInv, Flags
  <2>4. sendClosed[FirstEof] = SendFinished(FirstEof)
        /\ recvClosed[FirstEof] = RecvFinished(FirstEof)
    BY <2>1 DEF sendClosed, recvClosed
  <2>5. Channels!DeliverEof(FirstEof)
    BY <1>2, <2>1, <2>2, <2>3, <2>4 DEF ReceiveEof, Channels!DeliverEof, sendClosed, recvClosed
  <2> QED BY <2>1, <2>5 DEF Channels!Next
<1>3. CASE ReceiveAllDone
  BY <1>3 DEF ReceiveAllDone, historyVars, Channels!vars, SendFinished, RecvFinished
<1>4. CASE ReceiveWait
  BY <1>4 DEF ReceiveWait, historyVars, Channels!vars, SendFinished, RecvFinished
<1> QED BY <1>1, <1>2, <1>3, <1>4 DEF tq_receive

(* That an allocation has failed is not forgotten.                         *)
LEMMA FailureStays ==
  ASSUME nomem, [Next]_vars
  PROVE  nomem'
<1>1. ASSUME NEW p \in Producers, NEW s \in Streams, SendTry(p, s) PROVE nomem'
  BY <1>1 DEF SendTry, SendEof, SendWrite, SendNoMem, SendWait, historyVars
<1>2. CASE tq_receive
  BY <1>2 DEF tq_receive, ReceiveItem, ReceiveEof, ReceiveAllDone, ReceiveWait, historyVars
<1>3. ASSUME NEW p \in Producers, tq_send_resume(p) PROVE nomem'
  BY <1>3 DEF tq_send_resume, SendTry, SendEof, SendWrite, SendNoMem, SendWait, historyVars
<1>4. ASSUME NEW p \in Producers, NEW s \in Streams, tq_send(p, s) \/ tq_send_finish(p, s)
      PROVE  nomem'
  BY <1>1, <1>4 DEF tq_send, tq_send_finish, historyVars
<1> QED BY <1>2, <1>3, <1>4
        DEF Next, tq_receive_finish, tq_choke, SpuriousWakeup, historyVars, vars

LEMMA NextChannels ==
  ASSUME IInv, ~nomem, [Next]_vars
  PROVE  [Channels!Next \/ nomem']_(Channels!vars)
<1>1. ASSUME NEW p \in Producers, NEW s \in Streams, tq_send(p, s)
      PROVE  [Channels!Next \/ nomem']_(Channels!vars)
  BY <1>1, SendTryChannels DEF tq_send
<1>2. ASSUME NEW p \in Producers, NEW s \in Streams, tq_send_finish(p, s)
      PROVE  [Channels!Next]_(Channels!vars)
  <2>1. sendClosed' = [sendClosed EXCEPT ![s] = TRUE] /\ recvClosed' = recvClosed
    BY <1>2, FlagsToClosed DEF tq_send_finish, IInv, Flags
  <2>2. Channels!CloseSend(s)
    BY <1>2, <2>1 DEF tq_send_finish, historyVars, Channels!CloseSend, sendClosed, recvClosed
  <2> QED BY <2>2 DEF Channels!Next
<1>3. ASSUME NEW p \in Producers, tq_send_resume(p)
      PROVE  [Channels!Next \/ nomem']_(Channels!vars)
  BY <1>3, SendTryChannels DEF tq_send_resume, IInv, TypeOK
<1>4. CASE tq_receive
  BY <1>4, ReceiveChannels
<1>5. ASSUME NEW s \in Streams, tq_receive_finish(s)
      PROVE  [Channels!Next]_(Channels!vars)
  <2>1. recvClosed' = [recvClosed EXCEPT ![s] = TRUE] /\ sendClosed' = sendClosed
    BY <1>5, FlagsToClosed DEF tq_receive_finish, IInv, Flags
  <2>2. Channels!CloseRecv(s)
    BY <1>5, <2>1 DEF tq_receive_finish, historyVars, Channels!CloseRecv, sendClosed, recvClosed
  <2> QED BY <2>2 DEF Channels!Next
<1>6. ASSUME NEW c \in BOOLEAN, tq_choke(c)
      PROVE  [Channels!Next]_(Channels!vars)
  BY <1>6 DEF tq_choke, historyVars, Channels!vars, SendFinished, RecvFinished
<1>7. ASSUME NEW t \in Threads, SpuriousWakeup(t)
      PROVE  [Channels!Next]_(Channels!vars)
  BY <1>7 DEF SpuriousWakeup, queueVars, historyVars, Channels!vars, SendFinished, RecvFinished
<1>8. CASE UNCHANGED vars
  BY <1>8 DEF vars, Channels!vars, SendFinished, RecvFinished
<1> QED BY <1>1, <1>2, <1>3, <1>4, <1>5, <1>6, <1>7, <1>8 DEF Next

(* Seen stream by stream, the queue is a reliable channel: tq_send(),      *)
(* tq_receive() and the finish calls do nothing to a stream but what       *)
(* StreamChannel lets them do, until one of them runs out of memory.       *)
THEOREM QueueImplementsChannels == Spec => ImplementsChannels
<1>1. IInv /\ [Next]_vars => [Channels!Next \/ nomem']_(Channels!vars)
  BY NextChannels, FailureStays
<1> QED BY InitChannels, SpecIInv, <1>1, PTL DEF Spec, ImplementsChannels
=============================================================================
