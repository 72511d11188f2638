--------------------------- MODULE PipelineProofs ---------------------------
(***************************************************************************)
(* The data flow of ffmpeg, for all transcoding graphs that sch_connect()  *)
(* builds, any delays, sizes of queues and loops, and any threads that     *)
(* fail or end early.                                                      *)
(***************************************************************************)
EXTENDS Pipeline, SequenceInduction, SequenceTheorems, TLAPS

(* The graph.                                                              *)
LEMMA Kinds ==
  /\ Demuxers \cap Consumers = {} /\ Decs \cap (Filters \cup Encs \cup Muxes) = {}
  /\ Filters \cap (Encs \cup Muxes) = {} /\ Encs \cap Muxes = {}
BY GraphAssumption

LEMMA DstsType ==
  \A d \in Dsts : d = <<d[1], d[2]>> /\ d[1] \in Consumers /\ d[2] \in Ports[d[1]] /\ d[2] \in Nat
<1>1. \A c \in Consumers : Ports[c] \subseteq Nat
  BY GraphAssumption
<1> QED BY <1>1 DEF Dsts

LEMMA PortsType == \A c \in Consumers : Ports[c] \subseteq Nat /\ \A p \in Ports[c] : <<c, p>> \in Dsts
BY GraphAssumption DEF Dsts

LEMMA OutputsType ==
  ASSUME NEW t \in Producers
  PROVE  /\ Outs[t] \in Seq(Seq(Dsts)) /\ DstsOf(t) \in Seq(Dsts)
         /\ \A d \in Range(DstsOf(t)) : d \in Dsts /\ d[1] \in TakersOf(t)
         /\ \A i \in DOMAIN Outs[t] : Outs[t][i] \in Seq(Dsts) /\ Range(Outs[t][i]) \subseteq Range(DstsOf(t))
<1>1. Outs[t] \in Seq(Seq(Dsts))
  BY GraphAssumption
<1>2. DstsOf(t) \in Seq(Dsts)
  BY <1>1, FlattenType DEF DstsOf
<1>3. \A x : x \in Range(DstsOf(t)) <=> \E i \in DOMAIN Outs[t] : x \in Range(Outs[t][i])
  BY <1>1, FlattenRange DEF DstsOf
<1>4. \A i \in DOMAIN Outs[t] : Outs[t][i] \in Seq(Dsts)
  BY <1>1
<1>5. ASSUME NEW d \in Range(DstsOf(t))
      PROVE  d \in Dsts /\ d[1] \in TakersOf(t)
  <2>1. PICK i \in DOMAIN Outs[t] : d \in Range(Outs[t][i])
    BY <1>3
  <2>2. PICK j \in DOMAIN Outs[t][i] : d = Outs[t][i][j]
    BY <2>1 DEF Range
  <2>3. d \in Dsts
    BY <1>4, <2>2
  <2>4. d[1] \in TakersOf(t)
    BY <2>2, GraphAssumption
  <2> QED BY <2>3, <2>4
<1> QED BY <1>1, <1>2, <1>3, <1>4, <1>5

-----------------------------------------------------------------------------
(* What is sent.                                                           *)
ItemType == [kind : {"data", "flush", "eof", "empty", "close"}, num : Nat]
Errand   == [dst : Dsts, item : ItemType]
Entry    == [port : Nat, item : ItemType]

LEMMA ItemsType ==
  /\ Flush \in ItemType /\ EofFrame \in ItemType /\ Empty \in ItemType /\ Close \in ItemType
  /\ \A n \in Nat : Data(n) \in ItemType /\ Data(n) # Close /\ Data(n) # Flush
  /\ Empty # Close /\ EofFrame # Close /\ Flush # Close
BY DEF ItemType, Flush, EofFrame, Empty, Close, Data

LEMMA FramesType ==
  ASSUME NEW nums \in Seq(Nat)
  PROVE  /\ Frames(nums) \in Seq(ItemType) /\ Len(Frames(nums)) = Len(nums)
         /\ \A i \in 1 .. Len(nums) : Frames(nums)[i] = Data(nums[i])
<1>1. \A i \in 1 .. Len(nums) : Data(nums[i]) \in ItemType
  BY ItemsType
<1> QED BY <1>1 DEF Frames

LEMMA RowType ==
  ASSUME NEW x \in ItemType, NEW dsts \in Seq(Dsts)
  PROVE  [j \in DOMAIN dsts |-> [dst |-> dsts[j], item |-> x]] \in Seq(Errand)
<1>1. \A j \in 1 .. Len(dsts) : [dst |-> dsts[j], item |-> x] \in Errand
  BY DEF Errand
<1> QED BY <1>1

LEMMA SendsType ==
  ASSUME NEW items \in Seq(ItemType), NEW dsts \in Seq(Dsts)
  PROVE  /\ Sends(items, dsts) \in Seq(Errand)
         /\ \A x : x \in Range(Sends(items, dsts)) <=>
              \E i \in DOMAIN items, j \in DOMAIN dsts : x = [dst |-> dsts[j], item |-> items[i]]
<1> DEFINE Row(i) == [j \in DOMAIN dsts |-> [dst |-> dsts[j], item |-> items[i]]]
           rows == [i \in DOMAIN items |-> Row(i)]
<1>1. \A i \in DOMAIN items : Row(i) \in Seq(Errand)
  BY RowType
<1>2. rows \in Seq(Seq(Errand)) /\ DOMAIN rows = DOMAIN items
  BY <1>1
<1>3. Sends(items, dsts) = FlattenSeq(rows)
  BY DEF Sends
<1>4. FlattenSeq(rows) \in Seq(Errand)
  BY <1>2, FlattenType
<1>5. \A x : x \in Range(FlattenSeq(rows)) <=> \E i \in DOMAIN rows : x \in Range(rows[i])
  BY <1>2, FlattenRange
<1>6. \A i \in DOMAIN items : \A x : x \in Range(rows[i]) <=>
          \E j \in DOMAIN dsts : x = [dst |-> dsts[j], item |-> items[i]]
  BY DEF Range
<1> HIDE DEF rows
<1> QED BY <1>2, <1>3, <1>4, <1>5, <1>6

(* One item, and two items, one after the other.                           *)
LEMMA SendsOne ==
  ASSUME NEW x \in ItemType, NEW dsts \in Seq(Dsts)
  PROVE  Sends(<<x>>, dsts) = [j \in DOMAIN dsts |-> [dst |-> dsts[j], item |-> x]]
<1> DEFINE row == [j \in DOMAIN dsts |-> [dst |-> dsts[j], item |-> x]]
           rows == [i \in DOMAIN <<x>> |-> [j \in DOMAIN dsts |-> [dst |-> dsts[j], item |-> <<x>>[i]]]]
           g == [k \in 0 .. 1 |-> IF k = 0 THEN <<>> ELSE row]
<1>1. row \in Seq(Errand)
  BY RowType
<1>2. DOMAIN <<x>> = {1} /\ rows = <<row>>
  OBVIOUS
<1> HIDE DEF row
<1>3. rows \in Seq(Seq(Errand)) /\ Len(rows) = 1 /\ rows[1] = row
  <2> HIDE DEF rows
  <2> QED BY <1>1, <1>2
<1>4. <<>> \o row = row
  BY <1>1, ConcatEmptySeq
<1>5. Joins(Errand, rows, g)
  <2>1. g \in [0 .. 1 -> Seq(Errand)] /\ g[0] = <<>> /\ g[1] = row
    BY <1>1
  <2>2. \A k \in 1 .. 1 : g[k] = g[k - 1] \o rows[k]
    <3> HIDE DEF rows, g
    <3> QED BY <1>3, <1>4, <2>1
  <2> HIDE DEF rows, g
  <2> QED BY <1>3, <2>1, <2>2 DEF Joins
<1>6. FlattenSeq(rows) = g[1]
  <2> HIDE DEF rows, g
  <2> QED BY <1>3, <1>5, FlattenIs
<1> QED BY <1>6 DEF Sends, row

LEMMA SendsTwo ==
  ASSUME NEW x \in ItemType, NEW y \in ItemType, NEW dsts \in Seq(Dsts)
  PROVE  Sends(<<x, y>>, dsts) = Sends(<<x>>, dsts) \o Sends(<<y>>, dsts)
<1> DEFINE row(z) == [j \in DOMAIN dsts |-> [dst |-> dsts[j], item |-> z]]
           s == [i \in DOMAIN <<x>> |-> row(<<x>>[i])]
           rows == [i \in DOMAIN <<x, y>> |-> row(<<x, y>>[i])]
<1>1. row(x) \in Seq(Errand) /\ row(y) \in Seq(Errand)
  BY RowType
<1>2. DOMAIN <<x, y>> = {1, 2} /\ DOMAIN <<x>> = {1}
  OBVIOUS
<1>3. rows = <<row(x), row(y)>> /\ s = <<row(x)>>
  BY <1>2
<1>4. Sends(<<x, y>>, dsts) = FlattenSeq(rows) /\ Sends(<<x>>, dsts) = FlattenSeq(s)
  BY DEF Sends
<1>5. Sends(<<y>>, dsts) = row(y)
  BY SendsOne
<1> HIDE DEF row, rows, s
<1>6. rows = Append(s, row(y)) /\ s \in Seq(Seq(Errand))
  BY <1>1, <1>3
<1>7. FlattenSeq(rows) = FlattenSeq(s) \o row(y)
  BY <1>1, <1>6, FlattenAppend
<1> QED BY <1>4, <1>5, <1>7

-----------------------------------------------------------------------------
(* Types.                                                                  *)
DstsFrom(t) == IF t \in Producers THEN Range(DstsOf(t)) ELSE {}

PcOK ==
  /\ pc \in [Threads -> {"receiving", "flushing", "waiting", "draining", "cleanup"}]
  /\ \A c \in Consumers : pc[c] \notin {"flushing", "waiting"}

TodoOK ==
  /\ todo \in [Threads -> Seq(Errand)]
  /\ \A t \in Threads : \A x \in Range(todo[t]) : x.dst \in DstsFrom(t)

QueueOK ==
  /\ queue \in [Consumers -> Seq(Entry)]
  /\ \A c \in Consumers : \A x \in Range(queue[c]) : x.port \in Ports[c]

FlagsOK ==
  /\ send_finished \in [Consumers -> SUBSET Nat]
  /\ recv_finished \in [Consumers -> SUBSET Nat]
  /\ \A c \in Consumers : send_finished[c] \subseteq Ports[c] /\ recv_finished[c] \subseteq Ports[c]
  /\ dst_finished \subseteq Dsts

DataOK ==
  /\ held \in [Codecs -> Seq(Nat)]
  /\ opened \subseteq Encs /\ got_frame \subseteq Filters
  /\ formats \in [Filters -> SUBSET Nat] /\ \A f \in Filters : formats[f] \subseteq Ports[f]
  /\ DOMAIN nb_read = Demuxers /\ \A d \in Demuxers : nb_read[d] \in [DOMAIN Outs[d] -> Nat]
  /\ failed \subseteq Threads

LoopOK ==
  /\ expect_end_ts \subseteq EndTs
  /\ queue_end_ts \in [Decs -> Seq(Nat)]
  /\ end_ts_closed \in [Decs -> BOOLEAN]
  /\ last_frame \in [Decs -> Nat]

Types == PcOK /\ TodoOK /\ QueueOK /\ FlagsOK /\ DataOK /\ LoopOK

LEMMA InitTypes == Init => Types
<1> SUFFICES ASSUME Init PROVE Types
  OBVIOUS
<1>1. PcOK
  BY DEF Init, PcOK, Threads
<1>2. TodoOK
  BY DEF Init, TodoOK, Range
<1>3. QueueOK
  BY DEF Init, QueueOK, Range
<1>4. FlagsOK
  BY DEF Init, FlagsOK
<1>5. DataOK
  BY DEF Init, DataOK
<1>6. LoopOK
  BY PipelineAssumption DEF Init, LoopOK, PipelineAssumption
<1> QED BY <1>1, <1>2, <1>3, <1>4, <1>5, <1>6 DEF Types

(* A thread is given something to send.                                    *)
MaySend(t, s) == s \in Seq(Errand) /\ \A x \in Range(s) : x.dst \in DstsFrom(t)

LEMMA TodoSet ==
  ASSUME TodoOK, NEW t \in Threads, NEW s, MaySend(t, s), todo' = Set(todo, t, s)
  PROVE  TodoOK'
BY DEF TodoOK, MaySend, Set

LEMMA EmptyErrands == \A t : MaySend(t, <<>>)
BY DEF MaySend, Range

LEMMA MaySendBoth ==
  ASSUME NEW t, NEW a, NEW b, MaySend(t, a), MaySend(t, b)
  PROVE  MaySend(t, a \o b)
<1>1. Range(a \o b) = Range(a) \cup Range(b)
  BY RangeJoin DEF MaySend
<1> QED BY <1>1 DEF MaySend

LEMMA SendsToOutputs ==
  ASSUME NEW t \in Producers, NEW items \in Seq(ItemType)
  PROVE  MaySend(t, Sends(items, DstsOf(t)))
<1>1. DstsOf(t) \in Seq(Dsts)
  BY OutputsType
<1>2. /\ Sends(items, DstsOf(t)) \in Seq(Errand)
      /\ \A x : x \in Range(Sends(items, DstsOf(t))) <=>
              \E i \in DOMAIN items, j \in DOMAIN DstsOf(t) : x = [dst |-> DstsOf(t)[j], item |-> items[i]]
  BY <1>1, SendsType
<1>3. ASSUME NEW x \in Range(Sends(items, DstsOf(t))) PROVE x.dst \in DstsFrom(t)
  <2>1. PICK i \in DOMAIN items, j \in DOMAIN DstsOf(t) : x = [dst |-> DstsOf(t)[j], item |-> items[i]]
    BY <1>2
  <2>2. x.dst = DstsOf(t)[j]
    BY <2>1
  <2> QED BY <2>2 DEF DstsFrom, Range
<1> QED BY <1>2, <1>3 DEF MaySend

LEMMA CodecsSend == Codecs \subseteq Producers /\ Codecs \subseteq Consumers /\ Codecs \subseteq Threads
BY DEF Codecs, Producers, Consumers, Threads

LEMMA FlushedType ==
  ASSUME Types, NEW t \in Codecs
  PROVE  MaySend(t, Flushed(t)) /\ \A x \in Range(Flushed(t)) : x.item # Close
<1>1. held[t] \in Seq(Nat) /\ t \in Producers
  BY CodecsSend DEF Types, DataOK
<1>2. Frames(held[t]) \in Seq(ItemType) /\ DstsOf(t) \in Seq(Dsts)
  BY <1>1, FramesType, OutputsType
<1>3. ASSUME NEW x \in Range(Flushed(t)) PROVE x.item # Close
  <2>1. PICK i \in DOMAIN Frames(held[t]), j \in DOMAIN DstsOf(t) :
          x = [dst |-> DstsOf(t)[j], item |-> Frames(held[t])[i]]
    BY <1>2, SendsType DEF Flushed
  <2>2. Frames(held[t])[i] = Data(held[t][i]) /\ held[t][i] \in Nat
    BY <1>1, FramesType
  <2> QED BY <2>1, <2>2, ItemsType
<1> QED BY <1>1, <1>2, <1>3, SendsToOutputs DEF Flushed

(* A sequence in two parts.                                                *)
LEMMA SplitSeq ==
  ASSUME NEW S, NEW s \in Seq(S), NEW l \in 0 .. Len(s)
  PROVE  /\ SubSeq(s, 1, l) \in Seq(S) /\ Len(SubSeq(s, 1, l)) = l
         /\ SubSeq(s, l + 1, Len(s)) \in Seq(S) /\ Len(SubSeq(s, l + 1, Len(s))) = Len(s) - l
         /\ \A i \in 1 .. Len(s) - l : SubSeq(s, l + 1, Len(s))[i] = s[l + i]
         /\ s = SubSeq(s, 1, l) \o SubSeq(s, l + 1, Len(s))
<1> DEFINE o == SubSeq(s, 1, l)
           k == SubSeq(s, l + 1, Len(s))
<1>1. o \in Seq(S) /\ Len(o) = l /\ \A i \in 1 .. l : o[i] = s[i]
  OBVIOUS
<1>2. k \in Seq(S) /\ Len(k) = Len(s) - l
  <2>1. \A i \in l + 1 .. Len(s) : s[i] \in S
    OBVIOUS
  <2> QED BY <2>1, SubSeqProperties
<1>3. \A i \in 1 .. Len(s) - l : k[i] = s[l + i]
  <2>1. \A i \in 1 .. Len(s) - l : k[i] = s[(l + 1) + i - 1]
    BY SubSeqProperties
  <2>2. \A i \in 1 .. Len(s) - l : (l + 1) + i - 1 = l + i
    OBVIOUS
  <2> HIDE DEF k
  <2> QED BY <2>1, <2>2
<1> HIDE DEF o, k
<1>4. s = o \o k
  <2>1. Len(o \o k) = Len(s) /\ o \o k \in Seq(S)
    BY <1>1, <1>2
  <2>2. ASSUME NEW i \in 1 .. Len(s) PROVE (o \o k)[i] = s[i]
    <3>1. CASE i <= l
      BY <1>1, <1>2, <3>1
    <3>2. CASE i > l
      <4>1. (o \o k)[i] = k[i - l] /\ i - l \in 1 .. Len(s) - l /\ l + (i - l) = i
        BY <1>1, <1>2, <3>2
      <4> QED BY <1>3, <4>1
    <3>3. i <= l \/ i > l
      <4>1. i \in Int /\ l \in Int
        OBVIOUS
      <4> QED BY <4>1
    <3> QED BY <3>1, <3>2, <3>3
  <2> DEFINE r == o \o k
  <2>3. r \in Seq(S) /\ Len(r) = Len(s) /\ \A i \in 1 .. Len(s) : r[i] = s[i]
    BY <2>1, <2>2 DEF r
  <2> HIDE DEF r
  <2>4. r = s
    BY <2>3, SeqEqual
  <2> QED BY <2>4 DEF r
<1> QED BY <1>1, <1>2, <1>3, <1>4 DEF o, k

(* What codecs put out and keep is what they had.                          *)
LEMMA PutOutAndKeep ==
  ASSUME NEW t \in Codecs, NEW s \in Seq(Nat)
  PROVE  /\ PutOut(t, s) \in Seq(Nat) /\ KeepBack(t, s) \in Seq(Nat)
         /\ s = PutOut(t, s) \o KeepBack(t, s)
         /\ Len(s) <= Delay[t] => Len(KeepBack(t, s)) = Len(s)
         /\ Len(s) > Delay[t] => Len(KeepBack(t, s)) = Delay[t]
<1> DEFINE m == Len(s) - Delay[t]
<1>1. Delay[t] \in Nat
  BY PipelineAssumption DEF PipelineAssumption
<1>2. Len(s) \in Nat /\ m \in Int /\ m <= Len(s)
  BY <1>1
<1>3. PutOut(t, s) = SubSeq(s, 1, m) /\ KeepBack(t, s) = SubSeq(s, Len(PutOut(t, s)) + 1, Len(s))
  BY DEF PutOut, KeepBack
<1>4. PICK l \in 0 .. Len(s) : l = IF m < 0 THEN 0 ELSE m
  BY <1>2
<1>5. PutOut(t, s) = SubSeq(s, 1, l)
  <2>1. CASE m < 0
    <3>1. SubSeq(s, 1, m) = <<>> /\ SubSeq(s, 1, 0) = <<>>
      BY <1>2, <2>1
    <3> QED BY <1>3, <1>4, <2>1, <3>1
  <2> QED BY <1>3, <1>4, <2>1
<1>6. /\ SubSeq(s, 1, l) \in Seq(Nat) /\ Len(SubSeq(s, 1, l)) = l
      /\ SubSeq(s, l + 1, Len(s)) \in Seq(Nat) /\ Len(SubSeq(s, l + 1, Len(s))) = Len(s) - l
      /\ s = SubSeq(s, 1, l) \o SubSeq(s, l + 1, Len(s))
  BY SplitSeq
<1>7. KeepBack(t, s) = SubSeq(s, l + 1, Len(s))
  BY <1>3, <1>5, <1>6
<1>8. ASSUME NEW h \in Nat, NEW c \in Nat, l = IF h - c < 0 THEN 0 ELSE h - c
      PROVE  (h <= c => h - l = h) /\ (h > c => h - l = c)
  BY <1>8
<1>9. (Len(s) <= Delay[t] => Len(s) - l = Len(s)) /\ (Len(s) > Delay[t] => Len(s) - l = Delay[t])
  BY <1>1, <1>2, <1>4, <1>8
<1> QED BY <1>5, <1>6, <1>7, <1>9

LEMMA OutAndKeep ==
  ASSUME Types, NEW t \in Codecs, NEW n \in Nat
  PROVE  /\ Out(t, n) \in Seq(Nat) /\ Keep(t, n) \in Seq(Nat)
         /\ Append(held[t], n) = Out(t, n) \o Keep(t, n)
         /\ Len(held[t]) <= Delay[t] => Len(Keep(t, n)) <= Delay[t]
         /\ Delay[t] # 0 => Keep(t, n) # <<>>
<1> DEFINE s == Append(held[t], n)
<1>1. held[t] \in Seq(Nat) /\ Delay[t] \in Nat
  BY PipelineAssumption DEF PipelineAssumption, Types, DataOK
<1>2. s \in Seq(Nat) /\ Len(s) = Len(held[t]) + 1 /\ Len(held[t]) \in Nat
  BY <1>1
<1>3. Out(t, n) = PutOut(t, s) /\ Keep(t, n) = KeepBack(t, s)
  BY DEF Out, Keep
<1> HIDE DEF s
<1>4. /\ Out(t, n) \in Seq(Nat) /\ Keep(t, n) \in Seq(Nat)
      /\ s = Out(t, n) \o Keep(t, n)
      /\ Len(s) <= Delay[t] => Len(Keep(t, n)) = Len(s)
      /\ Len(s) > Delay[t] => Len(Keep(t, n)) = Delay[t]
  BY <1>2, <1>3, PutOutAndKeep
<1>5. ASSUME NEW h \in Nat, NEW c \in Nat, NEW k \in Nat,
             h + 1 <= c => k = h + 1, h + 1 > c => k = c
      PROVE  k <= c /\ (c # 0 => k # 0)
  BY <1>5
<1>6. Len(Keep(t, n)) \in Nat
  BY <1>4
<1>7. Len(Keep(t, n)) <= Delay[t] /\ (Delay[t] # 0 => Len(Keep(t, n)) # 0)
  BY <1>1, <1>2, <1>4, <1>5, <1>6
<1> QED BY <1>4, <1>7 DEF s

LEMMA ProcessType ==
  ASSUME Types, NEW t \in Codecs, Got(t).item.num \in Nat, Process(t)
  PROVE  /\ TodoOK' /\ held' \in [Codecs -> Seq(Nat)]
         /\ \A x \in Range(todo'[t]) : x.item # Close
         /\ held'[t] = Keep(t, Got(t).item.num)
         /\ \A u \in Codecs \ {t} : held'[u] = held[u]
<1> DEFINE n == Got(t).item.num
           s == Sends(Frames(Out(t, n)), DstsOf(t))
<1>1. Out(t, n) \in Seq(Nat) /\ Keep(t, n) \in Seq(Nat) /\ t \in Producers /\ t \in Threads
  BY OutAndKeep, CodecsSend
<1>2. todo' = Set(todo, t, s) /\ held' = Set(held, t, Keep(t, n))
  BY DEF Process
<1> HIDE DEF n
<1>3. Frames(Out(t, n)) \in Seq(ItemType) /\ DstsOf(t) \in Seq(Dsts)
  BY <1>1, FramesType, OutputsType
<1>4. MaySend(t, s)
  BY <1>1, <1>3, SendsToOutputs
<1>5. \A x \in Range(s) : x.item # Close
  <2> SUFFICES ASSUME NEW x \in Range(s) PROVE x.item # Close
    OBVIOUS
  <2>1. PICK i \in DOMAIN Frames(Out(t, n)), j \in DOMAIN DstsOf(t) :
          x = [dst |-> DstsOf(t)[j], item |-> Frames(Out(t, n))[i]]
    BY <1>3, SendsType
  <2>2. i \in 1 .. Len(Out(t, n))
    BY <1>1, <1>3, FramesType
  <2>3. Frames(Out(t, n))[i] = Data(Out(t, n)[i]) /\ Out(t, n)[i] \in Nat
    BY <1>1, <2>2, FramesType
  <2> QED BY <2>1, <2>3, ItemsType
<1> HIDE DEF s
<1>6. TodoOK' /\ todo'[t] = s
  BY <1>1, <1>2, <1>4, TodoSet DEF Types, TodoOK, Set
<1>7. held' \in [Codecs -> Seq(Nat)] /\ held'[t] = Keep(t, n) /\ \A u \in Codecs \ {t} : held'[u] = held[u]
  BY <1>1, <1>2 DEF Types, DataOK, Set
<1> QED BY <1>5, <1>6, <1>7 DEF n

(* What is received comes from the queue, and what follows it stays there. *)
LEMMA FirstLiveIs ==
  ASSUME Types, NEW c \in Consumers, Live(c) # {}
  PROVE  /\ FirstLive(c) \in Live(c) /\ FirstLive(c) \in 1 .. Len(queue[c])
         /\ \A j \in Live(c) : FirstLive(c) <= j
         /\ Got(c) \in Entry /\ Got(c).port \in Ports[c] /\ Got(c).port \notin recv_finished[c]
<1>1. queue[c] \in Seq(Entry) /\ \A x \in Range(queue[c]) : x.port \in Ports[c]
  BY DEF Types, QueueOK
<1>2. Live(c) \in SUBSET Nat /\ Live(c) \subseteq 1 .. Len(queue[c])
  BY <1>1 DEF Live
<1>3. \E i \in Live(c) : \A j \in Live(c) : i <= j
  BY <1>2, Smallest
<1>4. FirstLive(c) \in Live(c) /\ \A j \in Live(c) : FirstLive(c) <= j
  BY <1>3 DEF FirstLive
<1>5. queue[c][FirstLive(c)] \in Entry /\ queue[c][FirstLive(c)] \in Range(queue[c])
  BY <1>1, <1>2, <1>4 DEF Range
<1>6. queue[c][FirstLive(c)].port \notin recv_finished[c]
  BY <1>4 DEF Live
<1> QED BY <1>1, <1>2, <1>4, <1>5, <1>6 DEF Got

LEMMA ReceivesType ==
  ASSUME Types, NEW c \in Consumers, NEW kind, Receives(c, kind)
  PROVE  /\ QueueOK' /\ Got(c) \in Entry /\ Got(c).port \in Ports[c] /\ Got(c).port \notin recv_finished[c]
         /\ Got(c).item \in ItemType /\ Got(c).item.num \in Nat /\ Got(c).item.kind = kind
         /\ FirstLive(c) \in 1 .. Len(queue[c])
         /\ queue'[c] = SubSeq(queue[c], FirstLive(c) + 1, Len(queue[c]))
         /\ \A u \in Consumers \ {c} : queue'[u] = queue[u]
<1>1. Live(c) # {} /\ Got(c).item.kind = kind
      /\ queue' = [queue EXCEPT ![c] = SubSeq(queue[c], FirstLive(c) + 1, Len(queue[c]))]
  BY DEF Receives
<1>2. /\ FirstLive(c) \in 1 .. Len(queue[c])
      /\ Got(c) \in Entry /\ Got(c).port \in Ports[c] /\ Got(c).port \notin recv_finished[c]
  BY <1>1, FirstLiveIs
<1>3. Got(c).item \in ItemType /\ Got(c).item.num \in Nat
  BY <1>2 DEF Entry, ItemType
<1>4. queue \in [Consumers -> Seq(Entry)] /\ \A u \in Consumers : \A x \in Range(queue[u]) : x.port \in Ports[u]
  BY DEF Types, QueueOK
<1> DEFINE k == SubSeq(queue[c], FirstLive(c) + 1, Len(queue[c]))
<1>5. PICK l \in 1 .. Len(queue[c]) : l = FirstLive(c)
  BY <1>2
<1>6. /\ k \in Seq(Entry) /\ Len(k) = Len(queue[c]) - l
      /\ \A i \in 1 .. Len(queue[c]) - l : k[i] = queue[c][l + i]
  <2>1. l \in 0 .. Len(queue[c]) /\ queue[c] \in Seq(Entry)
    BY <1>4
  <2> QED BY <1>5, <2>1, SplitSeq
<1>7. \A x \in Range(k) : x \in Range(queue[c])
  <2> SUFFICES ASSUME NEW i \in DOMAIN k PROVE k[i] \in Range(queue[c])
    BY DEF Range
  <2> HIDE DEF k
  <2>1. i \in 1 .. Len(queue[c]) - l /\ Len(queue[c]) \in Nat
    BY <1>4, <1>6
  <2>2. l + i \in 1 .. Len(queue[c]) /\ k[i] = queue[c][l + i]
    BY <1>6, <2>1
  <2>3. l + i \in DOMAIN queue[c]
    BY <1>4, <2>2
  <2> QED BY <2>2, <2>3 DEF Range
<1>8. queue' = [queue EXCEPT ![c] = k]
  BY <1>1
<1> HIDE DEF k
<1>9. /\ queue' \in [Consumers -> Seq(Entry)] /\ queue'[c] = k
      /\ \A u \in Consumers \ {c} : queue'[u] = queue[u]
  BY <1>4, <1>6, <1>8
<1>10. \A u \in Consumers : \A x \in Range(queue'[u]) : x.port \in Ports[u]
  BY <1>4, <1>7, <1>9
<1> QED BY <1>1, <1>2, <1>3, <1>9, <1>10 DEF QueueOK, k

LEMMA EmptiedType ==
  ASSUME Types, NEW c \in Consumers, queue' = Set(queue, c, <<>>)
  PROVE  QueueOK' /\ queue'[c] = <<>> /\ \A u \in Consumers \ {c} : queue'[u] = queue[u]
<1>1. queue'[c] = <<>> /\ \A u \in Consumers \ {c} : queue'[u] = queue[u]
  BY DEF Types, QueueOK, Set
<1>2. Range(queue'[c]) = {}
  BY <1>1 DEF Range
<1>3. queue' \in [Consumers -> Seq(Entry)]
  BY DEF Types, QueueOK, Set
<1>4. \A u \in Consumers : \A x \in Range(queue'[u]) : x.port \in Ports[u]
  BY <1>1, <1>2 DEF Types, QueueOK
<1> QED BY <1>1, <1>3, <1>4 DEF QueueOK

LEMMA ReceivesEofType ==
  ASSUME Types, NEW c \in Consumers, ReceivesEof(c)
  PROVE  /\ QueueOK' /\ recv_finished' \in [Consumers -> SUBSET Nat]
         /\ \A u \in Consumers : recv_finished'[u] \subseteq Ports[u]
         /\ Live(c) = {} /\ FirstEof(c) \in send_finished[c] /\ FirstEof(c) \notin recv_finished[c]
         /\ recv_finished'[c] = recv_finished[c] \cup {FirstEof(c)}
         /\ \A u \in Consumers \ {c} : recv_finished'[u] = recv_finished[u]
         /\ queue'[c] = <<>> /\ \A u \in Consumers \ {c} : queue'[u] = queue[u]
<1>1. /\ EofPending(c) # {} /\ queue' = Set(queue, c, <<>>)
      /\ recv_finished' = [recv_finished EXCEPT ![c] = recv_finished[c] \cup {FirstEof(c)}]
  BY DEF ReceivesEof
<1>2. Live(c) = {} /\ EofPending(c) = send_finished[c] \ recv_finished[c]
  BY <1>1 DEF EofPending
<1>3. EofPending(c) \in SUBSET Nat /\ send_finished[c] \subseteq Ports[c]
  BY <1>2 DEF Types, FlagsOK
<1>4. FirstEof(c) \in EofPending(c)
  <2>1. \E i \in EofPending(c) : \A j \in EofPending(c) : i <= j
    BY <1>1, <1>3, Smallest
  <2> QED BY <2>1 DEF FirstEof
<1>5. FirstEof(c) \in Nat /\ FirstEof(c) \in Ports[c]
  BY <1>2, <1>3, <1>4
<1> HIDE DEF FirstEof
<1>6. /\ recv_finished' \in [Consumers -> SUBSET Nat]
      /\ recv_finished'[c] = recv_finished[c] \cup {FirstEof(c)}
      /\ \A u \in Consumers \ {c} : recv_finished'[u] = recv_finished[u]
  BY <1>1, <1>5 DEF Types, FlagsOK
<1>7. \A u \in Consumers : recv_finished'[u] \subseteq Ports[u]
  BY <1>5, <1>6 DEF Types, FlagsOK
<1>8. QueueOK' /\ queue'[c] = <<>> /\ \A u \in Consumers \ {c} : queue'[u] = queue[u]
  BY <1>1, EmptiedType
<1> QED BY <1>2, <1>4, <1>6, <1>7, <1>8

LEMMA EndsType ==
  ASSUME Types, NEW t \in Threads, NEW s, MaySend(t, s), Ends(t, s)
  PROVE  /\ PcOK' /\ TodoOK' /\ todo'[t] = s /\ pc'[t] = "draining"
         /\ \A u \in Threads \ {t} : pc'[u] = pc[u] /\ todo'[u] = todo[u]
<1>1. PcOK' /\ pc'[t] = "draining" /\ \A u \in Threads \ {t} : pc'[u] = pc[u]
  BY DEF Types, PcOK, Ends, Set, Threads
<1>2. TodoOK'
  BY TodoSet DEF Types, Ends
<1>3. todo'[t] = s /\ \A u \in Threads \ {t} : todo'[u] = todo[u]
  BY DEF Types, TodoOK, Ends, Set
<1> QED BY <1>1, <1>2, <1>3

(* Every action keeps the types.                                           *)
LEMMA KindsOf ==
  /\ Demuxers \subseteq Producers /\ Decs \subseteq Codecs /\ Filters \subseteq Codecs /\ Encs \subseteq Codecs
  /\ Muxes \subseteq Consumers /\ Consumers \subseteq Threads /\ Producers \subseteq Threads
  /\ Codecs \subseteq Producers /\ Codecs \subseteq Consumers
  /\ \A d \in Demuxers : d \notin Consumers /\ d \in Threads /\ d \notin Codecs
BY Kinds DEF Producers, Consumers, Codecs, Threads

LEMMA SendHead ==
  ASSUME Types, NEW t \in Threads, todo[t] # <<>>
  PROVE  /\ Head(todo[t]) \in Errand /\ Head(todo[t]).dst \in DstsFrom(t) /\ t \in Producers
         /\ Head(todo[t]).dst[1] \in Consumers /\ Head(todo[t]).dst[1] \in TakersOf(t)
         /\ Head(todo[t]).dst[2] \in Ports[Head(todo[t]).dst[1]] /\ Head(todo[t]).dst[2] \in Nat
         /\ Head(todo[t]).dst = <<Head(todo[t]).dst[1], Head(todo[t]).dst[2]>>
         /\ Head(todo[t]).item \in ItemType
         /\ Tail(todo[t]) \in Seq(Errand) /\ \A x \in Range(Tail(todo[t])) : x \in Range(todo[t])
<1>1. todo[t] \in Seq(Errand) /\ \A x \in Range(todo[t]) : x.dst \in DstsFrom(t)
  BY DEF Types, TodoOK
<1>2. Head(todo[t]) \in Errand /\ Head(todo[t]) \in Range(todo[t]) /\ Tail(todo[t]) \in Seq(Errand)
  BY <1>1 DEF Range
<1>3. \A x \in Range(Tail(todo[t])) : x \in Range(todo[t])
  BY <1>1 DEF Range
<1>4. Head(todo[t]).dst \in DstsFrom(t) /\ t \in Producers
  BY <1>1, <1>2 DEF DstsFrom
<1>5. Head(todo[t]).dst \in Dsts /\ Head(todo[t]).dst[1] \in TakersOf(t)
  BY <1>4, OutputsType DEF DstsFrom
<1>6. Head(todo[t]).item \in ItemType
  BY <1>2 DEF Errand
<1> QED BY <1>2, <1>3, <1>4, <1>5, <1>6, DstsType

LEMMA TailType ==
  ASSUME Types, NEW t \in Threads, todo[t] # <<>>, todo' = [todo EXCEPT ![t] = Tail(todo[t])]
  PROVE  TodoOK' /\ todo'[t] = Tail(todo[t]) /\ \A u \in Threads \ {t} : todo'[u] = todo[u]
<1>1. MaySend(t, Tail(todo[t]))
  BY SendHead DEF MaySend, Types, TodoOK
<1>2. TodoOK'
  BY <1>1, TodoSet DEF Types, Set
<1> QED BY <1>2 DEF Types, TodoOK

LEMMA AppendType ==
  ASSUME Types, NEW c \in Consumers, NEW p \in Ports[c], NEW x \in ItemType,
         queue' = [queue EXCEPT ![c] = Append(queue[c], [port |-> p, item |-> x])]
  PROVE  /\ QueueOK' /\ queue'[c] = Append(queue[c], [port |-> p, item |-> x])
         /\ \A u \in Consumers \ {c} : queue'[u] = queue[u]
<1> DEFINE e == [port |-> p, item |-> x]
<1>1. e \in Entry /\ e.port = p
  BY PortsType DEF Entry
<1>2. queue \in [Consumers -> Seq(Entry)] /\ \A u \in Consumers : \A y \in Range(queue[u]) : y.port \in Ports[u]
  BY DEF Types, QueueOK
<1> HIDE DEF e
<1>3. /\ queue' \in [Consumers -> Seq(Entry)] /\ queue'[c] = Append(queue[c], e)
      /\ \A u \in Consumers \ {c} : queue'[u] = queue[u]
  BY <1>1, <1>2 DEF e
<1>4. \A y \in Range(queue'[c]) : y \in Range(queue[c]) \/ y = e
  <2>1. queue[c] \in Seq(Entry)
    BY <1>2
  <2> DEFINE s == queue[c]
             u == Append(s, e)
  <2>2. DOMAIN u = 1 .. Len(s) + 1 /\ DOMAIN s = 1 .. Len(s) /\ Len(s) \in Nat
        /\ \A i \in 1 .. Len(s) : u[i] = s[i]
    BY <1>1, <2>1
  <2>3. u[Len(s) + 1] = e
    BY <1>1, <2>1
  <2> HIDE DEF s, u
  <2>4. \A i \in DOMAIN u : i \in DOMAIN s \/ i = Len(s) + 1
    BY <2>2
  <2>5. \A y \in Range(u) : y \in Range(s) \/ y = e
    BY <2>2, <2>3, <2>4 DEF Range
  <2> QED BY <1>3, <2>5 DEF s, u
<1>5. \A u \in Consumers : \A y \in Range(queue'[u]) : y.port \in Ports[u]
  BY <1>1, <1>2, <1>3, <1>4
<1> QED BY <1>3, <1>5 DEF QueueOK, e

LEMMA SendTypes ==
  ASSUME Types, NEW t \in Threads, Send(t)
  PROVE  Types'
<1> DEFINE c == Head(todo[t]).dst[1]
           p == Head(todo[t]).dst[2]
           x == Head(todo[t]).item
<1>1. todo[t] # <<>> /\ todo' = [todo EXCEPT ![t] = Tail(todo[t])]
      /\ UNCHANGED <<pc, held, formats, eof_in, nb_read, loopVars, mainVars, historyVars>>
  BY DEF Send
<1>2. c \in Consumers /\ p \in Ports[c] /\ p \in Nat /\ x \in ItemType /\ <<c, p>> \in Dsts
  BY <1>1, SendHead, PortsType
<1>3. \/ UNCHANGED <<queueVars, opened, got_frame>>
      \/ (SendClose(c, p, x) \/ SendItem(c, p, x) \/ SendNothing(c, x)) /\ Opens(c, x) /\ GotFrame(t, c, p, x)
  BY DEF Send
<1>4. TodoOK'
  BY <1>1, TailType
<1> HIDE DEF c, p, x
<1>5. opened' \subseteq Encs /\ got_frame' \subseteq Filters
  BY <1>3 DEF Opens, GotFrame, Types, DataOK
<1>6. QueueOK'
  <2>1. CASE SendItem(c, p, x)
    BY <1>2, <2>1, AppendType DEF SendItem
  <2>2. CASE queue' = queue
    BY <2>2 DEF Types, QueueOK
  <2> QED BY <1>3, <2>1, <2>2 DEF SendClose, SendNothing, queueVars
<1>7. FlagsOK'
  <2>1. CASE SendClose(c, p, x)
    <3>1. /\ send_finished' = [send_finished EXCEPT ![c] = send_finished[c] \cup {p}]
          /\ dst_finished' = dst_finished \cup {<<c, p>>} /\ recv_finished' = recv_finished
      BY <2>1 DEF SendClose
    <3> QED BY <1>2, <3>1 DEF Types, FlagsOK
  <2>2. CASE UNCHANGED <<send_finished, recv_finished, dst_finished>>
    BY <2>2 DEF Types, FlagsOK
  <2> QED BY <1>3, <2>1, <2>2 DEF SendItem, SendNothing, queueVars
<1>8. PcOK' /\ LoopOK'
  BY <1>1 DEF Types, PcOK, LoopOK, loopVars
<1>9. DataOK'
  BY <1>1, <1>5 DEF Types, DataOK, historyVars
<1> QED BY <1>4, <1>6, <1>7, <1>8, <1>9 DEF Types

(* What stays the same if its variables do.                                *)
LEMMA SameTypes ==
  ASSUME Types
  PROVE  /\ UNCHANGED pc => PcOK'
         /\ UNCHANGED todo => TodoOK'
         /\ UNCHANGED queue => QueueOK'
         /\ UNCHANGED <<send_finished, recv_finished, dst_finished>> => FlagsOK'
         /\ UNCHANGED <<held, opened, formats, got_frame, nb_read, failed>> => DataOK'
         /\ UNCHANGED <<expect_end_ts, queue_end_ts, end_ts_closed, last_frame>> => LoopOK'
<1>1. UNCHANGED pc => PcOK'
  BY DEF Types, PcOK
<1>2. UNCHANGED todo => TodoOK'
  BY DEF Types, TodoOK
<1>3. UNCHANGED queue => QueueOK'
  BY DEF Types, QueueOK
<1>4. UNCHANGED <<send_finished, recv_finished, dst_finished>> => FlagsOK'
  BY DEF Types, FlagsOK
<1>5. UNCHANGED <<held, opened, formats, got_frame, nb_read, failed>> => DataOK'
  BY DEF Types, DataOK
<1>6. UNCHANGED <<expect_end_ts, queue_end_ts, end_ts_closed, last_frame>> => LoopOK'
  BY DEF Types, LoopOK
<1> QED BY <1>1, <1>2, <1>3, <1>4, <1>5, <1>6

LEMMA CleanupTypes ==
  ASSUME Types, NEW t \in Threads, task_cleanup(t)
  PROVE  Types'
<1> USE DEF task_cleanup
<1>1. PcOK'
  BY DEF Types, PcOK, Set
<1>2. TodoOK'
  <2>1. CASE t \in Producers
    <3>1. <<Close>> \in Seq(ItemType)
      BY ItemsType
    <3>2. MaySend(t, Sends(<<Close>>, DstsOf(t)))
      BY <2>1, <3>1, SendsToOutputs
    <3> QED BY <2>1, <3>2, TodoSet DEF Types
  <2>2. CASE t \notin Producers
    BY <2>2, SameTypes
  <2> QED BY <2>1, <2>2
<1>3. FlagsOK'
  BY PortsType DEF Types, FlagsOK, Set
<1>4. QueueOK' /\ DataOK'
  BY SameTypes DEF dataVars, historyVars
<1>5. LoopOK'
  BY DEF Types, LoopOK, Set
<1> QED BY <1>1, <1>2, <1>3, <1>4, <1>5 DEF Types

LEMMA FailsTypes ==
  ASSUME Types, NEW t \in Threads, task_fails(t)
  PROVE  Types'
<1> USE DEF task_fails
<1>1. PcOK' /\ TodoOK'
  BY EndsType, EmptyErrands
<1>2. QueueOK' /\ FlagsOK' /\ LoopOK'
  BY SameTypes DEF queueVars, loopVars
<1>3. DataOK'
  BY DEF Types, DataOK, dataVars
<1> QED BY <1>1, <1>2, <1>3 DEF Types

LEMMA FlushesType ==
  ASSUME NEW d \in Demuxers
  PROVE  MaySend(d, Flushes(d)) /\ \A x \in Range(Flushes(d)) : x.item = Flush /\ x.dst[1] \in Decs
<1> DEFINE dsts == DstsOf(d)
           part(i) == IF dsts[i][1] \in Decs /\ dsts[i] \notin dst_finished
                      THEN <<[dst |-> dsts[i], item |-> Flush]>> ELSE <<>>
           parts == [i \in DOMAIN dsts |-> part(i)]
<1>1. dsts \in Seq(Dsts) /\ d \in Producers
  BY KindsOf, OutputsType
<1>2. ASSUME NEW i \in DOMAIN dsts
      PROVE  /\ part(i) \in Seq(Errand)
             /\ \A x \in Range(part(i)) : x.item = Flush /\ x.dst[1] \in Decs /\ x.dst \in Range(dsts)
  <2>1. CASE part(i) = <<>>
    BY <2>1 DEF Range
  <2>2. CASE dsts[i][1] \in Decs /\ part(i) = <<[dst |-> dsts[i], item |-> Flush]>>
    <3>1. [dst |-> dsts[i], item |-> Flush] \in Errand
      BY <1>1, ItemsType DEF Errand
    <3>2. Range(part(i)) = {[dst |-> dsts[i], item |-> Flush]}
      BY <2>2 DEF Range
    <3>3. dsts[i] \in Range(dsts)
      BY DEF Range
    <3> HIDE DEF part
    <3> QED BY <2>2, <3>1, <3>2, <3>3
  <2> QED BY <2>1, <2>2
<1>3. Flushes(d) = FlattenSeq(parts)
  BY DEF Flushes
<1> HIDE DEF part
<1>4. parts \in Seq(Seq(Errand)) /\ DOMAIN parts = DOMAIN dsts
  BY <1>1, <1>2
<1>5. \A x : x \in Range(FlattenSeq(parts)) <=> \E i \in DOMAIN parts : x \in Range(parts[i])
  BY <1>4, FlattenRange
<1>6. ASSUME NEW x \in Range(Flushes(d))
      PROVE  x.item = Flush /\ x.dst[1] \in Decs /\ x.dst \in Range(dsts)
  <2>1. PICK i \in DOMAIN dsts : x \in Range(part(i))
    BY <1>3, <1>4, <1>5
  <2> QED BY <1>2, <2>1
<1>7. Flushes(d) \in Seq(Errand)
  BY <1>3, <1>4, FlattenType
<1> QED BY <1>1, <1>6, <1>7 DEF MaySend, DstsFrom

LEMMA LastFrameType ==
  ASSUME Types, NEW x \in Decs, NEW s \in Seq(Nat), LastOf(s, x)
  PROVE  /\ UNCHANGED <<queue_end_ts, end_ts_closed>> /\ expect_end_ts' \subseteq EndTs => LoopOK'
         /\ UNCHANGED <<queue_end_ts, end_ts_closed, expect_end_ts>> => LoopOK'
         /\ last_frame'[x] = IF s = <<>> THEN last_frame[x] ELSE Last(s)
         /\ \A y \in Decs \ {x} : last_frame'[y] = last_frame[y]
<1>1. s # <<>> => Last(s) \in Nat
  BY DEF Last
<1>2. last_frame' \in [Decs -> Nat]
  BY <1>1 DEF LastOf, Set, Types, LoopOK
<1>3. /\ last_frame'[x] = IF s = <<>> THEN last_frame[x] ELSE Last(s)
      /\ \A y \in Decs \ {x} : last_frame'[y] = last_frame[y]
  BY DEF LastOf, Set, Types, LoopOK
<1> QED BY <1>2, <1>3 DEF Types, LoopOK

LEMMA PcSet ==
  ASSUME Types, NEW d \in Demuxers, NEW v \in {"receiving", "flushing", "waiting"}, pc' = Set(pc, d, v)
  PROVE  PcOK' /\ pc'[d] = v /\ \A u \in Threads \ {d} : pc'[u] = pc[u]
<1>1. pc \in [Threads -> {"receiving", "flushing", "waiting", "draining", "cleanup"}]
  BY DEF Types, PcOK
<1>2. d \in Threads /\ d \notin Consumers
  BY KindsOf
<1>3. pc' \in [Threads -> {"receiving", "flushing", "waiting", "draining", "cleanup"}]
  BY <1>1 DEF Set
<1>4. pc'[d] = v /\ \A u \in Threads \ {d} : pc'[u] = pc[u]
  BY <1>1, <1>2 DEF Set
<1>5. \A c \in Consumers : pc'[c] \notin {"flushing", "waiting"}
  BY <1>2, <1>4, KindsOf DEF Types, PcOK
<1> QED BY <1>3, <1>4, <1>5 DEF PcOK

LEMMA HeldEmptied ==
  ASSUME Types, NEW t \in Codecs, held' = Set(held, t, <<>>)
  PROVE  /\ held' \in [Codecs -> Seq(Nat)] /\ held'[t] = <<>>
         /\ \A u \in Codecs \ {t} : held'[u] = held[u]
<1>1. held \in [Codecs -> Seq(Nat)] /\ <<>> \in Seq(Nat)
  BY DEF Types, DataOK
<1> QED BY <1>1 DEF Set

LEMMA ToOneType ==
  ASSUME NEW items \in Seq(ItemType), NEW d \in Dsts
  PROVE  SendsTo(items, d) \in Seq(Errand)
<1>1. \A i \in 1 .. Len(items) : [dst |-> d, item |-> items[i]] \in Errand
  BY DEF Errand
<1> QED BY <1>1 DEF SendsTo

LEMMA ItemsForType ==
  ASSUME NEW d, NEW nums \in Seq(Nat), NEW closing \in Seq(ItemType)
  PROVE  ItemsFor(d, nums, closing) \in Seq(ItemType)
<1>1. Frames(nums) \in Seq(ItemType) /\ <<>> \in Seq(ItemType)
  BY FramesType
<1> DEFINE a == IF d \in NoFrames THEN <<>> ELSE Frames(nums)
<1>2. a \in Seq(ItemType)
  BY <1>1
<1> HIDE DEF a
<1>3. a \o closing \in Seq(ItemType)
  BY <1>2
<1> QED BY <1>3 DEF ItemsFor, a

LEMMA FilterSendsType ==
  ASSUME NEW f \in Producers, NEW nums \in Seq(Nat), NEW closing \in Seq(ItemType)
  PROVE  /\ MaySend(f, FilterSends(f, nums, closing))
         /\ \A x \in Range(FilterSends(f, nums, closing)) :
              x.dst \in Range(DstsOf(f)) /\ x.item \in Range(ItemsFor(x.dst, nums, closing))
<1> DEFINE rows == [j \in DOMAIN DstsOf(f) |->
                      SendsTo(ItemsFor(DstsOf(f)[j], nums, closing), DstsOf(f)[j])]
           s == FilterSends(f, nums, closing)
<1>1. DstsOf(f) \in Seq(Dsts)
  BY OutputsType
<1>2. \A j \in DOMAIN DstsOf(f) : DstsOf(f)[j] \in Dsts
  BY <1>1
<1>3. \A j \in DOMAIN DstsOf(f) : rows[j] \in Seq(Errand)
  BY <1>2, ItemsForType, ToOneType
<1>4. DOMAIN rows = DOMAIN DstsOf(f) /\ rows \in Seq(Seq(Errand))
  <2>1. PICK ds \in Seq(Dsts) : ds = DstsOf(f)
    BY <1>1
  <2>2. PICK T : T = Seq(Errand)
    OBVIOUS
  <2>3. DOMAIN rows = 1 .. Len(ds) /\ Len(ds) \in Nat /\ rows = [j \in 1 .. Len(ds) |-> rows[j]]
    BY <2>1
  <2>4. \A j \in 1 .. Len(ds) : rows[j] \in T
    BY <1>3, <2>1, <2>2
  <2> HIDE DEF rows
  <2>5. rows \in Seq(T)
    BY <2>3, <2>4
  <2> QED BY <2>1, <2>2, <2>3, <2>5
<1>5. s = FlattenSeq(rows)
  BY DEF FilterSends
<1>6. \A j \in DOMAIN DstsOf(f) : \A x \in Range(rows[j]) :
        x.dst = DstsOf(f)[j] /\ x.item \in Range(ItemsFor(DstsOf(f)[j], nums, closing))
  BY DEF SendsTo, Range
<1> HIDE DEF rows, s
<1>7. s \in Seq(Errand)
  BY <1>4, <1>5, FlattenType
<1>8. ASSUME NEW x \in Range(s)
      PROVE  x.dst \in Range(DstsOf(f)) /\ x.item \in Range(ItemsFor(x.dst, nums, closing))
  <2>1. PICK j \in DOMAIN DstsOf(f) : x \in Range(rows[j])
    BY <1>4, <1>5, FlattenRange
  <2>2. DstsOf(f)[j] \in Range(DstsOf(f))
    BY DEF Range
  <2> QED BY <1>6, <2>1, <2>2
<1> QED BY <1>7, <1>8 DEF MaySend, DstsFrom, s

Around(u, e, v) == FlattenSeq(Append(u, e) \o v) = FlattenSeq(u) \o (e \o FlattenSeq(v))

LEMMA FlattenAround ==
  ASSUME NEW S, NEW u \in Seq(Seq(S)), NEW e \in Seq(S), NEW v \in Seq(Seq(S))
  PROVE  Around(u, e, v)
<1>1. FlattenSeq(u) \in Seq(S) /\ FlattenSeq(v) \in Seq(S)
  BY FlattenType
<1>2. Append(u, e) \in Seq(Seq(S))
  OBVIOUS
<1>3. FlattenSeq(Append(u, e) \o v) = FlattenSeq(Append(u, e)) \o FlattenSeq(v)
  BY <1>2, FlattenBoth
<1>4. FlattenSeq(Append(u, e)) = FlattenSeq(u) \o e
  BY FlattenAppend
<1>5. (FlattenSeq(u) \o e) \o FlattenSeq(v) = FlattenSeq(u) \o (e \o FlattenSeq(v))
  BY <1>1, JoinAssoc
<1> QED BY <1>3, <1>4, <1>5 DEF Around

LEMMA FlattenAt ==
  ASSUME NEW S, NEW s \in Seq(Seq(S)), NEW i \in DOMAIN s
  PROVE  \E a, b \in Seq(S) :
           /\ FlattenSeq(s) = a \o (s[i] \o b)
           /\ \A x \in Range(a) \cup Range(b) : \E j \in DOMAIN s \ {i} : x \in Range(s[j])
<1>1. PICK m \in Nat : m = Len(s) /\ i \in 1 .. m /\ DOMAIN s = 1 .. m
  <2>1. Len(s) \in Nat /\ DOMAIN s = 1 .. Len(s)
    OBVIOUS
  <2> QED BY <2>1
<1>2. PICK u \in Seq(Seq(S)), e \in Seq(S), v \in Seq(Seq(S)) :
        /\ u = SubSeq(s, 1, i - 1) /\ e = s[i] /\ v = SubSeq(s, i + 1, m)
        /\ s = Append(u, e) \o v
        /\ DOMAIN u = 1 .. i - 1 /\ \A j \in 1 .. i - 1 : u[j] = s[j]
        /\ DOMAIN v = 1 .. m - i /\ \A j \in 1 .. m - i : v[j] = s[i + j]
  <2>1. PICK l \in 0 .. m - 1 : l = i - 1 /\ l + 1 = i
    BY <1>1
  <2>2. /\ SubSeq(s, 1, l) \in Seq(Seq(S)) /\ s[l + 1] \in Seq(S)
        /\ SubSeq(s, 1, l + 1) = Append(SubSeq(s, 1, l), s[l + 1])
    BY <1>1, <2>1, PrefixStep
  <2>3. /\ SubSeq(s, i + 1, m) \in Seq(Seq(S)) /\ Len(SubSeq(s, i + 1, m)) = m - i
        /\ \A j \in 1 .. m - i : SubSeq(s, i + 1, m)[j] = s[i + j]
        /\ s = SubSeq(s, 1, i) \o SubSeq(s, i + 1, m)
    <3>1. PICK T : T = Seq(S)
      OBVIOUS
    <3>2. s \in Seq(T) /\ i \in 0 .. Len(s)
      BY <1>1, <3>1
    <3> QED BY <1>1, <3>1, <3>2, SplitSeq
  <2>4. Len(SubSeq(s, 1, l)) = l /\ \A j \in 1 .. l : SubSeq(s, 1, l)[j] = s[j]
    BY <1>1, <2>1
  <2>5. PICK u \in Seq(Seq(S)) : u = SubSeq(s, 1, l)
    BY <2>2
  <2>6. PICK v \in Seq(Seq(S)) : v = SubSeq(s, i + 1, m)
    BY <2>3
  <2>7. DOMAIN u = 1 .. l /\ \A j \in 1 .. l : u[j] = s[j]
    BY <2>4, <2>5
  <2>8. DOMAIN v = 1 .. m - i /\ \A j \in 1 .. m - i : v[j] = s[i + j]
    <3>1. PICK T : T = Seq(S)
      OBVIOUS
    <3>2. v \in Seq(T) /\ Len(v) = m - i
      BY <2>3, <2>6, <3>1
    <3>3. DOMAIN v = 1 .. m - i
      BY <3>2
    <3> QED BY <2>3, <2>6, <3>3
  <2>9. s = Append(u, s[i]) \o v
    BY <2>1, <2>2, <2>3, <2>5, <2>6
  <2>10. s[i] \in Seq(S)
    BY <2>1, <2>2
  <2> QED BY <2>1, <2>5, <2>6, <2>7, <2>8, <2>9, <2>10
<1>7. (\A j \in 1 .. i - 1 : u[j] = s[j]) /\ DOMAIN u = 1 .. i - 1
  BY <1>2
<1>8. (\A j \in 1 .. m - i : v[j] = s[i + j]) /\ DOMAIN v = 1 .. m - i
  BY <1>2
<1>3. FlattenSeq(u) \in Seq(S) /\ FlattenSeq(v) \in Seq(S)
  BY FlattenType
<1>4. FlattenSeq(s) = FlattenSeq(u) \o (e \o FlattenSeq(v))
  <2>1. Around(u, e, v)
    BY FlattenAround
  <2> QED BY <1>2, <2>1 DEF Around
<1>5. ASSUME NEW x \in Range(FlattenSeq(u)) PROVE \E j \in DOMAIN s \ {i} : x \in Range(s[j])
  <2>1. PICK j \in 1 .. i - 1 : x \in Range(u[j])
    BY <1>5, <1>7, FlattenRange
  <2>2. j \in DOMAIN s \ {i} /\ s[j] = u[j]
    <3>1. j \in 1 .. m /\ j # i
      BY <1>1
    <3> QED BY <1>1, <1>7, <3>1
  <2> QED BY <2>1, <2>2
<1>6. ASSUME NEW x \in Range(FlattenSeq(v)) PROVE \E j \in DOMAIN s \ {i} : x \in Range(s[j])
  <2>1. PICK j \in 1 .. m - i : x \in Range(v[j])
    BY <1>6, <1>8, FlattenRange
  <2>2. i + j \in DOMAIN s \ {i} /\ s[i + j] = v[j]
    <3>1. i + j \in 1 .. m /\ i + j # i
      BY <1>1
    <3> QED BY <1>1, <1>8, <3>1
  <2> QED BY <2>1, <2>2
<1> QED BY <1>2, <1>3, <1>4, <1>5, <1>6

(* Streams.                                                                *)
Once(q, y) == \E k \in DOMAIN q : q[k] = y /\ \A j \in DOMAIN q : j # k => q[j] # y

Absent(q, y) == \A k \in DOMAIN q : q[k] # y

LEMMA OnceJoin ==
  ASSUME NEW S, NEW q \in Seq(S), NEW r \in Seq(S), NEW y
  PROVE  /\ Absent(q, y) /\ Absent(r, y) => Absent(q \o r, y)
         /\ Once(q, y) /\ Absent(r, y) => Once(q \o r, y)
         /\ Absent(q, y) /\ Once(r, y) => Once(q \o r, y)
<1>1. PICK u \in Seq(S) : u = q \o r
  <2>1. q \o r \in Seq(S)
    OBVIOUS
  <2> QED BY <2>1, Zenon
<1>2. PICK a \in Nat : a = Len(q)
  OBVIOUS
<1>3. PICK b \in Nat : b = Len(r)
  OBVIOUS
<1>4. DOMAIN q = 1 .. a /\ DOMAIN r = 1 .. b
  BY <1>2, <1>3
<1>5. DOMAIN u = 1 .. a + b
  BY <1>1, <1>2, <1>3
<1>6. \A k \in 1 .. a : u[k] = q[k]
  BY <1>1, <1>2
<1>7. \A k \in 1 .. b : u[a + k] = r[k]
  BY <1>1, <1>2, <1>3
<1>8. \A k \in 1 .. a + b : k \in 1 .. a \/ (k - a \in 1 .. b /\ k = a + (k - a) /\ k \notin 1 .. a)
  OBVIOUS
<1>9. \A k \in 1 .. a + b : (k \in 1 .. a /\ u[k] = q[k]) \/ (k - a \in 1 .. b /\ k \notin 1 .. a /\ u[k] = r[k - a])
  BY <1>6, <1>7, <1>8
<1>10. Absent(q, y) /\ Absent(r, y) => Absent(u, y)
  BY <1>4, <1>5, <1>9 DEF Absent
<1>11. ASSUME Once(q, y), Absent(r, y) PROVE Once(u, y)
  <2>1. PICK k \in 1 .. a : q[k] = y /\ \A j \in 1 .. a : j # k => q[j] # y
    BY <1>4, <1>11 DEF Once
  <2>2. k \in 1 .. a + b /\ u[k] = y
    BY <1>6, <2>1
  <2>3. \A j \in 1 .. a + b : j # k => u[j] # y
    BY <1>4, <1>9, <1>11, <2>1 DEF Absent
  <2> QED BY <1>5, <2>2, <2>3 DEF Once
<1>12. ASSUME Absent(q, y), Once(r, y) PROVE Once(u, y)
  <2>1. PICK k \in 1 .. b : r[k] = y /\ \A j \in 1 .. b : j # k => r[j] # y
    BY <1>4, <1>12 DEF Once
  <2>2. a + k \in 1 .. a + b /\ u[a + k] = y
    BY <1>7, <2>1
  <2>3. \A j \in 1 .. a + b : j # a + k => j - a # k
    OBVIOUS
  <2>4. \A j \in 1 .. a + b : j # a + k => u[j] # y
    BY <1>4, <1>9, <1>12, <2>1, <2>3 DEF Absent
  <2> QED BY <1>5, <2>2, <2>4 DEF Once
<1> QED BY <1>1, <1>10, <1>11, <1>12

LEMMA FlattenOnce ==
  ASSUME NEW S, NEW s \in Seq(Seq(S)), NEW y, NEW i \in DOMAIN s, Once(s[i], y),
         \A j \in DOMAIN s : j # i => Absent(s[j], y)
  PROVE  Once(FlattenSeq(s), y)
<1>1. PICK g : Joins(S, s, g)
  BY FlattenJoins
<1> DEFINE m == Len(s)
           Ok(k) == IF k < i THEN Absent(g[k], y) ELSE Once(g[k], y)
           T == {k \in 0 .. m : Ok(k)}
<1>2. m \in Nat /\ i \in 1 .. m /\ DOMAIN s = 1 .. m
  OBVIOUS
<1>3. g \in [0 .. m -> Seq(S)] /\ g[0] = <<>> /\ \A k \in 1 .. m : g[k] = g[k - 1] \o s[k]
  BY <1>1 DEF Joins
<1>4. 0 \in T
  <2>1. Absent(<<>>, y)
    BY DEF Absent
  <2>2. 0 \in 0 .. m /\ 0 < i
    BY <1>2
  <2> QED BY <1>3, <2>1, <2>2
<1>5. ASSUME NEW k \in 0 .. m - 1, k \in T PROVE k + 1 \in T
  <2>1. PICK l \in 1 .. m : l = k + 1 /\ l - 1 = k /\ l \in 0 .. m /\ k \in 0 .. m
    BY <1>2
  <2>2. g[l] = g[k] \o s[l]
    <3> HIDE DEF m, Ok
    <3> QED BY <1>3, <2>1
  <2>3. PICK q \in Seq(S) : q = g[k]
    BY <1>3, <2>1
  <2>4. PICK r \in Seq(S) : r = s[l]
    BY <1>2, <2>1
  <2>5. /\ Absent(q, y) /\ Absent(r, y) => Absent(q \o r, y)
        /\ Once(q, y) /\ Absent(r, y) => Once(q \o r, y)
        /\ Absent(q, y) /\ Once(r, y) => Once(q \o r, y)
    BY OnceJoin
  <2>6. IF k < i THEN Absent(q, y) ELSE Once(q, y)
    BY <1>5, <2>3
  <2>7. IF l = i THEN Once(r, y) ELSE Absent(r, y)
    BY <1>2, <2>1, <2>4
  <2>8. \/ k < i /\ l < i /\ l # i
        \/ k < i /\ ~(l < i) /\ l = i
        \/ ~(k < i) /\ ~(l < i) /\ l # i
    BY <1>2, <2>1
  <2>9. g[l] = q \o r
    BY <2>2, <2>3, <2>4
  <2>10. IF l < i THEN Absent(q \o r, y) ELSE Once(q \o r, y)
    BY <2>5, <2>6, <2>7, <2>8, Zenon
  <2>11. Ok(l)
    BY <2>9, <2>10, Zenon
  <2> HIDE DEF Ok
  <2> QED BY <2>1, <2>11
<1>6. 0 .. m \subseteq T
  <2> HIDE DEF T, m
  <2> QED BY <1>2, <1>4, <1>5, BoundedInduction
<1>7. Once(g[m], y)
  BY <1>2, <1>6
<1>8. FlattenSeq(s) = g[m]
  BY <1>1, FlattenIs
<1> QED BY <1>7, <1>8

From(t, s, x) == t \in Producers /\ s \in DOMAIN Outs[t] /\ x \in Range(Outs[t][s])

LEMMA FromIs ==
  ASSUME NEW t, NEW s, NEW x, From(t, s, x)
  PROVE  /\ t \in Producers /\ t \in Threads /\ s \in DOMAIN Outs[t] /\ x \in DstsFrom(t) /\ x \in Dsts
         /\ x[1] \in Consumers /\ x[1] \in Threads /\ x[2] \in Ports[x[1]] /\ x = <<x[1], x[2]>>
         /\ x[1] \in TakersOf(t)
<1>1. t \in Producers /\ s \in DOMAIN Outs[t] /\ x \in Range(Outs[t][s])
  BY DEF From
<1>2. x \in DstsFrom(t) /\ x \in Dsts /\ x[1] \in TakersOf(t)
  BY <1>1, OutputsType DEF DstsFrom
<1> QED BY <1>1, <1>2, DstsType, KindsOf

LEMMA FromSome ==
  ASSUME NEW t, NEW x \in DstsFrom(t)
  PROVE  \E s : From(t, s, x)
<1>1. t \in Producers /\ x \in Range(DstsOf(t))
  BY DEF DstsFrom
<1>2. Outs[t] \in Seq(Seq(Dsts))
  BY <1>1, OutputsType
<1>3. PICK i \in DOMAIN Outs[t] : x \in Range(Outs[t][i])
  BY <1>1, <1>2, FlattenRange DEF DstsOf
<1> QED BY <1>1, <1>3 DEF From

(* A stream comes from one output, and from there once.                    *)
LEMMA FromOne ==
  ASSUME NEW t, NEW s, NEW x, From(t, s, x)
  PROVE  /\ \A u, i : From(u, i, x) => u = t /\ i = s
         /\ Once(Outs[t][s], x) /\ Once(DstsOf(t), x)
         /\ \A i \in DOMAIN Outs[t] : i # s => Absent(Outs[t][i], x)
         /\ \A u \in Threads \ {t} : x \notin DstsFrom(u)
<1>1. t \in Producers /\ s \in DOMAIN Outs[t]
  BY DEF From
<1>2. PICK k \in DOMAIN Outs[t][s] : Outs[t][s][k] = x
  BY DEF From, Range
<1>3. \A u \in Producers : \A i \in DOMAIN Outs[u] : \A j \in DOMAIN Outs[u][i] :
        Outs[u][i][j] = x => u = t /\ i = s /\ j = k
  <2>1. \A v, u \in Producers : \A i \in DOMAIN Outs[v], m \in DOMAIN Outs[u] :
          \A j \in DOMAIN Outs[v][i], l \in DOMAIN Outs[u][m] :
            Outs[v][i][j] = Outs[u][m][l] => v = u /\ i = m /\ j = l
    BY GraphAssumption
  <2> QED BY <1>1, <1>2, <2>1
<1>4. \A u, i : From(u, i, x) => u = t /\ i = s
  BY <1>3 DEF From, Range
<1>5. Once(Outs[t][s], x)
  BY <1>1, <1>2, <1>3 DEF Once
<1>6. \A i \in DOMAIN Outs[t] : i # s => Absent(Outs[t][i], x)
  BY <1>1, <1>3 DEF Absent
<1>7. Once(DstsOf(t), x)
  <2>1. Outs[t] \in Seq(Seq(Dsts))
    BY <1>1, OutputsType
  <2> QED BY <1>1, <1>5, <1>6, <2>1, FlattenOnce DEF DstsOf
<1>8. \A u \in Threads \ {t} : x \notin DstsFrom(u)
  BY <1>4, FromSome
<1> QED BY <1>4, <1>5, <1>6, <1>7, <1>8

(* What a filtergraph sends to one of its destinations.                    *)
SplitAt(s, r, d) ==
  \E a, b \in Seq(Errand) :
    s = a \o (SendsTo(r, d) \o b) /\ \A x \in Range(a) \cup Range(b) : x.dst # d

LEMMA FilterSendsSplit ==
  ASSUME NEW f \in Producers, NEW nums \in Seq(Nat), NEW closing \in Seq(ItemType), NEW d \in DstsFrom(f)
  PROVE  SplitAt(FilterSends(f, nums, closing), ItemsFor(d, nums, closing), d)
<1> DEFINE rows == [j \in DOMAIN DstsOf(f) |->
                      SendsTo(ItemsFor(DstsOf(f)[j], nums, closing), DstsOf(f)[j])]
<1>1. DstsOf(f) \in Seq(Dsts)
  BY OutputsType
<1>2. \A j \in DOMAIN DstsOf(f) : DstsOf(f)[j] \in Dsts
  BY <1>1
<1>3. \A j \in DOMAIN DstsOf(f) : rows[j] \in Seq(Errand)
  BY <1>2, ItemsForType, ToOneType
<1>4. DOMAIN rows = DOMAIN DstsOf(f) /\ rows \in Seq(Seq(Errand))
  <2>1. PICK ds \in Seq(Dsts) : ds = DstsOf(f)
    BY <1>1
  <2>2. PICK T : T = Seq(Errand)
    OBVIOUS
  <2>3. DOMAIN rows = 1 .. Len(ds) /\ Len(ds) \in Nat /\ rows = [j \in 1 .. Len(ds) |-> rows[j]]
    BY <2>1
  <2>4. \A j \in 1 .. Len(ds) : rows[j] \in T
    BY <1>3, <2>1, <2>2
  <2> HIDE DEF rows
  <2>5. rows \in Seq(T)
    BY <2>3, <2>4
  <2> QED BY <2>1, <2>2, <2>3, <2>5
<1>5. FilterSends(f, nums, closing) = FlattenSeq(rows)
  BY DEF FilterSends
<1>6. \A j \in DOMAIN DstsOf(f) : \A x \in Range(rows[j]) : x.dst = DstsOf(f)[j]
  BY DEF SendsTo, Range
<1>7. Once(DstsOf(f), d)
  <2>1. PICK s : From(f, s, d)
    BY FromSome
  <2> QED BY <2>1, FromOne
<1>8. PICK i \in DOMAIN DstsOf(f) : DstsOf(f)[i] = d /\ \A j \in DOMAIN DstsOf(f) : j # i => DstsOf(f)[j] # d
  BY <1>7 DEF Once
<1>9. rows[i] = SendsTo(ItemsFor(d, nums, closing), d)
  BY <1>8
<1> HIDE DEF rows
<1>10. PICK a \in Seq(Errand), b \in Seq(Errand) :
         /\ FlattenSeq(rows) = a \o (rows[i] \o b)
         /\ \A x \in Range(a) \cup Range(b) : \E j \in DOMAIN rows \ {i} : x \in Range(rows[j])
  BY <1>4, <1>8, FlattenAt
<1>11. \A x \in Range(a) \cup Range(b) : x.dst # d
  BY <1>4, <1>6, <1>8, <1>10
<1> QED BY <1>5, <1>9, <1>10, <1>11 DEF SplitAt

LEMMA CloseOutputType == close_output \in Seq(ItemType)
BY ItemsType DEF close_output

(* A filtergraph is fed.                                                   *)
LEMMA FeedType ==
  ASSUME Types, NEW f \in Filters, NEW s \in Seq(Nat), Feed(f, s)
  PROVE  TodoOK' /\ held' \in [Codecs -> Seq(Nat)]
<1>1. PutOut(f, s) \in Seq(Nat) /\ KeepBack(f, s) \in Seq(Nat) /\ <<>> \in Seq(ItemType)
  BY KindsOf, PutOutAndKeep
<1>2. TodoOK'
  BY <1>1, KindsOf, FilterSendsType, TodoSet, SameTypes DEF Feed, Types
<1>3. held' \in [Codecs -> Seq(Nat)]
  BY <1>1 DEF Feed, Types, DataOK, Set
<1> QED BY <1>2, <1>3

LEMMA HasFormatType ==
  ASSUME Types, NEW f \in Filters, NEW p \in Ports[f], HasFormat(f, p)
  PROVE  /\ formats' \in [Filters -> SUBSET Nat] /\ \A u \in Filters : formats'[u] \subseteq Ports[u]
         /\ formats'[f] = formats[f] \cup {p}
         /\ \A u \in Filters \ {f} : formats'[u] = formats[u]
<1>1. formats' = [formats EXCEPT ![f] = formats[f] \cup {p}]
  BY DEF HasFormat
<1>2. p \in Nat
  BY KindsOf, PortsType
<1> QED BY <1>1, <1>2 DEF Types, DataOK

LEMMA DemuxTypes ==
  ASSUME Types, NEW d \in Demuxers, DemuxNext(d)
  PROVE  Types'
<1>0. d \in Threads /\ d \in Producers /\ d \notin Consumers
  BY KindsOf
<1>1. ASSUME NEW s \in DOMAIN Outs[d], demux_read(d, s) PROVE Types'
  <2>1. /\ nb_read' = [nb_read EXCEPT ![d][s] = nb_read[d][s] + 1]
        /\ todo' = Set(todo, d, Sends(<<Data(nb_read'[d][s])>>, Outs[d][s]))
        /\ UNCHANGED <<pc, queueVars, loopVars, mainVars, historyVars, held, opened, formats, got_frame>>
    BY <1>1 DEF demux_read, InputUnchanged
  <2>2. /\ DOMAIN nb_read' = Demuxers /\ \A e \in Demuxers : nb_read'[e] \in [DOMAIN Outs[e] -> Nat]
        /\ nb_read'[d][s] \in Nat
    BY <2>1 DEF Types, DataOK
  <2>3. DataOK'
    BY <2>1, <2>2 DEF Types, DataOK, historyVars
  <2>4. Data(nb_read'[d][s]) \in ItemType
    BY <2>2, ItemsType
  <2>5. Outs[d][s] \in Seq(Dsts) /\ Range(Outs[d][s]) \subseteq DstsFrom(d)
    BY <1>0, OutputsType DEF DstsFrom
  <2>6. MaySend(d, Sends(<<Data(nb_read'[d][s])>>, Outs[d][s]))
    <3> DEFINE i == Data(nb_read'[d][s])
               dsts == Outs[d][s]
    <3>1. i \in ItemType /\ dsts \in Seq(Dsts) /\ Range(dsts) \subseteq DstsFrom(d)
      BY <2>4, <2>5
    <3> HIDE DEF i, dsts
    <3>2. Sends(<<i>>, dsts) = [j \in DOMAIN dsts |-> [dst |-> dsts[j], item |-> i]]
      BY <3>1, SendsOne
    <3>3. Sends(<<i>>, dsts) \in Seq(Errand)
      BY <3>1, <3>2, RowType
    <3>4. \A x \in Range(Sends(<<i>>, dsts)) : x.dst \in Range(dsts)
      BY <3>2 DEF Range
    <3>5. MaySend(d, Sends(<<i>>, dsts))
      BY <3>1, <3>3, <3>4 DEF MaySend
    <3> QED BY <3>5 DEF i, dsts
  <2>7. TodoOK'
    BY <1>0, <2>1, <2>6, TodoSet DEF Types
  <2>8. PcOK' /\ QueueOK' /\ FlagsOK' /\ LoopOK'
    BY <2>1, SameTypes DEF queueVars, loopVars
  <2> QED BY <2>3, <2>7, <2>8 DEF Types
<1>2. CASE demux_ends(d)
  <2>1. Ends(d, <<>>) /\ UNCHANGED <<queueVars, dataVars, loopVars, mainVars, historyVars>>
    BY <1>2 DEF demux_ends
  <2>2. PcOK' /\ TodoOK'
    BY <1>0, <2>1, EndsType, EmptyErrands
  <2>3. QueueOK' /\ FlagsOK' /\ LoopOK' /\ DataOK'
    BY <2>1, SameTypes DEF queueVars, loopVars, dataVars, historyVars
  <2> QED BY <2>2, <2>3 DEF Types
<1>3. CASE demux_loop(d)
  <2>1. /\ pc' = Set(pc, d, "flushing") /\ todo' = Set(todo, d, Flushes(d))
        /\ UNCHANGED <<queueVars, dataVars, loopVars, mainVars, historyVars>>
    BY <1>3 DEF demux_loop
  <2>2. PcOK'
    BY <1>0, <2>1 DEF Types, PcOK, Set
  <2>3. TodoOK'
    BY <1>0, <2>1, FlushesType, TodoSet DEF Types
  <2>4. QueueOK' /\ FlagsOK' /\ LoopOK' /\ DataOK'
    BY <2>1, SameTypes DEF queueVars, loopVars, dataVars, historyVars
  <2> QED BY <2>2, <2>3, <2>4 DEF Types
<1>4. CASE demux_flush_eof(d)
  <2> DEFINE x == Head(todo[d]).dst[1]
             p == Head(todo[d]).dst[2]
  <2>1. /\ todo[d] # <<>> /\ Ends(d, <<>>)
        /\ send_finished' = [send_finished EXCEPT ![x] = send_finished[x] \cup {p}]
        /\ UNCHANGED <<queue, recv_finished, dst_finished, dataVars, loopVars, mainVars, historyVars>>
    BY <1>4 DEF demux_flush_eof
  <2>2. x \in Consumers /\ p \in Ports[x] /\ p \in Nat
    BY <1>0, <2>1, SendHead
  <2> HIDE DEF x, p
  <2>3. PcOK' /\ TodoOK'
    BY <1>0, <2>1, EndsType, EmptyErrands
  <2>4. FlagsOK'
    BY <2>1, <2>2 DEF Types, FlagsOK
  <2>5. QueueOK' /\ LoopOK' /\ DataOK'
    BY <2>1, SameTypes DEF loopVars, dataVars, historyVars
  <2> QED BY <2>3, <2>4, <2>5 DEF Types
<1>5. CASE demux_flush(d)
  <2> DEFINE x == Head(todo[d]).dst[1]
             p == Head(todo[d]).dst[2]
  <2>1. /\ todo[d] # <<>>
        /\ queue' = [queue EXCEPT ![x] = Append(queue[x], [port |-> p, item |-> Flush])]
        /\ \/ pc' = Set(pc, d, "waiting") /\ UNCHANGED todo
           \/ todo' = Set(todo, d, Tail(todo[d])) /\ UNCHANGED pc
        /\ UNCHANGED <<send_finished, recv_finished, dst_finished, dataVars, loopVars, mainVars, historyVars>>
    BY <1>5 DEF demux_flush
  <2>2. x \in Consumers /\ p \in Ports[x]
    BY <1>0, <2>1, SendHead
  <2> HIDE DEF x, p
  <2>3. QueueOK'
    BY <2>1, <2>2, AppendType, ItemsType
  <2>4. PcOK'
    BY <2>1, PcSet, SameTypes
  <2>5. TodoOK'
    <3>1. CASE todo' = Set(todo, d, Tail(todo[d]))
      BY <1>0, <2>1, <3>1, TailType DEF Set
    <3>2. CASE UNCHANGED todo
      BY <3>2, SameTypes
    <3> QED BY <2>1, <3>1, <3>2
  <2>6. FlagsOK' /\ LoopOK' /\ DataOK'
    BY <2>1, SameTypes DEF loopVars, dataVars, historyVars
  <2> QED BY <2>3, <2>4, <2>5, <2>6, SMTT(20) DEF Types
<1>6. CASE demux_end_ts(d)
  <2> DEFINE x == Head(todo[d]).dst[1]
  <2>1. /\ pc[d] = "waiting"
        /\ \/ /\ queue_end_ts' = Set(queue_end_ts, x, <<>>) /\ pc' = Set(pc, d, "flushing")
              /\ todo' = Set(todo, d, Tail(todo[d])) /\ queue_end_ts[x] # <<>>
           \/ Ends(d, <<>>) /\ UNCHANGED queue_end_ts
        /\ UNCHANGED <<queueVars, dataVars, loop, expect_end_ts, end_ts_closed, last_frame, mainVars, historyVars>>
    BY <1>6 DEF demux_end_ts
  <2> HIDE DEF x
  <2>2. QueueOK' /\ FlagsOK' /\ DataOK'
    BY <2>1, SameTypes DEF queueVars, dataVars, historyVars
  <2>3. LoopOK'
    <3>1. queue_end_ts \in [Decs -> Seq(Nat)] /\ <<>> \in Seq(Nat)
      BY DEF Types, LoopOK
    <3>2. queue_end_ts' \in [Decs -> Seq(Nat)]
      BY <2>1, <3>1 DEF Set
    <3> QED BY <2>1, <3>2 DEF Types, LoopOK
  <2>4. CASE Ends(d, <<>>)
    <3>1. PcOK' /\ TodoOK'
      BY <1>0, <2>4, EndsType, EmptyErrands
    <3> QED BY <2>2, <2>3, <3>1 DEF Types
  <2>5. CASE pc' = Set(pc, d, "flushing") /\ todo' = Set(todo, d, Tail(todo[d]))
    <3>1. PcOK'
      BY <1>0, <2>5 DEF Types, PcOK, Set
    <3>2. MaySend(d, Tail(todo[d]))
      <4>1. CASE todo[d] = <<>>
        <5>1. Tail(todo[d]) = <<>>
          BY <4>1
        <5> QED BY <5>1, EmptyErrands
      <4>2. CASE todo[d] # <<>>
        BY <1>0, <4>2, SendHead DEF MaySend, Types, TodoOK
      <4> QED BY <4>1, <4>2
    <3>3. TodoOK'
      BY <1>0, <2>5, <3>2, TodoSet DEF Types
    <3> QED BY <2>2, <2>3, <3>1, <3>3 DEF Types
  <2> QED BY <2>1, <2>4, <2>5
<1>7. CASE seek_to_start(d)
  <2>1. /\ pc' = Set(pc, d, "receiving")
        /\ UNCHANGED <<todo, queueVars, dataVars, expect_end_ts, queue_end_ts, end_ts_closed, last_frame, historyVars>>
    BY <1>7 DEF seek_to_start
  <2>2. PcOK'
    BY <1>0, <2>1 DEF Types, PcOK, Set
  <2>3. TodoOK' /\ QueueOK' /\ FlagsOK' /\ LoopOK' /\ DataOK'
    BY <2>1, SameTypes DEF queueVars, dataVars, historyVars
  <2> QED BY <2>2, <2>3 DEF Types
<1> QED BY <1>1, <1>2, <1>3, <1>4, <1>5, <1>6, <1>7 DEF DemuxNext

LEMMA DecTypes ==
  ASSUME Types, NEW x \in Decs, DecNext(x)
  PROVE  Types'
<1>0. x \in Threads /\ x \in Producers /\ x \in Consumers /\ x \in Codecs
  BY KindsOf
<1>1. CASE dec_end_ts(x)
  <2>1. /\ queue_end_ts' = Set(queue_end_ts, x, <<last_frame[x]>>) /\ expect_end_ts' = expect_end_ts \ {x}
        /\ UNCHANGED <<pc, todo, queueVars, dataVars, loop, end_ts_closed, last_frame, mainVars, historyVars>>
    BY <1>1 DEF dec_end_ts
  <2>2. LoopOK'
    BY <2>1 DEF Types, LoopOK, Set
  <2>3. PcOK' /\ TodoOK' /\ QueueOK' /\ FlagsOK' /\ DataOK'
    BY <2>1, SameTypes DEF queueVars, dataVars, historyVars
  <2> QED BY <2>2, <2>3 DEF Types
<1>2. CASE dec_packet(x)
  <2> DEFINE n == Got(x).item.num
  <2>1. /\ Receives(x, "data") /\ Process(x) /\ LastOf(Out(x, n), x) /\ DecUnchanged
        /\ UNCHANGED <<pc, send_finished, recv_finished, dst_finished, expect_end_ts>>
    BY <1>2 DEF dec_packet
  <2>2. QueueOK' /\ n \in Nat
    BY <1>0, <2>1, ReceivesType
  <2>3. TodoOK' /\ held' \in [Codecs -> Seq(Nat)]
    BY <1>0, <2>1, <2>2, ProcessType
  <2>4. Out(x, n) \in Seq(Nat)
    BY <1>0, <2>2, OutAndKeep
  <2> HIDE DEF n
  <2>5. LoopOK'
    BY <2>1, <2>4, LastFrameType DEF DecUnchanged
  <2>6. DataOK'
    BY <2>1, <2>3 DEF DecUnchanged, historyVars, Types, DataOK
  <2>7. PcOK' /\ FlagsOK'
    BY <2>1, SameTypes
  <2> QED BY <2>2, <2>3, <2>5, <2>6, <2>7 DEF Types
<1>3. CASE dec_flush(x)
  <2>1. /\ Receives(x, "flush") /\ todo' = Set(todo, x, Flushed(x)) /\ held' = Set(held, x, <<>>)
        /\ LastOf(held[x], x) /\ expect_end_ts' = expect_end_ts \cup ({x} \cap EndTs) /\ DecUnchanged
        /\ UNCHANGED <<pc, send_finished, recv_finished, dst_finished>>
    BY <1>3 DEF dec_flush
  <2>2. QueueOK'
    BY <1>0, <2>1, ReceivesType
  <2>3. TodoOK'
    BY <1>0, <2>1, FlushedType, TodoSet DEF Types
  <2>4. LoopOK'
    <3>1. held[x] \in Seq(Nat)
      BY <1>0 DEF Types, DataOK
    <3>2. expect_end_ts' \subseteq EndTs
      BY <2>1 DEF Types, LoopOK
    <3> QED BY <2>1, <3>1, <3>2, LastFrameType DEF DecUnchanged
  <2>5. DataOK'
    BY <1>0, <2>1, HeldEmptied DEF DecUnchanged, historyVars, Types, DataOK
  <2>6. PcOK' /\ FlagsOK'
    BY <2>1, SameTypes
  <2> QED BY <2>2, <2>3, <2>4, <2>5, <2>6 DEF Types
<1>4. CASE dec_eof(x)
  <2>1. /\ ReceivesEof(x) /\ Ends(x, Flushed(x) \o Sends(<<EofFrame>>, DstsOf(x)))
        /\ held' = Set(held, x, <<>>) /\ LastOf(held[x], x) /\ DecUnchanged
        /\ UNCHANGED <<send_finished, dst_finished, expect_end_ts>>
    BY <1>4 DEF dec_eof
  <2>2. /\ QueueOK' /\ recv_finished' \in [Consumers -> SUBSET Nat]
        /\ \A u \in Consumers : recv_finished'[u] \subseteq Ports[u]
    BY <1>0, <2>1, ReceivesEofType
  <2>3. FlagsOK'
    BY <2>1, <2>2 DEF Types, FlagsOK
  <2>4. <<EofFrame>> \in Seq(ItemType)
    BY ItemsType
  <2>5. PcOK' /\ TodoOK'
    BY <1>0, <2>1, <2>4, FlushedType, SendsToOutputs, MaySendBoth, EndsType
  <2>6. LoopOK'
    <3>1. held[x] \in Seq(Nat)
      BY <1>0 DEF Types, DataOK
    <3> QED BY <2>1, <3>1, LastFrameType DEF DecUnchanged, Types, LoopOK
  <2>7. DataOK'
    BY <1>0, <2>1, HeldEmptied DEF DecUnchanged, historyVars, Types, DataOK
  <2> QED BY <2>2, <2>3, <2>5, <2>6, <2>7 DEF Types
<1>5. CASE dec_exit(x)
  <2>1. Ends(x, <<>>) /\ UNCHANGED <<queueVars, dataVars, loopVars, mainVars, historyVars>>
    BY <1>5 DEF dec_exit
  <2>2. PcOK' /\ TodoOK'
    BY <1>0, <2>1, EndsType, EmptyErrands
  <2>3. QueueOK' /\ FlagsOK' /\ LoopOK' /\ DataOK'
    BY <2>1, SameTypes DEF queueVars, loopVars, dataVars, historyVars
  <2> QED BY <2>2, <2>3 DEF Types
<1> QED BY <1>1, <1>2, <1>3, <1>4, <1>5 DEF DecNext

LEMMA FilterTypes ==
  ASSUME Types, NEW f \in Filters, FilterNext(f)
  PROVE  Types'
<1>0. f \in Threads /\ f \in Producers /\ f \in Consumers /\ f \in Codecs
  BY KindsOf
<1>1. CASE filter_frame(f)
  <2> DEFINE s == Append(held[f], Got(f).item.num)
  <2>1. /\ Receives(f, "data") /\ HasFormat(f, Got(f).port) /\ Feed(f, s)
        /\ UNCHANGED <<pc, send_finished, recv_finished, dst_finished, opened, nb_read, got_frame, loopVars, failed>>
    BY <1>1 DEF filter_frame, FilterUnchanged
  <2>2. QueueOK' /\ Got(f).item.num \in Nat /\ Got(f).port \in Ports[f]
    BY <1>0, <2>1, ReceivesType
  <2>3. s \in Seq(Nat)
    BY <1>0, <2>2 DEF Types, DataOK
  <2> HIDE DEF s
  <2>4. TodoOK' /\ held' \in [Codecs -> Seq(Nat)]
    BY <2>1, <2>3, FeedType
  <2>5. DataOK'
    BY <2>1, <2>2, <2>4, HasFormatType DEF Types, DataOK
  <2>6. PcOK' /\ FlagsOK' /\ LoopOK'
    BY <2>1, SameTypes DEF loopVars
  <2> QED BY <2>2, <2>4, <2>5, <2>6 DEF Types
<1>2. CASE filter_receive_finish(f)
  <2>1. /\ Receives(f, "data") /\ HasFormat(f, Got(f).port)
        /\ recv_finished' = [recv_finished EXCEPT ![f] = recv_finished[f] \cup {Got(f).port}]
        /\ UNCHANGED <<pc, todo, send_finished, dst_finished, held, got_frame, opened, nb_read, loopVars, failed>>
    BY <1>2 DEF filter_receive_finish, FilterUnchanged
  <2>2. QueueOK' /\ Got(f).port \in Ports[f] /\ Got(f).port \in Nat
    BY <1>0, <2>1, ReceivesType, PortsType
  <2>3. FlagsOK'
    <3> DEFINE p == Got(f).port
    <3> HIDE DEF p
    <3> QED BY <1>0, <2>1, <2>2 DEF Types, FlagsOK, p
  <2>4. DataOK'
    BY <2>1, <2>2, HasFormatType DEF Types, DataOK
  <2>5. PcOK' /\ TodoOK' /\ LoopOK'
    BY <2>1, SameTypes DEF loopVars
  <2> QED BY <2>2, <2>3, <2>4, <2>5 DEF Types
<1>3. CASE filter_eof_frame(f)
  <2>1. /\ Receives(f, "eof") \/ Receives(f, "empty")
        /\ HasFormat(f, Got(f).port)
        /\ \/ /\ todo' = Set(todo, f, FilterSends(f, held[f], close_output))
              /\ held' = Set(held, f, <<>>)
           \/ Feed(f, held[f])
        /\ UNCHANGED <<pc, send_finished, recv_finished, dst_finished, got_frame, opened, nb_read, loopVars, failed>>
    BY <1>3 DEF filter_eof_frame, FilterUnchanged
  <2>2. QueueOK' /\ Got(f).port \in Ports[f]
    BY <1>0, <2>1, ReceivesType
  <2>3. held[f] \in Seq(Nat)
    BY <1>0 DEF Types, DataOK
  <2>4. TodoOK' /\ held' \in [Codecs -> Seq(Nat)]
    <3>1. CASE todo' = Set(todo, f, FilterSends(f, held[f], close_output)) /\ held' = Set(held, f, <<>>)
      BY <1>0, <2>3, <3>1, FilterSendsType, CloseOutputType, TodoSet, HeldEmptied DEF Types
    <3> QED BY <2>1, <2>3, <3>1, FeedType
  <2>5. DataOK'
    BY <2>1, <2>2, <2>4, HasFormatType DEF Types, DataOK
  <2>6. PcOK' /\ FlagsOK' /\ LoopOK'
    BY <2>1, SameTypes DEF loopVars
  <2> QED BY <2>2, <2>4, <2>5, <2>6 DEF Types
<1>4. CASE filter_stream_eof(f)
  <2>1. /\ ReceivesEof(f)
        /\ UNCHANGED <<pc, todo, send_finished, dst_finished, held, formats, got_frame, opened, nb_read, loopVars, failed>>
    BY <1>4 DEF filter_stream_eof, FilterUnchanged
  <2>2. /\ QueueOK' /\ recv_finished' \in [Consumers -> SUBSET Nat]
        /\ \A u \in Consumers : recv_finished'[u] \subseteq Ports[u]
    BY <1>0, <2>1, ReceivesEofType
  <2>3. FlagsOK'
    BY <2>1, <2>2 DEF Types, FlagsOK
  <2>4. PcOK' /\ TodoOK' /\ DataOK' /\ LoopOK'
    BY <2>1, SameTypes DEF loopVars
  <2> QED BY <2>2, <2>3, <2>4 DEF Types
<1>5. CASE filter_ends(f)
  <2>1. /\ \/ Ends(f, FilterSends(f, <<>>, close_output))
           \/ Ends(f, <<>>)
        /\ UNCHANGED <<queueVars, dataVars, loopVars, mainVars, historyVars>>
    BY <1>5 DEF filter_ends
  <2>2. <<>> \in Seq(Nat)
    OBVIOUS
  <2>3. MaySend(f, FilterSends(f, <<>>, close_output))
    BY <1>0, <2>2, FilterSendsType, CloseOutputType
  <2>4. PcOK' /\ TodoOK'
    BY <1>0, <2>1, <2>3, EndsType, EmptyErrands
  <2>5. QueueOK' /\ FlagsOK' /\ LoopOK' /\ DataOK'
    BY <2>1, SameTypes DEF queueVars, loopVars, dataVars, historyVars
  <2> QED BY <2>4, <2>5 DEF Types
<1> QED BY <1>1, <1>2, <1>3, <1>4, <1>5 DEF FilterNext

LEMMA EncTypes ==
  ASSUME Types, NEW e \in Encs, EncNext(e)
  PROVE  Types'
<1>0. e \in Threads /\ e \in Producers /\ e \in Consumers /\ e \in Codecs
  BY KindsOf
<1>1. CASE enc_frame(e)
  <2>1. /\ Receives(e, "data") /\ Process(e)
        /\ UNCHANGED <<pc, send_finished, recv_finished, dst_finished, failed, opened, formats, got_frame, nb_read, loopVars>>
    BY <1>1 DEF enc_frame, EncUnchanged
  <2>2. QueueOK' /\ Got(e).item.num \in Nat
    BY <1>0, <2>1, ReceivesType
  <2>3. TodoOK' /\ held' \in [Codecs -> Seq(Nat)]
    BY <1>0, <2>1, <2>2, ProcessType
  <2>4. DataOK'
    BY <2>1, <2>3 DEF Types, DataOK
  <2>5. PcOK' /\ FlagsOK' /\ LoopOK'
    BY <2>1, SameTypes DEF loopVars
  <2> QED BY <2>2, <2>3, <2>4, <2>5 DEF Types
<1>2. CASE enc_finishes(e)
  <2>1. /\ Receives(e, "data") /\ Ends(e, Flushed(e)) /\ held' = Set(held, e, <<>>)
        /\ UNCHANGED <<send_finished, recv_finished, dst_finished, failed, opened, formats, got_frame, nb_read, loopVars>>
    BY <1>2 DEF enc_finishes, EncUnchanged
  <2>2. QueueOK'
    BY <1>0, <2>1, ReceivesType
  <2>3. PcOK' /\ TodoOK'
    BY <1>0, <2>1, FlushedType, EndsType
  <2>4. DataOK'
    BY <1>0, <2>1, HeldEmptied DEF Types, DataOK
  <2>5. FlagsOK' /\ LoopOK'
    BY <2>1, SameTypes DEF loopVars
  <2> QED BY <2>2, <2>3, <2>4, <2>5 DEF Types
<1>3. CASE enc_eof(e)
  <2>1. /\ ReceivesEof(e) /\ held' = Set(held, e, <<>>)
        /\ Ends(e, Flushed(e)) \/ Ends(e, <<>>)
        /\ failed' \subseteq failed \cup {e}
        /\ UNCHANGED <<send_finished, dst_finished, opened, formats, got_frame, nb_read, loopVars>>
    BY <1>3 DEF enc_eof, EncUnchanged
  <2>2. /\ QueueOK' /\ recv_finished' \in [Consumers -> SUBSET Nat]
        /\ \A u \in Consumers : recv_finished'[u] \subseteq Ports[u]
    BY <1>0, <2>1, ReceivesEofType
  <2>3. FlagsOK'
    BY <2>1, <2>2 DEF Types, FlagsOK
  <2>4. PcOK' /\ TodoOK'
    BY <1>0, <2>1, FlushedType, EmptyErrands, EndsType
  <2>5. DataOK'
    BY <1>0, <2>1, HeldEmptied DEF Types, DataOK
  <2>6. LoopOK'
    BY <2>1, SameTypes DEF loopVars
  <2> QED BY <2>2, <2>3, <2>4, <2>5, <2>6 DEF Types
<1> QED BY <1>1, <1>2, <1>3 DEF EncNext

LEMMA MuxTypes ==
  ASSUME Types, NEW m \in Muxes, MuxNext(m)
  PROVE  Types'
<1>0. m \in Threads /\ m \in Consumers
  BY KindsOf
<1>1. CASE mux_packet(m)
  <2>1. /\ Receives(m, "data")
        /\ UNCHANGED <<pc, todo, recv_finished, send_finished, dst_finished, dataVars, loopVars, failed>>
    BY <1>1 DEF mux_packet, MuxUnchanged
  <2>2. QueueOK'
    BY <1>0, <2>1, ReceivesType
  <2>3. PcOK' /\ TodoOK' /\ FlagsOK' /\ DataOK' /\ LoopOK'
    BY <2>1, SameTypes DEF dataVars, loopVars
  <2> QED BY <2>2, <2>3 DEF Types
<1>2. CASE mux_receive_finish(m)
  <2>1. /\ Receives(m, "data")
        /\ recv_finished' = [recv_finished EXCEPT ![m] = recv_finished[m] \cup {Got(m).port}]
        /\ UNCHANGED <<pc, todo, send_finished, dst_finished, dataVars, loopVars, failed>>
    BY <1>2 DEF mux_receive_finish, MuxUnchanged
  <2>2. QueueOK' /\ Got(m).port \in Ports[m] /\ Got(m).port \in Nat
    BY <1>0, <2>1, ReceivesType, PortsType
  <2>3. FlagsOK'
    <3> DEFINE p == Got(m).port
    <3> HIDE DEF p
    <3> QED BY <1>0, <2>1, <2>2 DEF Types, FlagsOK, p
  <2>4. PcOK' /\ TodoOK' /\ DataOK' /\ LoopOK'
    BY <2>1, SameTypes DEF dataVars, loopVars
  <2> QED BY <2>2, <2>3, <2>4 DEF Types
<1>3. CASE mux_finishes(m)
  <2>1. /\ Receives(m, "data") /\ Ends(m, <<>>)
        /\ UNCHANGED <<recv_finished, send_finished, dst_finished, dataVars, loopVars, failed>>
    BY <1>3 DEF mux_finishes, MuxUnchanged
  <2>2. QueueOK'
    BY <1>0, <2>1, ReceivesType
  <2>3. PcOK' /\ TodoOK'
    BY <1>0, <2>1, EmptyErrands, EndsType
  <2>4. FlagsOK' /\ DataOK' /\ LoopOK'
    BY <2>1, SameTypes DEF dataVars, loopVars
  <2> QED BY <2>2, <2>3, <2>4 DEF Types
<1>4. CASE mux_eof(m)
  <2>1. /\ \/ ReceivesEof(m) /\ UNCHANGED <<pc, todo>>
           \/ Ends(m, <<>>) /\ UNCHANGED <<queue, recv_finished>>
        /\ UNCHANGED <<send_finished, dst_finished, dataVars, loopVars, failed>>
    BY <1>4 DEF mux_eof, MuxUnchanged
  <2>2. CASE ReceivesEof(m) /\ UNCHANGED <<pc, todo>>
    <3>1. /\ QueueOK' /\ recv_finished' \in [Consumers -> SUBSET Nat]
          /\ \A u \in Consumers : recv_finished'[u] \subseteq Ports[u]
      BY <1>0, <2>2, ReceivesEofType
    <3>2. FlagsOK'
      BY <2>1, <3>1 DEF Types, FlagsOK
    <3>3. PcOK' /\ TodoOK' /\ DataOK' /\ LoopOK'
      BY <2>1, <2>2, SameTypes DEF dataVars, loopVars
    <3> QED BY <3>1, <3>2, <3>3 DEF Types
  <2>3. CASE Ends(m, <<>>) /\ UNCHANGED <<queue, recv_finished>>
    <3>1. PcOK' /\ TodoOK'
      BY <1>0, <2>3, EmptyErrands, EndsType
    <3>2. QueueOK' /\ FlagsOK' /\ DataOK' /\ LoopOK'
      BY <2>1, <2>3, SameTypes DEF dataVars, loopVars
    <3> QED BY <3>1, <3>2 DEF Types
  <2> QED BY <2>1, <2>2, <2>3
<1> QED BY <1>1, <1>2, <1>3, <1>4 DEF MuxNext

LEMMA NextTypes ==
  ASSUME Types, [Next]_vars
  PROVE  Types'
<1>1. CASE UNCHANGED vars
  BY <1>1, SameTypes DEF vars, queueVars, dataVars, loopVars, historyVars, Types
<1>2. CASE sch_stop \/ StopJoin
  <2>1. UNCHANGED <<pc, todo, queueVars, dataVars, loopVars, historyVars>>
    BY <1>2 DEF sch_stop, StopJoin
  <2> QED BY <2>1, SameTypes DEF queueVars, dataVars, loopVars, historyVars, Types
<1>3. ASSUME NEW t \in Threads, ThreadNext(t) PROVE Types'
  <2>1. CASE t \in Consumers /\ tq_drop(t)
    <3>1. /\ queue' = Set(queue, t, <<>>)
          /\ UNCHANGED <<pc, todo, send_finished, recv_finished, dst_finished, dataVars, loopVars, historyVars>>
      BY <2>1 DEF tq_drop
    <3>2. QueueOK'
      BY <2>1, <3>1, EmptiedType
    <3> QED BY <3>1, <3>2, SameTypes DEF dataVars, loopVars, historyVars, Types
  <2> QED BY <1>3, <2>1, SendTypes, CleanupTypes, DemuxTypes, DecTypes, FilterTypes, EncTypes, MuxTypes
          DEF ThreadNext
<1> QED BY <1>1, <1>2, <1>3, FailsTypes DEF Next

-----------------------------------------------------------------------------
(* EncodersOpened: when a filtergraph or an encoder is to get nothing more *)
(* on a stream, it has got something, or something failed on the way there. *)
PortsOf(s) == {x.port : x \in Range(s)}

Touched(c, p) ==
  IF c \in Encs THEN c \in opened
                ELSE p \in formats[c] \/ pc[c] # "receiving" \/ p \in PortsOf(queue[c])
FailedUp(d) == Path(d) \cap failed # {}
Reached(d)  == Touched(d[1], d[2]) \/ FailedUp(d)

(* Destinations that get frames.                                           *)
FrameDsts == {d \in Dsts : d[1] \in Encs \cup Filters}

(* What reaches a destination, and what does so whatever is sent before.   *)
Opening == ItemType \ {Close}
Lasting == ItemType \ {Close, Empty}
Brings(x, d, I)    == x.dst = d /\ x.item \in I
WillBring(s, d, I) == \E i \in DOMAIN s : Brings(s[i], d, I)
ClosesLate(s, d, I) ==
  \A i \in DOMAIN s :
    s[i].dst = d /\ s[i].item = Close => \E j \in 1 .. i - 1 : Brings(s[j], d, I)
NoData(s) == \A x \in Range(s) : x.item.kind # "data"

(* A destination is closed after it was reached.                           *)
ClosedInv ==
  \A d \in FrameDsts :
    /\ d \in dst_finished <=> d[2] \in send_finished[d[1]]
    /\ d \in dst_finished => Reached(d)

(* An input of which a filtergraph has received nothing yet.               *)
Fresh(f, p)   == p \in Ports[f] \ formats[f] /\ pc[f] = "receiving"
FreshAt(f, p) == p \in recv_finished[f] => FailedUp(<<f, p>>) /\ p \notin PortsOf(queue[f])
FreshOf(f)    == \A p \in Ports[f] : Fresh(f, p) => FreshAt(f, p)
FreshInv      == \A f \in Filters : FreshOf(f)

(* A decoder or filtergraph has reached where it sends to, or will do so   *)
(* before it closes it: with what is not left out once a frame was sent,   *)
(* or before it has sent any.                                              *)
WillReach(t, d) ==
  /\ pc[t] # "cleanup"
  /\ \/ WillBring(todo[t], d, Lasting) /\ ClosesLate(todo[t], d, Lasting)
     \/ /\ t \notin got_frame /\ (t \in Filters => NoData(todo[t]))
        /\ ClosesLate(todo[t], d, Opening)
        /\ pc[t] = "draining" => WillBring(todo[t], d, Opening)
ReachesAll(t) == \A d \in DstsFrom(t) : Reached(d) \/ WillReach(t, d)
OnTheWayInv == \A t \in Decs \cup Filters : ReachesAll(t)

EncInv == ClosedInv /\ FreshInv /\ OnTheWayInv

LEMMA FrameDstsIs ==
  /\ \A t \in Decs \cup Filters : DstsFrom(t) \subseteq FrameDsts
  /\ \A t \in Threads : \A d \in DstsFrom(t) : d \in FrameDsts => t \in Decs \cup Filters
<1>1. \A t \in Producers : \A d \in DstsFrom(t) : d \in Dsts /\ d[1] \in TakersOf(t)
  BY OutputsType DEF DstsFrom
<1>2. ASSUME NEW t \in Decs \cup Filters PROVE t \in Producers /\ TakersOf(t) \subseteq Encs \cup Filters
  BY Kinds, KindsOf DEF TakersOf, Consumers
<1>3. ASSUME NEW t \in Threads, NEW d \in DstsFrom(t), d \in FrameDsts
      PROVE  t \in Decs \cup Filters
  <2>1. t \in Producers
    BY DEF DstsFrom
  <2>2. d[1] \in Encs \cup Filters /\ d[1] \in TakersOf(t)
    BY <1>1, <1>3, <2>1 DEF FrameDsts
  <2>3. t \notin Demuxers /\ t \notin Encs
    BY <2>2, Kinds, KindsOf DEF TakersOf, Consumers
  <2> QED BY <2>1, <2>3 DEF Producers
<1> QED BY <1>1, <1>2, <1>3 DEF FrameDsts

(* The way to a destination.                                               *)
LEMMA PathStart ==
  ASSUME NEW t, NEW d \in DstsFrom(t)
  PROVE  t \in Path(d)
<1>1. t \in Producers /\ d \in Range(DstsOf(t))
  BY DEF DstsFrom
<1>2. \A T : t \in ProducersOf({d} \cup InputsOf(T))
  BY <1>1 DEF ProducersOf
<1> QED BY <1>1, <1>2 DEF Path, Upstream

LEMMA PathUp ==
  ASSUME NEW f \in Consumers, NEW d \in DstsFrom(f), NEW p \in Ports[f]
  PROVE  Path(<<f, p>>) \subseteq Path(d)
<1>1. f \in Path(d)
  BY PathStart
<1>2. SUFFICES ASSUME NEW t \in Path(<<f, p>>), NEW T \in SUBSET Producers, Upstream(d, T)
               PROVE  t \in T
  BY DEF Path
<1>3. f \in T
  BY <1>1, <1>2 DEF Path
<1>4. <<f, p>> \in InputsOf(T)
  BY <1>3 DEF InputsOf
<1>5. ProducersOf({<<f, p>>} \cup InputsOf(T)) \subseteq ProducersOf({d} \cup InputsOf(T))
  BY <1>4 DEF ProducersOf
<1>6. Upstream(<<f, p>>, T)
  BY <1>2, <1>5 DEF Upstream
<1> QED BY <1>6 DEF Path

(* Nothing that was reached is lost sight of.                              *)
Grows ==
  /\ opened \subseteq opened' /\ failed \subseteq failed'
  /\ \A f \in Filters :
       /\ formats[f] \subseteq formats'[f]
       /\ \A p \in Ports[f] :
            \/ p \in formats'[f] \/ pc'[f] # "receiving"
            \/ pc[f] = "receiving" /\ (p \in PortsOf(queue[f]) => p \in PortsOf(queue'[f]))

LEMMA ReachedStays ==
  ASSUME Grows, NEW d \in FrameDsts, Reached(d)
  PROVE  Reached(d)'
<1>1. d[1] \in Encs \/ (d[1] \in Filters /\ d[1] \notin Encs /\ d[2] \in Ports[d[1]])
  BY DstsType DEF FrameDsts
<1>2. FailedUp(d) => FailedUp(d)'
  BY DEF FailedUp, Grows
<1>3. Touched(d[1], d[2]) => Touched(d[1], d[2])'
  BY <1>1 DEF Touched, Grows
<1> QED BY <1>2, <1>3 DEF Reached

LEMMA FailedStays ==
  ASSUME Grows, NEW d, FailedUp(d)
  PROVE  FailedUp(d)'
BY DEF FailedUp, Grows

(* Steps that filtergraphs and encoders do not see, but for a thread that  *)
(* goes on.                                                                *)
SameAt(u) == todo'[u] = todo[u] /\ pc'[u] = pc[u]
Quiet ==
  /\ failed \subseteq failed'
  /\ UNCHANGED <<opened, formats, got_frame, dst_finished>>
  /\ \A f \in Filters : queue'[f] = queue[f] /\ recv_finished'[f] = recv_finished[f] /\ pc'[f] = pc[f]
  /\ \A c \in Filters \cup Encs : send_finished'[c] = send_finished[c]

LEMMA QuietGrows ==
  ASSUME Quiet
  PROVE  Grows
BY DEF Quiet, Grows

LEMMA OthersReach ==
  ASSUME EncInv, Grows, NEW u \in Decs \cup Filters, SameAt(u), u \in got_frame' => u \in got_frame
  PROVE  ReachesAll(u)'
<1> SUFFICES ASSUME NEW d \in DstsFrom(u) PROVE Reached(d)' \/ WillReach(u, d)'
  BY DEF ReachesAll, DstsFrom
<1>1. d \in FrameDsts
  BY FrameDstsIs
<1>2. Reached(d) \/ WillReach(u, d)
  BY DEF EncInv, OnTheWayInv, ReachesAll
<1>3. WillReach(u, d) => WillReach(u, d)'
  BY DEF WillReach, ClosesLate, WillBring, Brings, SameAt
<1> QED BY <1>1, <1>2, <1>3, ReachedStays

LEMMA ClosedSame ==
  ASSUME ClosedInv, Grows, UNCHANGED dst_finished,
         \A c \in Filters \cup Encs : send_finished'[c] = send_finished[c]
  PROVE  ClosedInv'
<1> SUFFICES ASSUME NEW d \in FrameDsts
             PROVE  /\ d \in dst_finished' <=> d[2] \in send_finished'[d[1]]
                    /\ d \in dst_finished' => Reached(d)'
  BY DEF ClosedInv, FrameDsts
<1>1. d[1] \in Filters \cup Encs
  BY DEF FrameDsts
<1> QED BY <1>1, ReachedStays DEF ClosedInv

LEMMA FreshSame ==
  ASSUME FreshInv, Grows, NEW f \in Filters,
         \A p \in Ports[f] : Fresh(f, p)' =>
           Fresh(f, p) /\ queue'[f] = queue[f] /\ recv_finished'[f] = recv_finished[f]
  PROVE  FreshOf(f)'
<1> SUFFICES ASSUME NEW p \in Ports[f], Fresh(f, p)' PROVE FreshAt(f, p)'
  BY DEF FreshOf
<1>1. FreshAt(f, p)
  BY DEF FreshInv, FreshOf
<1> QED BY <1>1, FailedStays DEF FreshAt

LEMMA ThreadStep ==
  ASSUME EncInv, Grows, NEW t, UNCHANGED dst_finished, got_frame' \subseteq got_frame \cup {t},
         \A c \in Filters \cup Encs : send_finished'[c] = send_finished[c],
         \A u \in (Decs \cup Filters) \ {t} : SameAt(u),
         \A f \in Filters \ {t} : queue'[f] = queue[f] /\ recv_finished'[f] = recv_finished[f],
         \A f \in Filters \ {t} : formats'[f] = formats[f],
         t \in Filters => FreshOf(t)',
         t \in Decs \cup Filters => ReachesAll(t)'
  PROVE  EncInv'
<1>1. ClosedInv'
  BY ClosedSame DEF EncInv
<1>2. FreshInv'
  <2>1. ASSUME NEW f \in Filters \ {t} PROVE FreshOf(f)'
    <3>1. \A p \in Ports[f] : Fresh(f, p)' => Fresh(f, p)
      BY DEF Fresh, SameAt
    <3> QED BY <3>1, FreshSame DEF EncInv
  <2> QED BY <2>1 DEF FreshInv
<1>3. OnTheWayInv'
  <2>1. \A u \in (Decs \cup Filters) \ {t} : ReachesAll(u)'
    BY OthersReach
  <2> QED BY <2>1 DEF OnTheWayInv
<1> QED BY <1>1, <1>2, <1>3 DEF EncInv

LEMMA QuietStep ==
  ASSUME EncInv, Quiet, NEW t,
         \A u \in (Decs \cup Filters) \ {t} : SameAt(u),
         t \in Decs \cup Filters => ReachesAll(t)'
  PROVE  EncInv'
<1>1. Grows
  BY QuietGrows
<1>2. t \in Filters => FreshOf(t)'
  <2>1. \A f \in Filters : \A p \in Ports[f] :
          Fresh(f, p)' => Fresh(f, p) /\ queue'[f] = queue[f] /\ recv_finished'[f] = recv_finished[f]
    BY DEF Quiet, Fresh
  <2> QED BY <1>1, <2>1, FreshSame DEF EncInv
<1> QED BY <1>1, <1>2, ThreadStep DEF Quiet

(* What has nothing to close reaches its destinations in any case.         *)
LEMMA NothingToClose ==
  ASSUME NEW t, NEW d, pc'[t] # "cleanup",
         \A x \in Range(todo'[t]) : x.item # Close,
         t \notin got_frame', t \notin Filters,
         pc'[t] = "draining" => WillBring(todo'[t], d, Opening)
  PROVE  WillReach(t, d)'
<1>1. \A i \in DOMAIN todo'[t] : todo'[t][i].item # Close
  BY DEF Range
<1> QED BY <1>1 DEF WillReach, ClosesLate

LEMMA IdleReached ==
  ASSUME EncInv, NEW t \in Decs \cup Filters, todo[t] = <<>>, pc[t] \in {"draining", "cleanup"} \/ t \in got_frame,
         NEW d \in DstsFrom(t)
  PROVE  Reached(d)
<1>1. ~WillReach(t, d)
  BY DEF WillReach, WillBring
<1> QED BY <1>1 DEF EncInv, OnTheWayInv, ReachesAll

LEMMA DoneReached ==
  ASSUME EncInv, NEW t \in Decs \cup Filters, AllOutputsDone(t), NEW d \in DstsFrom(t)
  PROVE  Reached(d)
<1>1. d \in dst_finished /\ d \in FrameDsts
  BY FrameDstsIs, KindsOf DEF AllOutputsDone, DstsFrom
<1> QED BY <1>1 DEF EncInv, ClosedInv

(* An item that is sent to all destinations.                               *)
LEMMA SendsBring ==
  ASSUME NEW items \in Seq(ItemType), NEW t \in Producers, NEW i \in DOMAIN items, items[i] # Close,
         NEW d \in DstsFrom(t)
  PROVE  WillBring(Sends(items, DstsOf(t)), d, Opening)
<1>1. DstsOf(t) \in Seq(Dsts)
  BY OutputsType
<1>2. PICK j \in DOMAIN DstsOf(t) : d = DstsOf(t)[j]
  BY DEF DstsFrom, Range
<1>3. [dst |-> DstsOf(t)[j], item |-> items[i]] \in Range(Sends(items, DstsOf(t)))
  BY <1>1, SendsType
<1>4. PICK k \in DOMAIN Sends(items, DstsOf(t)) :
        Sends(items, DstsOf(t))[k] = [dst |-> DstsOf(t)[j], item |-> items[i]]
  BY <1>3 DEF Range
<1>5. items[i] \in Opening
  BY DEF Opening
<1> QED BY <1>2, <1>4, <1>5 DEF WillBring, Brings

LEMMA WillBringBoth ==
  ASSUME NEW a \in Seq(Errand), NEW b \in Seq(Errand), NEW d, NEW I, WillBring(a, d, I) \/ WillBring(b, d, I)
  PROVE  WillBring(a \o b, d, I)
<1> DEFINE s == a \o b
<1>1. DOMAIN s = 1 .. Len(a) + Len(b) /\ Len(a) \in Nat /\ Len(b) \in Nat
      /\ DOMAIN a = 1 .. Len(a) /\ DOMAIN b = 1 .. Len(b)
  OBVIOUS
<1>2. (\A i \in 1 .. Len(a) : s[i] = a[i]) /\ \A i \in 1 .. Len(b) : s[i + Len(a)] = b[i]
  OBVIOUS
<1> HIDE DEF s
<1>3. CASE WillBring(a, d, I)
  <2>1. PICK i \in 1 .. Len(a) : Brings(a[i], d, I)
    BY <1>1, <1>3 DEF WillBring
  <2>2. i \in DOMAIN s /\ s[i] = a[i]
    BY <1>1, <1>2
  <2> QED BY <2>1, <2>2 DEF WillBring, s
<1>4. CASE WillBring(b, d, I)
  <2>1. PICK i \in 1 .. Len(b) : Brings(b[i], d, I)
    BY <1>1, <1>4 DEF WillBring
  <2>2. i + Len(a) \in DOMAIN s /\ s[i + Len(a)] = b[i]
    BY <1>1, <1>2
  <2> QED BY <2>1, <2>2 DEF WillBring, s
<1> QED BY <1>3, <1>4

(* What is sent to a destination first, and closes it last.                *)
LEMMA FirstBrings ==
  ASSUME NEW a \in Seq(Errand), NEW b \in Seq(Errand), NEW d \in Dsts, NEW r \in Seq(ItemType), r # <<>>,
         NEW I \in SUBSET Opening, r[1] \in I, \A x \in Range(a) : x.dst # d
  PROVE  LET s == a \o (SendsTo(r, d) \o b)
         IN  WillBring(s, d, I) /\ ClosesLate(s, d, I)
<1>1. PICK q \in Seq(Errand) : q = SendsTo(r, d) \o b
  <2>1. SendsTo(r, d) \in Seq(Errand)
    BY ToOneType
  <2>2. SendsTo(r, d) \o b \in Seq(Errand)
    BY <2>1
  <2> QED BY <2>2
<1>2. 1 \in DOMAIN q /\ q[1].dst = d /\ q[1].item \in I
  <2>1. PICK e \in Seq(Errand) : e = SendsTo(r, d)
    BY ToOneType
  <2>2. 1 \in DOMAIN e /\ e[1] = [dst |-> d, item |-> r[1]]
    BY <2>1 DEF SendsTo
  <2>3. 1 \in DOMAIN (e \o b) /\ (e \o b)[1] = e[1]
    BY <2>2
  <2> QED BY <1>1, <2>1, <2>2, <2>3
<1>3. PICK s \in Seq(Errand) : s = a \o q
  <2>1. a \o q \in Seq(Errand)
    OBVIOUS
  <2> QED BY <2>1
<1>4. PICK n \in Nat : n = Len(a) /\ DOMAIN a = 1 .. n
  OBVIOUS
<1>5. n + 1 \in DOMAIN s /\ s[n + 1] = q[1] /\ \A i \in 1 .. n : s[i] = a[i]
  BY <1>2, <1>3, <1>4
<1>6. Brings(s[n + 1], d, I)
  BY <1>2, <1>5 DEF Brings
<1>7. WillBring(s, d, I)
  BY <1>5, <1>6 DEF WillBring
<1>8. ASSUME NEW i \in DOMAIN s, s[i].dst = d, s[i].item = Close
      PROVE  \E j \in 1 .. i - 1 : Brings(s[j], d, I)
  <2>1. i \in Nat /\ i >= 1
    OBVIOUS
  <2>2. i \notin 1 .. n
    BY <1>4, <1>5, <1>8 DEF Range
  <2>3. i # n + 1
    BY <1>6, <1>8 DEF Brings, Opening
  <2>4. n + 1 \in 1 .. i - 1
    BY <2>1, <2>2, <2>3
  <2> QED BY <1>6, <2>4
<1>9. ClosesLate(s, d, I)
  BY <1>8 DEF ClosesLate
<1> QED BY <1>1, <1>3, <1>7, <1>9

(* Filtergraphs of which every output is given frames, if it is not the    *)
(* only one.                                                               *)
FramesForAll ==
  \A f \in Filters : Len(DstsOf(f)) > 1 => Range(DstsOf(f)) \cap NoFrames = {}

LEMMA FilterSendsReach ==
  ASSUME FramesForAll, NEW f \in Filters, NEW nums \in Seq(Nat), NEW closing, closing \in {<<>>, close_output},
         NEW d \in DstsFrom(f)
  PROVE  LET s == FilterSends(f, nums, closing)
         IN  \/ WillBring(s, d, Lasting) /\ ClosesLate(s, d, Lasting)
             \/ /\ NoData(s) /\ ClosesLate(s, d, Opening)
                /\ closing = close_output => WillBring(s, d, Opening)
<1>1. f \in Producers /\ d \in Dsts /\ d \in Range(DstsOf(f)) /\ DstsOf(f) \in Seq(Dsts) /\ closing \in Seq(ItemType)
  <2>1. f \in Producers /\ d \in Range(DstsOf(f))
    BY KindsOf DEF DstsFrom
  <2>2. <<>> \in Seq(ItemType)
    OBVIOUS
  <2>3. closing \in Seq(ItemType)
    BY <2>2, CloseOutputType
  <2> QED BY <2>1, <2>3, OutputsType
<1>2. PICK s \in Seq(Errand) : s = FilterSends(f, nums, closing)
  BY <1>1, FilterSendsType DEF MaySend
<1>3. PICK r \in Seq(ItemType) : r = ItemsFor(d, nums, closing)
  BY <1>1, ItemsForType
<1>4. PICK a \in Seq(Errand), b \in Seq(Errand) :
        s = a \o (SendsTo(r, d) \o b) /\ \A x \in Range(a) \cup Range(b) : x.dst # d
  <2>1. SplitAt(s, r, d)
    BY <1>1, <1>2, <1>3, FilterSendsSplit
  <2> QED BY <2>1 DEF SplitAt
<1>5. Lasting \in SUBSET Opening /\ Opening \in SUBSET Opening
  BY DEF Lasting, Opening
<1>6. CASE nums # <<>> /\ d \notin NoFrames
  <2>1. /\ Frames(nums) \in Seq(ItemType) /\ Len(Frames(nums)) = Len(nums)
        /\ 1 \in 1 .. Len(nums) /\ Frames(nums)[1] = Data(nums[1]) /\ nums[1] \in Nat
    <3>1. 1 \in 1 .. Len(nums) /\ nums[1] \in Nat
      BY <1>6
    <3> QED BY <3>1, FramesType
  <2>2. r # <<>> /\ r[1] = Data(nums[1])
    <3>1. PICK q \in Seq(ItemType) : q = Frames(nums)
      BY <2>1
    <3>2. r = q \o closing
      BY <1>3, <1>6, <3>1 DEF ItemsFor
    <3> QED BY <1>1, <2>1, <3>1, <3>2
  <2>3. r[1] \in Lasting
    BY <2>1, <2>2, ItemsType DEF Lasting, Data, Empty
  <2>4. WillBring(s, d, Lasting) /\ ClosesLate(s, d, Lasting)
    BY <1>1, <1>4, <1>5, <2>2, <2>3, FirstBrings
  <2> QED BY <1>2, <2>4
<1>7. CASE nums = <<>> \/ d \in NoFrames
  <2>1. \A e \in Range(DstsOf(f)) : ItemsFor(e, nums, closing) = closing
    <3>1. <<>> \o closing = closing
      BY <1>1, ConcatEmptySeq
    <3>2. CASE nums = <<>>
      <4>1. Frames(nums) = <<>>
        BY <3>2 DEF Frames
      <4> QED BY <3>1, <4>1 DEF ItemsFor
    <3>3. CASE d \in NoFrames
      <4>1. ~(Len(DstsOf(f)) > 1)
        BY <1>1, <3>3 DEF FramesForAll
      <4>2. \A e \in Range(DstsOf(f)) : e = d
        BY <1>1, <4>1 DEF Range
      <4> QED BY <3>1, <3>3, <4>2 DEF ItemsFor
    <3> QED BY <1>7, <3>2, <3>3
  <2>2. \A x \in Range(s) : x.item \in Range(closing)
    BY <1>1, <1>2, <2>1, FilterSendsType
  <2>3. Range(closing) \subseteq {Empty, Close}
    <3>1. CASE closing = <<>>
      BY <3>1 DEF Range
    <3>2. CASE closing = close_output
      <4>1. DOMAIN <<Empty, Close>> = {1, 2} /\ <<Empty, Close>>[1] = Empty /\ <<Empty, Close>>[2] = Close
        OBVIOUS
      <4> QED BY <3>2, <4>1 DEF close_output, Range
    <3> QED BY <3>1, <3>2
  <2>4. NoData(s)
    <3>1. Empty.kind # "data" /\ Close.kind # "data"
      BY DEF Empty, Close
    <3> QED BY <2>2, <2>3, <3>1 DEF NoData
  <2>5. CASE closing = close_output
    <3>1. r = <<Empty, Close>>
      BY <1>1, <1>3, <2>1, <2>5 DEF close_output
    <3>2. r # <<>> /\ r[1] \in Opening
      BY <3>1, ItemsType DEF Opening
    <3>3. WillBring(s, d, Opening) /\ ClosesLate(s, d, Opening)
      BY <1>1, <1>4, <1>5, <3>2, FirstBrings
    <3> QED BY <1>2, <2>4, <3>3
  <2>6. CASE closing = <<>>
    <3>1. \A x \in Range(s) : FALSE
      BY <2>2, <2>6 DEF Range
    <3>2. ClosesLate(s, d, Opening) /\ closing # close_output
      BY <2>6, <3>1 DEF ClosesLate, Range, close_output
    <3> QED BY <1>2, <2>4, <3>2
  <2> QED BY <2>5, <2>6
<1> QED BY <1>6, <1>7

(* What is left of the errands when the first one is done.                 *)
LEMMA TailReaches ==
  ASSUME NEW s \in Seq(Errand), s # <<>>, NEW d, NEW I, ~Brings(Head(s), d, I)
  PROVE  /\ WillBring(s, d, I) => WillBring(Tail(s), d, I)
         /\ ClosesLate(s, d, I) => ClosesLate(Tail(s), d, I)
<1> DEFINE r == Tail(s)
<1>1. /\ DOMAIN s = 1 .. Len(s) /\ Len(s) \in Nat \ {0} /\ s[1] = Head(s)
      /\ DOMAIN r = 1 .. Len(s) - 1 /\ \A i \in 1 .. Len(s) - 1 : r[i] = s[i + 1]
  OBVIOUS
<1> HIDE DEF r
<1>2. ASSUME WillBring(s, d, I) PROVE WillBring(r, d, I)
  <2>1. PICK i \in 1 .. Len(s) : Brings(s[i], d, I)
    BY <1>1, <1>2 DEF WillBring
  <2>2. i # 1
    BY <1>1, <2>1
  <2>3. i - 1 \in 1 .. Len(s) - 1 /\ (i - 1) + 1 = i
    BY <1>1, <2>2
  <2>4. r[i - 1] = s[i]
    BY <1>1, <2>3
  <2> QED BY <1>1, <2>1, <2>3, <2>4 DEF WillBring
<1>3. ASSUME ClosesLate(s, d, I) PROVE ClosesLate(r, d, I)
  <2> SUFFICES ASSUME NEW i \in 1 .. Len(s) - 1, r[i].dst = d, r[i].item = Close
               PROVE  \E j \in 1 .. i - 1 : Brings(r[j], d, I)
    BY <1>1 DEF ClosesLate
  <2>1. i + 1 \in 1 .. Len(s) /\ r[i] = s[i + 1] /\ (i + 1) - 1 = i
    BY <1>1
  <2>2. PICK j \in 1 .. i : Brings(s[j], d, I)
    BY <1>1, <1>3, <2>1 DEF ClosesLate
  <2>3. j # 1
    BY <1>1, <2>2
  <2>4. j - 1 \in 1 .. i - 1 /\ j - 1 \in 1 .. Len(s) - 1 /\ (j - 1) + 1 = j
    BY <1>1, <2>3
  <2>5. r[j - 1] = s[j]
    BY <1>1, <2>4
  <2> QED BY <2>2, <2>4, <2>5
<1> QED BY <1>2, <1>3 DEF r

LEMMA PortsAppend ==
  ASSUME NEW s \in Seq(Entry), NEW e \in Entry
  PROVE  PortsOf(Append(s, e)) = PortsOf(s) \cup {e.port}
<1> DEFINE u == Append(s, e)
<1>1. /\ DOMAIN u = 1 .. Len(s) + 1 /\ DOMAIN s = 1 .. Len(s) /\ Len(s) \in Nat
      /\ (\A i \in 1 .. Len(s) : u[i] = s[i]) /\ u[Len(s) + 1] = e
  OBVIOUS
<1> HIDE DEF u
<1>2. \A i \in DOMAIN u : i \in DOMAIN s \/ i = Len(s) + 1
  BY <1>1
<1>3. Len(s) + 1 \in DOMAIN u /\ \A i \in DOMAIN s : i \in DOMAIN u
  BY <1>1
<1>4. Range(u) = Range(s) \cup {e}
  BY <1>1, <1>2, <1>3 DEF Range
<1> QED BY <1>4 DEF PortsOf, u

LEMMA InitEncInv == Init => EncInv
<1> SUFFICES ASSUME Init PROVE EncInv
  OBVIOUS
<1>1. ClosedInv
  <2>1. dst_finished = {} /\ \A c \in Consumers : send_finished[c] = {}
    BY DEF Init
  <2>2. \A d \in FrameDsts : d[1] \in Consumers
    BY DstsType DEF FrameDsts
  <2> QED BY <2>1, <2>2 DEF ClosedInv
<1>2. FreshInv
  BY KindsOf DEF Init, FreshInv, FreshOf, FreshAt
<1>3. ASSUME NEW t \in Decs \cup Filters PROVE ReachesAll(t)
  <2>1. todo[t] = <<>> /\ pc[t] = "receiving" /\ t \notin got_frame
    BY KindsOf DEF Init
  <2>2. NoData(<<>>)
    BY DEF NoData, Range
  <2> QED BY <2>1, <2>2 DEF ReachesAll, WillReach, ClosesLate
<1> QED BY <1>1, <1>2, <1>3 DEF EncInv, OnTheWayInv

(* A thread sends: the first item that a destination gets reaches it.      *)
LEMMA SendEnc ==
  ASSUME Types, EncInv, NEW t \in Threads, Send(t)
  PROVE  EncInv'
<1>1. todo[t] # <<>> /\ todo' = [todo EXCEPT ![t] = Tail(todo[t])]
      /\ UNCHANGED <<pc, held, formats, eof_in, nb_read, loopVars, mainVars, historyVars>>
  BY DEF Send
<1>2. PICK c \in Consumers, p \in Nat, x \in ItemType, d \in Dsts :
        /\ c = Head(todo[t]).dst[1] /\ p = Head(todo[t]).dst[2] /\ x = Head(todo[t]).item
        /\ d = Head(todo[t]).dst /\ p \in Ports[c] /\ d = <<c, p>> /\ d \in DstsFrom(t) /\ t \in Producers
  <2>1. /\ Head(todo[t]).dst[1] \in Consumers /\ Head(todo[t]).dst[2] \in Ports[Head(todo[t]).dst[1]]
        /\ Head(todo[t]).dst[2] \in Nat /\ Head(todo[t]).item \in ItemType
        /\ Head(todo[t]).dst = <<Head(todo[t]).dst[1], Head(todo[t]).dst[2]>>
        /\ Head(todo[t]).dst \in DstsFrom(t) /\ t \in Producers
    BY <1>1, SendHead
  <2>2. Head(todo[t]).dst \in Dsts
    BY <2>1, PortsType
  <2> QED BY <2>1, <2>2
<1>3. \/ (d \in dst_finished \/ NotNeeded(t, x)) /\ UNCHANGED <<queueVars, opened, got_frame>>
      \/ /\ d \notin dst_finished /\ ~NotNeeded(t, x)
         /\ SendClose(c, p, x) \/ SendItem(c, p, x) \/ SendNothing(c, x)
         /\ Opens(c, x) /\ GotFrame(t, c, p, x)
  BY <1>2 DEF Send
<1>4. todo'[t] = Tail(todo[t]) /\ \A u \in Threads \ {t} : SameAt(u)
  BY <1>1, TailType DEF SameAt
<1>5. PICK s \in Seq(Errand) : s = todo[t] /\ s # <<>> /\ Head(s).dst = d /\ Head(s).item = x
  BY <1>1, <1>2 DEF Types, TodoOK
<1>6. opened' = opened \/ (opened' = opened \cup {c} /\ c \in Encs)
  <2>1. CASE UNCHANGED <<queueVars, opened>>
    BY <2>1
  <2>2. CASE Opens(c, x)
    BY <2>2 DEF Opens
  <2> QED BY <1>3, <2>1, <2>2
<1>7. /\ queue'[c] = queue[c] \/ queue'[c] = Append(queue[c], [port |-> p, item |-> x])
      /\ \A u \in Consumers \ {c} : queue'[u] = queue[u]
      /\ SendItem(c, p, x) => queue'[c] = Append(queue[c], [port |-> p, item |-> x])
  <2>1. CASE SendItem(c, p, x)
    <3>1. queue' = [queue EXCEPT ![c] = Append(queue[c], [port |-> p, item |-> x])]
      BY <2>1 DEF SendItem
    <3>2. c \in Consumers /\ p \in Ports[c] /\ x \in ItemType
      BY <1>2
    <3>3. /\ queue'[c] = Append(queue[c], [port |-> p, item |-> x])
          /\ \A u \in Consumers \ {c} : queue'[u] = queue[u]
      BY <3>1, <3>2, AppendType
    <3> QED BY <3>3
  <2>2. CASE queue' = queue /\ ~SendItem(c, p, x)
    BY <2>2
  <2>3. SendItem(c, p, x) \/ queue' = queue
    BY <1>3 DEF SendClose, SendNothing, queueVars
  <2> QED BY <2>1, <2>2, <2>3
<1>8. [port |-> p, item |-> x] \in Entry /\ queue[c] \in Seq(Entry)
  BY <1>2 DEF Entry, Types, QueueOK
<1>9. PortsOf(Append(queue[c], [port |-> p, item |-> x])) = PortsOf(queue[c]) \cup {p}
  BY <1>8, PortsAppend
<1>10. Grows
  <2>1. \A f \in Filters : PortsOf(queue[f]) \subseteq PortsOf(queue'[f])
    BY <1>7, <1>9, KindsOf
  <2> QED BY <1>1, <1>6, <2>1 DEF Grows, historyVars
<1>17. /\ got_frame' \subseteq got_frame \cup {t}
       /\ x.kind # "data" => got_frame' = got_frame
  BY <1>3 DEF GotFrame
<1>11. recv_finished' = recv_finished
  BY <1>3 DEF SendClose, SendItem, SendNothing, queueVars
<1>12. ASSUME d \in FrameDsts, x # Close, ~NotNeeded(t, x) PROVE Reached(d)'
  <2>1. CASE d \in dst_finished
    BY <1>10, <1>12, <2>1, ReachedStays DEF EncInv, ClosedInv
  <2>2. CASE d \notin dst_finished
    <3>1. CASE c \in Encs
      <4>1. c \in opened'
        BY <1>3, <1>12, <2>2, <3>1 DEF Opens
      <4> QED BY <1>2, <3>1, <4>1 DEF Reached, Touched
    <3>2. CASE c \in Filters
      <4>1. c \notin Encs
        BY <3>2, Kinds
      <4>2. CASE SendItem(c, p, x)
        <5>1. p \in PortsOf(queue'[c])
          BY <1>7, <1>9, <4>2
        <5> QED BY <1>2, <4>1, <5>1 DEF Reached, Touched
      <4>3. CASE SendClose(c, p, x)
        <5>1. p \in recv_finished[c]
          BY <1>12, <4>3 DEF SendClose
        <5>2. CASE Fresh(c, p)
          <6>1. FailedUp(<<c, p>>)
            BY <1>2, <3>2, <5>1, <5>2 DEF EncInv, FreshInv, FreshOf, FreshAt
          <6>2. FailedUp(<<c, p>>)'
            BY <1>10, <6>1, FailedStays
          <6> QED BY <1>2, <6>2 DEF Reached
        <5>3. CASE ~Fresh(c, p)
          <6>1. p \in formats[c] \/ pc[c] # "receiving"
            BY <1>2, <3>2, <5>3 DEF Fresh
          <6> QED BY <1>1, <1>2, <4>1, <6>1 DEF Reached, Touched
        <5> QED BY <5>2, <5>3
      <4>4. CASE SendNothing(c, x)
        BY <4>1, <4>4 DEF SendNothing, Discarded
      <4> QED BY <1>3, <1>12, <2>2, <4>2, <4>3, <4>4
    <3>3. c \in Encs \cup Filters
      BY <1>2, <1>12 DEF FrameDsts
    <3> QED BY <3>1, <3>2, <3>3
  <2> QED BY <2>1, <2>2
<1>13. ASSUME d \in FrameDsts, x = Close PROVE Reached(d)'
  <2>1. t \in Decs \cup Filters
    BY <1>2, <1>13, FrameDstsIs
  <2>2. Reached(d) \/ \E I : ClosesLate(s, d, I)
    BY <1>2, <1>5, <2>1 DEF EncInv, OnTheWayInv, ReachesAll, WillReach
  <2>3. \A I : ~ClosesLate(s, d, I)
    <3>1. 1 \in DOMAIN s /\ s[1] = Head(s)
      BY <1>5
    <3>2. \A j \in 1 .. 1 - 1 : FALSE
      OBVIOUS
    <3> QED BY <1>5, <1>13, <3>1, <3>2 DEF ClosesLate
  <2> QED BY <1>10, <1>13, <2>2, <2>3, ReachedStays
<1>14. ClosedInv'
  <2> SUFFICES ASSUME NEW e \in FrameDsts
               PROVE  /\ e \in dst_finished' <=> e[2] \in send_finished'[e[1]]
                      /\ e \in dst_finished' => Reached(e)'
    BY DEF ClosedInv, FrameDsts
  <2>1. e = <<e[1], e[2]>> /\ e[1] \in Consumers
    BY DstsType DEF FrameDsts
  <2>2. e \in dst_finished <=> e[2] \in send_finished[e[1]]
    BY DEF EncInv, ClosedInv
  <2>3. CASE SendClose(c, p, x)
    <3>1. /\ send_finished' = [send_finished EXCEPT ![c] = send_finished[c] \cup {p}]
          /\ dst_finished' = dst_finished \cup {d}
      BY <1>2, <2>3 DEF SendClose
    <3>2. send_finished'[c] = send_finished[c] \cup {p} /\ \A u \in Consumers \ {c} : send_finished'[u] = send_finished[u]
      BY <1>2, <3>1 DEF Types, FlagsOK
    <3>3. e = d <=> e[1] = c /\ e[2] = p
      BY <1>2, <2>1
    <3>4. e \in dst_finished' <=> e[2] \in send_finished'[e[1]]
      BY <2>1, <2>2, <3>1, <3>2, <3>3
    <3>5. e = d => Reached(e)'
      <4>1. ~NotNeeded(t, x) \/ d \in dst_finished
        BY <1>3, <3>1 DEF queueVars
      <4>2. d \in FrameDsts /\ d \in dst_finished => Reached(d)'
        BY <1>10, ReachedStays DEF EncInv, ClosedInv
      <4> QED BY <1>12, <1>13, <4>1, <4>2
    <3>6. e \in dst_finished => Reached(e)'
      BY <1>10, ReachedStays DEF EncInv, ClosedInv
    <3> QED BY <3>1, <3>4, <3>5, <3>6
  <2>4. CASE UNCHANGED <<send_finished, dst_finished>>
    BY <1>10, <2>2, <2>4, ReachedStays DEF EncInv, ClosedInv
  <2> QED BY <1>3, <2>3, <2>4 DEF SendItem, SendNothing, queueVars
<1>15. FreshInv'
  <2> SUFFICES ASSUME NEW f \in Filters, NEW q \in Ports[f], Fresh(f, q)', q \in recv_finished'[f]
               PROVE  FailedUp(<<f, q>>)' /\ q \notin PortsOf(queue'[f])
    BY DEF FreshInv, FreshOf, FreshAt
  <2>1. Fresh(f, q) /\ f \in Consumers /\ q \in recv_finished[f]
    BY <1>1, <1>11, KindsOf DEF Fresh
  <2>2. FailedUp(<<f, q>>) /\ q \notin PortsOf(queue[f])
    BY <2>1 DEF EncInv, FreshInv, FreshOf, FreshAt
  <2>3. CASE queue'[f] = queue[f]
    BY <1>10, <2>2, <2>3, FailedStays
  <2>4. CASE f = c /\ SendItem(c, p, x)
    <3>1. p \notin recv_finished[c]
      BY <2>4 DEF SendItem
    <3>2. q \notin PortsOf(queue'[f])
      BY <1>7, <1>9, <2>1, <2>2, <2>4, <3>1
    <3> QED BY <1>10, <2>2, <3>2, FailedStays
  <2>5. (f = c /\ SendItem(c, p, x)) \/ queue'[f] = queue[f]
    BY <1>3, <1>7, <2>1 DEF SendClose, SendNothing, queueVars
  <2> QED BY <2>3, <2>4, <2>5
<1>16. OnTheWayInv'
  <2>1. \A u \in (Decs \cup Filters) \ {t} : ReachesAll(u)'
    BY <1>4, <1>10, <1>17, KindsOf, OthersReach
  <2>2. ASSUME t \in Decs \cup Filters, NEW e \in DstsFrom(t)
        PROVE  Reached(e)' \/ WillReach(t, e)'
    <3>1. e \in FrameDsts
      BY <2>2, FrameDstsIs
    <3>2. CASE Reached(e)
      BY <1>10, <3>1, <3>2, ReachedStays
    <3>3. CASE e = d /\ x # Close /\ ~NotNeeded(t, x)
      BY <1>12, <3>1, <3>3
    <3>4. CASE WillReach(t, e) /\ ~(e = d /\ x # Close /\ ~NotNeeded(t, x))
      <4>1. ASSUME NEW I, I \in {Lasting, Opening}, ~Brings(Head(s), e, I)
            PROVE  /\ WillBring(s, e, I) => WillBring(Tail(s), e, I)
                   /\ ClosesLate(s, e, I) => ClosesLate(Tail(s), e, I)
        BY <1>5, <4>1, TailReaches
      <4>2. ~Brings(Head(s), e, Lasting)
        BY <1>5, <3>4 DEF Brings, NotNeeded, Lasting
      <4>3. CASE WillBring(s, e, Lasting) /\ ClosesLate(s, e, Lasting)
        <5>1. WillBring(Tail(s), e, Lasting) /\ ClosesLate(Tail(s), e, Lasting)
          BY <4>1, <4>2, <4>3
        <5> QED BY <1>1, <1>4, <1>5, <3>4, <5>1 DEF WillReach
      <4>4. CASE /\ t \notin got_frame /\ (t \in Filters => NoData(s))
                 /\ ClosesLate(s, e, Opening)
                 /\ pc[t] = "draining" => WillBring(s, e, Opening)
        <5>1. ~Brings(Head(s), e, Opening)
          BY <1>5, <3>4, <4>4 DEF Brings, NotNeeded, Opening
        <5>2. t \in Filters => NoData(Tail(s))
          BY <1>5, <4>4 DEF NoData, Range
        <5>3. t \notin got_frame'
          <6>1. CASE t \in Filters
            <7>1. Head(s) \in Range(s)
              BY <1>5 DEF Range
            <7> QED BY <1>5, <1>17, <4>4, <6>1, <7>1 DEF NoData
          <6>2. CASE t \notin Filters
            BY <1>3, <4>4, <6>2 DEF GotFrame
          <6> QED BY <6>1, <6>2
        <5> QED BY <1>1, <1>4, <1>5, <3>4, <4>1, <4>4, <5>1, <5>2, <5>3 DEF WillReach
      <4> QED BY <1>5, <3>4, <4>3, <4>4 DEF WillReach
    <3> QED BY <2>2, <3>2, <3>3, <3>4 DEF EncInv, OnTheWayInv, ReachesAll
  <2>3. t \in Decs \cup Filters => ReachesAll(t)'
    BY <2>2 DEF ReachesAll, DstsFrom
  <2> QED BY <2>1, <2>3 DEF OnTheWayInv
<1> QED BY <1>14, <1>15, <1>16 DEF EncInv

LEMMA CleanupEnc ==
  ASSUME Types, EncInv, NEW t \in Threads, task_cleanup(t)
  PROVE  EncInv'
<1>1. /\ pc[t] = "draining" /\ todo[t] = <<>> /\ pc' = Set(pc, t, "cleanup")
      /\ recv_finished' = IF t \in Consumers THEN Set(recv_finished, t, Ports[t]) ELSE recv_finished
      /\ todo' = IF t \in Producers THEN Set(todo, t, Sends(<<Close>>, DstsOf(t))) ELSE todo
      /\ UNCHANGED <<queue, send_finished, dst_finished, opened, formats, got_frame, failed>>
  BY DEF task_cleanup, dataVars, historyVars
<1>2. pc'[t] = "cleanup" /\ \A u \in Threads \ {t} : pc'[u] = pc[u] /\ todo'[u] = todo[u]
  BY <1>1 DEF Types, PcOK, TodoOK, Set
<1>3. \A u \in Consumers \ {t} : recv_finished'[u] = recv_finished[u]
  BY <1>1 DEF Types, FlagsOK, Set
<1>4. Grows
  BY <1>1, <1>2, KindsOf DEF Grows
<1>5. t \in Decs \cup Filters => ReachesAll(t)'
  <2> SUFFICES ASSUME t \in Decs \cup Filters, NEW d \in DstsFrom(t) PROVE Reached(d)'
    BY DEF ReachesAll, DstsFrom
  <2>1. Reached(d)
    BY <1>1, IdleReached
  <2> QED BY <1>4, <2>1, FrameDstsIs, ReachedStays
<1>6. FreshOf(t)'
  BY <1>2 DEF Fresh, FreshOf
<1> QED BY <1>1, <1>2, <1>3, <1>4, <1>5, <1>6, KindsOf, ThreadStep DEF SameAt

LEMMA FailsEnc ==
  ASSUME Types, EncInv, NEW t \in Threads, task_fails(t)
  PROVE  EncInv'
<1>1. /\ failed' = failed \cup {t} /\ Ends(t, <<>>)
      /\ UNCHANGED <<queueVars, opened, formats, got_frame>>
  BY DEF task_fails, dataVars
<1>2. pc'[t] = "draining" /\ \A u \in Threads \ {t} : pc'[u] = pc[u] /\ todo'[u] = todo[u]
  BY <1>1, EndsType, EmptyErrands
<1>3. Grows
  BY <1>1, <1>2, KindsOf DEF Grows, queueVars
<1>4. ReachesAll(t)'
  <2>1. \A d \in DstsFrom(t) : FailedUp(d)'
    BY <1>1, PathStart DEF FailedUp
  <2> QED BY <2>1 DEF ReachesAll, Reached, DstsFrom
<1>5. FreshOf(t)'
  BY <1>2 DEF Fresh, FreshOf
<1> QED BY <1>1, <1>2, <1>3, <1>4, <1>5, KindsOf, ThreadStep DEF SameAt, queueVars

LEMMA SetAt ==
  ASSUME NEW F, NEW t, NEW v, NEW u \in DOMAIN F, u # t
  PROVE  Set(F, t, v)[u] = F[u]
BY DEF Set

LEMMA DemuxEnc ==
  ASSUME Types, EncInv, NEW d \in Demuxers, DemuxNext(d)
  PROVE  EncInv'
<1>1. d \in Threads /\ d \notin Decs \cup Filters
  BY KindsOf, Kinds DEF Consumers
<1>2. DOMAIN pc = Threads /\ DOMAIN todo = Threads
  BY DEF Types, PcOK, TodoOK
<1>3. UNCHANGED <<failed, opened, formats, got_frame, dst_finished, recv_finished>>
  BY Zenon DEF DemuxNext, demux_read, demux_ends, demux_loop, demux_flush_eof, demux_flush, demux_end_ts, seek_to_start,
         queueVars, dataVars, historyVars, InputUnchanged
<1>4. \A u \in Threads \ {d} : SameAt(u)
  <2>1. (pc' = pc \/ \E v : pc' = Set(pc, d, v)) /\ (todo' = todo \/ \E v : todo' = Set(todo, d, v))
    BY Zenon DEF DemuxNext, demux_read, demux_ends, demux_loop, demux_flush_eof, demux_flush, demux_end_ts, seek_to_start, Ends
  <2> QED BY <1>2, <2>1, SetAt DEF SameAt
<1>5. \A c \in Filters \cup Encs : queue'[c] = queue[c] /\ send_finished'[c] = send_finished[c]
  <2>1. ASSUME todo[d] # <<>>
        PROVE  Head(todo[d]).dst[1] \notin Filters \cup Encs
    BY <1>1, <2>1, SendHead, Kinds, KindsOf DEF TakersOf
  <2>2. DOMAIN queue = Consumers /\ DOMAIN send_finished = Consumers
    BY DEF Types, QueueOK, FlagsOK
  <2>3. CASE demux_flush_eof(d)
    <3>1. \E v : UNCHANGED queue /\ send_finished' = [send_finished EXCEPT ![Head(todo[d]).dst[1]] = v]
      BY <2>3 DEF demux_flush_eof
    <3>2. todo[d] # <<>>
      BY <2>3 DEF demux_flush_eof
    <3> QED BY <2>1, <2>2, <3>1, <3>2, KindsOf
  <2>4. CASE demux_flush(d)
    <3>1. \E v : UNCHANGED send_finished /\ queue' = [queue EXCEPT ![Head(todo[d]).dst[1]] = v]
      BY <2>4, Zenon DEF demux_flush
    <3>2. todo[d] # <<>>
      BY <2>4 DEF demux_flush
    <3> QED BY <2>1, <2>2, <3>1, <3>2, KindsOf
  <2>5. demux_flush_eof(d) \/ demux_flush(d) \/ UNCHANGED <<queue, send_finished>>
    BY DEF DemuxNext, demux_read, demux_ends, demux_loop, demux_end_ts, seek_to_start, queueVars
  <2> QED BY <2>3, <2>4, <2>5
<1>6. Quiet
  BY <1>1, <1>3, <1>4, <1>5, KindsOf DEF Quiet, SameAt
<1> QED BY <1>1, <1>4, <1>6, KindsOf, QuietStep

LEMMA EncoderEnc ==
  ASSUME Types, EncInv, NEW e \in Encs, EncNext(e)
  PROVE  EncInv'
<1>1. e \in Consumers /\ e \in Threads /\ e \in Codecs /\ e \notin Decs \cup Filters
  BY KindsOf, Kinds
<1>2. /\ UNCHANGED <<opened, formats, got_frame, dst_finished, send_finished>> /\ failed \subseteq failed'
      /\ pc' = pc \/ \E v : pc' = Set(pc, e, v)
      /\ \E v : todo' = Set(todo, e, v)
  BY DEF EncNext, enc_frame, enc_finishes, enc_eof, EncUnchanged, Process, Ends
<1>3. \A u \in Threads \ {e} : SameAt(u)
  BY <1>2, SetAt DEF SameAt, Types, PcOK, TodoOK
<1>4. \A u \in Consumers \ {e} : queue'[u] = queue[u] /\ recv_finished'[u] = recv_finished[u]
  <2>1. CASE Receives(e, "data") /\ UNCHANGED recv_finished
    BY <1>1, <2>1, ReceivesType
  <2>2. CASE ReceivesEof(e)
    BY <1>1, <2>2, ReceivesEofType
  <2> QED BY <2>1, <2>2 DEF EncNext, enc_frame, enc_finishes, enc_eof
<1>5. Quiet
  BY <1>1, <1>2, <1>3, <1>4, KindsOf DEF Quiet, SameAt
<1> QED BY <1>1, <1>3, <1>5, KindsOf, QuietStep

LEMMA MuxerEnc ==
  ASSUME Types, EncInv, NEW m \in Muxes, MuxNext(m)
  PROVE  EncInv'
<1>1. m \in Consumers /\ m \in Threads /\ m \notin Decs \cup Filters
  BY KindsOf, Kinds
<1>2. /\ UNCHANGED <<opened, formats, got_frame, dst_finished, send_finished, failed>>
      /\ pc' = pc \/ \E v : pc' = Set(pc, m, v)
      /\ todo' = todo \/ \E v : todo' = Set(todo, m, v)
  BY DEF MuxNext, mux_packet, mux_receive_finish, mux_finishes, mux_eof, MuxUnchanged, dataVars, Ends
<1>3. \A u \in Threads \ {m} : SameAt(u)
  BY <1>2, SetAt DEF SameAt, Types, PcOK, TodoOK
<1>4. \A u \in Consumers \ {m} : queue'[u] = queue[u] /\ recv_finished'[u] = recv_finished[u]
  <2>1. ASSUME Receives(m, "data"), recv_finished' = recv_finished \/ \E v : recv_finished' = [recv_finished EXCEPT ![m] = v]
        PROVE  \A u \in Consumers \ {m} : queue'[u] = queue[u] /\ recv_finished'[u] = recv_finished[u]
    <3>1. \A u \in Consumers \ {m} : queue'[u] = queue[u]
      BY <1>1, <2>1, ReceivesType
    <3> QED BY <2>1, <3>1 DEF Types, FlagsOK
  <2>2. CASE ReceivesEof(m)
    BY <1>1, <2>2, ReceivesEofType
  <2>3. CASE mux_receive_finish(m)
    <3>1. Receives(m, "data") /\ \E v : recv_finished' = [recv_finished EXCEPT ![m] = v]
      BY <2>3 DEF mux_receive_finish
    <3> QED BY <2>1, <3>1
  <2> QED BY <2>1, <2>2, <2>3 DEF MuxNext, mux_packet, mux_finishes, mux_eof
<1>5. Quiet
  BY <1>1, <1>2, <1>3, <1>4, KindsOf DEF Quiet, SameAt
<1> QED BY <1>1, <1>3, <1>5, KindsOf, QuietStep

LEMMA DecoderEnc ==
  ASSUME Types, EncInv, NEW x \in Decs, DecNext(x)
  PROVE  EncInv'
<1>1. x \in Consumers /\ x \in Threads /\ x \in Codecs /\ x \in Producers /\ x \notin Filters \cup Encs
  BY KindsOf, Kinds
<1>2. /\ UNCHANGED <<opened, formats, got_frame, dst_finished, send_finished, failed>>
      /\ pc' = pc \/ pc' = Set(pc, x, "draining")
      /\ todo' = todo \/ \E v : todo' = Set(todo, x, v)
  BY DEF DecNext, dec_end_ts, dec_packet, dec_flush, dec_eof, dec_exit, DecUnchanged, dataVars, queueVars, historyVars,
         Process, Ends
<1>3. \A u \in Threads \ {x} : SameAt(u)
  BY <1>2, SetAt DEF SameAt, Types, PcOK, TodoOK
<1>4. \A u \in Consumers \ {x} : queue'[u] = queue[u] /\ recv_finished'[u] = recv_finished[u]
  <2>1. ASSUME NEW kind, Receives(x, kind), UNCHANGED recv_finished
        PROVE  \A u \in Consumers \ {x} : queue'[u] = queue[u] /\ recv_finished'[u] = recv_finished[u]
    BY <1>1, <2>1, ReceivesType
  <2>2. CASE ReceivesEof(x)
    BY <1>1, <2>2, ReceivesEofType
  <2> QED BY <2>1, <2>2 DEF DecNext, dec_end_ts, dec_packet, dec_flush, dec_eof, dec_exit, queueVars
<1>5. Quiet
  BY <1>1, <1>2, <1>3, <1>4, KindsOf DEF Quiet, SameAt
<1>6. Grows
  BY <1>5, QuietGrows
<1>7. x \notin got_frame /\ x \notin got_frame'
  BY <1>1, <1>2 DEF Types, DataOK
<1>8. ASSUME SameAt(x) PROVE ReachesAll(x)'
  BY <1>6, <1>7, <1>8, OthersReach
<1>9. ASSUME pc' = pc, Idle(x), \A y \in Range(todo'[x]) : y.item # Close
      PROVE  ReachesAll(x)'
  <2>1. pc'[x] = "receiving"
    BY <1>9 DEF Idle
  <2> QED BY <1>1, <1>7, <1>9, <2>1, NothingToClose DEF ReachesAll, DstsFrom
<1>10. ASSUME dec_end_ts(x) PROVE ReachesAll(x)'
  BY <1>8, <1>10 DEF dec_end_ts, SameAt
<1>11. ASSUME dec_packet(x) PROVE ReachesAll(x)'
  <2>1. pc' = pc /\ Idle(x) /\ Receives(x, "data") /\ Process(x)
    BY <1>11 DEF dec_packet, DecReceives
  <2>2. \A y \in Range(todo'[x]) : y.item # Close
    <3>1. Got(x).item.num \in Nat
      BY <1>1, <2>1, ReceivesType
    <3> QED BY <1>1, <2>1, <3>1, ProcessType
  <2> QED BY <1>9, <2>1, <2>2
<1>12. ASSUME dec_flush(x) PROVE ReachesAll(x)'
  <2>1. pc' = pc /\ Idle(x) /\ todo' = Set(todo, x, Flushed(x))
    BY <1>12 DEF dec_flush, DecReceives
  <2>2. todo'[x] = Flushed(x)
    BY <1>1, <2>1 DEF Set, Types, TodoOK
  <2> QED BY <1>1, <1>9, <2>1, <2>2, FlushedType
<1>13. ASSUME dec_eof(x) PROVE ReachesAll(x)'
  <2> DEFINE a == Flushed(x)
             b == Sends(<<EofFrame>>, DstsOf(x))
  <2>1. Ends(x, a \o b)
    BY <1>13 DEF dec_eof
  <2>2. /\ MaySend(x, a) /\ MaySend(x, b) /\ \A y \in Range(a) : y.item # Close
        /\ EofFrame \in ItemType /\ <<EofFrame>> \in Seq(ItemType)
    <3>1. EofFrame \in ItemType /\ <<EofFrame>> \in Seq(ItemType)
      BY ItemsType
    <3>2. MaySend(x, a) /\ \A y \in Range(a) : y.item # Close
      BY <1>1, FlushedType
    <3>3. MaySend(x, b)
      BY <1>1, <3>1, SendsToOutputs
    <3> QED BY <3>1, <3>2, <3>3
  <2>3. \A y \in Range(b) : y.item # Close
    <3>1. b = [j \in DOMAIN DstsOf(x) |-> [dst |-> DstsOf(x)[j], item |-> EofFrame]]
      BY <1>1, <2>2, OutputsType, SendsOne
    <3> HIDE DEF b
    <3> QED BY <3>1, ItemsType DEF Range
  <2>4. ASSUME NEW d \in DstsFrom(x) PROVE WillBring(b, d, Opening)
    <3>1. 1 \in DOMAIN <<EofFrame>> /\ <<EofFrame>>[1] # Close
      BY ItemsType
    <3> HIDE DEF b
    <3> QED BY <1>1, <2>2, <3>1, SendsBring DEF b
  <2> HIDE DEF a, b
  <2>5. MaySend(x, a \o b)
    BY <2>2, MaySendBoth
  <2>6. todo'[x] = a \o b /\ pc'[x] = "draining"
    BY <1>1, <2>1, <2>5, EndsType
  <2>7. \A y \in Range(a \o b) : y.item # Close
    <3>1. Range(a \o b) = Range(a) \cup Range(b)
      BY <2>2, RangeJoin DEF MaySend
    <3> QED BY <2>2, <2>3, <3>1
  <2>8. \A d \in DstsFrom(x) : WillBring(a \o b, d, Opening)
    BY <2>2, <2>4, WillBringBoth DEF MaySend
  <2> QED BY <1>1, <1>7, <2>6, <2>7, <2>8, NothingToClose DEF ReachesAll, DstsFrom
<1>14. ASSUME dec_exit(x) PROVE ReachesAll(x)'
  <2>1. \A d \in DstsFrom(x) : Reached(d) /\ d \in FrameDsts
    BY <1>14, DoneReached, FrameDstsIs DEF dec_exit
  <2>2. \A d \in DstsFrom(x) : Reached(d)'
    BY <1>6, <2>1, ReachedStays
  <2> QED BY <2>2 DEF ReachesAll, DstsFrom
<1>15. ReachesAll(x)'
  BY <1>10, <1>11, <1>12, <1>13, <1>14 DEF DecNext
<1> QED BY <1>3, <1>5, <1>15, KindsOf, QuietStep

(* A filtergraph takes an item: what it has of other inputs stays.         *)
LEMMA OthersStay ==
  ASSUME Types, FreshInv, NEW f \in Filters, NEW kind, Receives(f, kind), pc[f] = "receiving",
         NEW p \in Ports[f] \ formats[f], p # Got(f).port
  PROVE  p \in PortsOf(queue[f]) <=> p \in PortsOf(queue'[f])
<1>1. PICK q \in Seq(Entry) : q = queue[f]
  BY KindsOf DEF Types, QueueOK
<1>2. PICK l \in 1 .. Len(q) : l = FirstLive(f) /\ queue'[f] = SubSeq(q, l + 1, Len(q)) /\ q[l].port = Got(f).port
  BY <1>1, KindsOf, ReceivesType DEF Got
<1>3. \A j \in Live(f) : l <= j
  BY <1>2, KindsOf, FirstLiveIs DEF Receives
<1>4. PICK r \in Seq(Entry) : r = queue'[f] /\ DOMAIN r = 1 .. Len(q) - l /\ \A i \in 1 .. Len(q) - l : r[i] = q[l + i]
  <2>1. l \in 0 .. Len(q) /\ Len(q) \in Nat
    OBVIOUS
  <2>2. /\ SubSeq(q, l + 1, Len(q)) \in Seq(Entry) /\ Len(SubSeq(q, l + 1, Len(q))) = Len(q) - l
        /\ \A i \in 1 .. Len(q) - l : SubSeq(q, l + 1, Len(q))[i] = q[l + i]
    BY <2>1, SplitSeq
  <2>3. PICK r \in Seq(Entry) : r = SubSeq(q, l + 1, Len(q))
    BY <2>2
  <2>4. DOMAIN r = 1 .. Len(q) - l
    BY <2>2, <2>3
  <2> QED BY <1>2, <2>2, <2>3, <2>4
<1>5. DOMAIN q = 1 .. Len(q) /\ Len(q) \in Nat
  OBVIOUS
<1>6. ASSUME p \in PortsOf(q) PROVE p \in PortsOf(r)
  <2>1. PICK i \in 1 .. Len(q) : q[i].port = p
    BY <1>5, <1>6 DEF PortsOf, Range
  <2>2. p \notin recv_finished[f]
    BY <1>1, <1>6 DEF FreshInv, FreshOf, FreshAt, Fresh
  <2>3. i \in Live(f) /\ i # l
    BY <1>1, <1>2, <1>5, <2>1, <2>2 DEF Live
  <2>4. i - l \in 1 .. Len(q) - l /\ l + (i - l) = i
    BY <1>3, <1>5, <2>3
  <2>5. r[i - l] = q[i]
    BY <1>4, <2>4
  <2> QED BY <1>4, <2>1, <2>4, <2>5 DEF PortsOf, Range
<1>7. ASSUME p \in PortsOf(r) PROVE p \in PortsOf(q)
  <2>1. PICK i \in 1 .. Len(q) - l : r[i].port = p
    BY <1>4, <1>7 DEF PortsOf, Range
  <2>2. l + i \in DOMAIN q /\ q[l + i] = r[i]
    BY <1>4, <1>5
  <2> QED BY <2>1, <2>2 DEF PortsOf, Range
<1> QED BY <1>1, <1>4, <1>6, <1>7

LEMMA EmptyDomain ==
  ASSUME NEW S, NEW s \in Seq(S), DOMAIN s = {}
  PROVE  s = <<>>
<1>1. Len(s) \in Nat /\ DOMAIN s = 1 .. Len(s)
  OBVIOUS
<1>2. s # <<>> => Len(s) # 0
  OBVIOUS
<1>3. Len(s) # 0 => 1 \in DOMAIN s
  BY <1>1
<1> QED BY <1>2, <1>3

LEMMA FilterEnc ==
  ASSUME FramesForAll, Types, EncInv, NEW f \in Filters, FilterNext(f)
  PROVE  EncInv'
<1>1. f \in Consumers /\ f \in Threads /\ f \in Codecs /\ f \in Producers /\ f \notin Decs \cup Encs
  BY KindsOf, Kinds
<1>2. /\ UNCHANGED <<opened, dst_finished, send_finished, failed, got_frame>>
      /\ formats' = formats \/ formats' = [formats EXCEPT ![f] = formats[f] \cup {Got(f).port}]
      /\ pc' = pc \/ pc' = Set(pc, f, "draining")
      /\ todo' = todo \/ \E v : todo' = Set(todo, f, v)
  BY DEF FilterNext, filter_frame, filter_receive_finish, filter_eof_frame, filter_stream_eof, filter_ends,
         FilterUnchanged, dataVars, queueVars, historyVars, HasFormat, Feed, Ends
<1>3. \A u \in Threads \ {f} : SameAt(u)
  BY <1>2, SetAt DEF SameAt, Types, PcOK, TodoOK
<1>4. \A u \in Consumers \ {f} : queue'[u] = queue[u] /\ recv_finished'[u] = recv_finished[u]
  <2>1. ASSUME NEW kind, Receives(f, kind), recv_finished' = recv_finished \/ \E v : recv_finished' = [recv_finished EXCEPT ![f] = v]
        PROVE  \A u \in Consumers \ {f} : queue'[u] = queue[u] /\ recv_finished'[u] = recv_finished[u]
    <3>1. \A u \in Consumers \ {f} : queue'[u] = queue[u]
      BY <1>1, <2>1, ReceivesType
    <3> QED BY <2>1, <3>1 DEF Types, FlagsOK
  <2>2. CASE ReceivesEof(f)
    BY <1>1, <2>2, ReceivesEofType
  <2>3. CASE filter_receive_finish(f)
    <3>1. Receives(f, "data") /\ \E v : recv_finished' = [recv_finished EXCEPT ![f] = v]
      BY <2>3 DEF filter_receive_finish
    <3> QED BY <2>1, <3>1
  <2>4. CASE filter_ends(f)
    BY <2>4 DEF filter_ends, queueVars
  <2> QED BY <2>1, <2>2, <2>3, <2>4 DEF FilterNext, filter_frame, filter_eof_frame, filter_stream_eof
<1>5. /\ \A u \in Filters \ {f} : formats'[u] = formats[u]
      /\ formats[f] \subseteq formats'[f]
  BY <1>2 DEF Types, DataOK
<1>6. ASSUME \A p \in Ports[f] :
               \/ p \in formats'[f] \/ pc'[f] # "receiving"
               \/ pc[f] = "receiving" /\ (p \in PortsOf(queue[f]) => p \in PortsOf(queue'[f]))
      PROVE  Grows
  BY <1>1, <1>2, <1>3, <1>4, <1>5, <1>6, KindsOf DEF Grows, SameAt
<1>7. ASSUME Grows, FreshOf(f)', ReachesAll(f)'
      PROVE  EncInv'
  BY <1>2, <1>3, <1>4, <1>5, <1>7, KindsOf, ThreadStep
<1>8. \A d \in DstsFrom(f) : d \in FrameDsts
  BY FrameDstsIs
<1>9. ASSUME NEW kind, Receives(f, kind), HasFormat(f, Got(f).port), UNCHANGED pc, pc[f] = "receiving",
             UNCHANGED recv_finished \/ formats'[f] = Ports[f]
      PROVE  Grows /\ FreshOf(f)'
  <2>1. formats'[f] = formats[f] \cup {Got(f).port}
    BY <1>1, <1>9, ReceivesType, HasFormatType
  <2>2. \A p \in Ports[f] \ formats'[f] : p \in PortsOf(queue[f]) <=> p \in PortsOf(queue'[f])
    BY <1>9, <2>1, OthersStay DEF EncInv
  <2>3. Grows
    BY <1>6, <1>9, <2>2
  <2>4. ASSUME NEW p \in Ports[f], Fresh(f, p)' PROVE FreshAt(f, p)'
    <3>1. Fresh(f, p) /\ p \notin formats'[f] /\ UNCHANGED recv_finished
      BY <1>5, <1>9, <2>4 DEF Fresh
    <3>2. FreshAt(f, p)
      BY <3>1 DEF EncInv, FreshInv, FreshOf
    <3> QED BY <2>2, <2>3, <3>1, <3>2, FailedStays DEF FreshAt
  <2> QED BY <2>3, <2>4 DEF FreshOf
<1>10. ASSUME NEW nums \in Seq(Nat), NEW closing, closing \in {<<>>, close_output}, Grows,
              Idle(f), todo'[f] = FilterSends(f, nums, closing),
              pc'[f] = "receiving" \/ (pc'[f] = "draining" /\ closing = close_output)
       PROVE  ReachesAll(f)'
  <2> SUFFICES ASSUME NEW d \in DstsFrom(f) PROVE Reached(d)' \/ WillReach(f, d)'
    BY DEF ReachesAll, DstsFrom
  <2>1. CASE f \in got_frame
    <3>1. Reached(d)
      BY <1>10, <2>1, IdleReached DEF Idle
    <3> QED BY <1>8, <1>10, <3>1, ReachedStays
  <2>2. CASE f \notin got_frame
    <3> DEFINE s == FilterSends(f, nums, closing)
    <3>1. \/ WillBring(s, d, Lasting) /\ ClosesLate(s, d, Lasting)
          \/ /\ NoData(s) /\ ClosesLate(s, d, Opening)
             /\ closing = close_output => WillBring(s, d, Opening)
      BY <1>10, FilterSendsReach
    <3> HIDE DEF s
    <3>2. todo'[f] = s /\ f \notin got_frame'
      BY <1>2, <1>10, <2>2 DEF s
    <3>3. pc'[f] # "cleanup" /\ (pc'[f] = "draining" => closing = close_output)
      BY <1>10
    <3> QED BY <3>1, <3>2, <3>3 DEF WillReach
  <2> QED BY <2>1, <2>2
<1>11. ASSUME Grows, UNCHANGED <<pc, todo>>
       PROVE  ReachesAll(f)'
  BY <1>2, <1>11, OthersReach DEF SameAt
<1>12. ASSUME NEW s \in Seq(Nat), Feed(f, s), Grows, UNCHANGED pc, Idle(f)
       PROVE  ReachesAll(f)'
  <2>1. CASE UNCHANGED todo
    BY <1>11, <1>12, <2>1
  <2>2. CASE todo' = Set(todo, f, FilterSends(f, PutOut(f, s), <<>>))
    <3>1. PutOut(f, s) \in Seq(Nat)
      BY <1>1, PutOutAndKeep
    <3>2. todo'[f] = FilterSends(f, PutOut(f, s), <<>>)
      BY <1>1, <2>2 DEF Set, Types, TodoOK
    <3> QED BY <1>10, <1>12, <3>1, <3>2 DEF Idle
  <2> QED BY <1>12, <2>1, <2>2 DEF Feed
<1>13. CASE filter_frame(f)
  <2>1. /\ Idle(f) /\ Receives(f, "data") /\ HasFormat(f, Got(f).port)
        /\ Feed(f, Append(held[f], Got(f).item.num)) /\ UNCHANGED <<pc, recv_finished>>
    BY <1>13 DEF filter_frame, FilterReceives
  <2>2. Append(held[f], Got(f).item.num) \in Seq(Nat)
    <3>1. Got(f).item.num \in Nat /\ held[f] \in Seq(Nat)
      BY <1>1, <2>1, ReceivesType DEF Types, DataOK
    <3> QED BY <3>1
  <2>3. Grows /\ FreshOf(f)'
    BY <1>9, <2>1 DEF Idle
  <2> QED BY <1>7, <1>12, <2>1, <2>2, <2>3
<1>14. CASE filter_receive_finish(f)
  <2>1. /\ Idle(f) /\ Receives(f, "data") /\ HasFormat(f, Got(f).port) /\ Configured(f)' /\ UNCHANGED <<pc, todo>>
    BY <1>14 DEF filter_receive_finish, FilterReceives
  <2>2. Grows /\ FreshOf(f)'
    BY <1>9, <2>1 DEF Idle, Configured
  <2> QED BY <1>7, <1>11, <2>1, <2>2
<1>15. CASE filter_eof_frame(f)
  <2>1. /\ Idle(f) /\ (Receives(f, "eof") \/ Receives(f, "empty"))
        /\ HasFormat(f, Got(f).port) /\ UNCHANGED <<pc, recv_finished>>
        /\ todo' = Set(todo, f, FilterSends(f, held[f], close_output)) \/ Feed(f, held[f])
    BY <1>15 DEF filter_eof_frame, FilterReceives
  <2>2. held[f] \in Seq(Nat)
    BY <1>1 DEF Types, DataOK
  <2>3. Grows /\ FreshOf(f)'
    BY <1>9, <2>1 DEF Idle
  <2>4. CASE todo' = Set(todo, f, FilterSends(f, held[f], close_output))
    <3>1. todo'[f] = FilterSends(f, held[f], close_output)
      BY <1>1, <2>4 DEF Set, Types, TodoOK
    <3> QED BY <1>7, <1>10, <2>1, <2>2, <2>3, <3>1 DEF Idle
  <2> QED BY <1>7, <1>12, <2>1, <2>2, <2>3, <2>4
<1>16. CASE filter_stream_eof(f)
  <2>1. Idle(f) /\ ReceivesEof(f) /\ UNCHANGED <<pc, todo, formats>>
    BY <1>16 DEF filter_stream_eof, FilterReceives
  <2>2. PICK p \in send_finished[f] :
          recv_finished'[f] = recv_finished[f] \cup {p} /\ Live(f) = {} /\ queue'[f] = <<>>
    BY <1>1, <2>1, ReceivesEofType
  <2>3. PortsOf(queue'[f]) = {} /\ p \in Ports[f]
    BY <1>1, <2>2 DEF PortsOf, Range, Types, FlagsOK
  <2>4. ASSUME NEW q \in Ports[f], Fresh(f, q) PROVE q \notin PortsOf(queue[f])
    <3>1. SUFFICES ASSUME NEW i \in DOMAIN queue[f], queue[f][i].port = q PROVE FALSE
      BY DEF PortsOf, Range
    <3>2. q \in recv_finished[f]
      BY <2>2, <3>1 DEF Live
    <3>3. q \in PortsOf(queue[f])
      BY <3>1 DEF PortsOf, Range
    <3> QED BY <2>4, <3>2, <3>3 DEF EncInv, FreshInv, FreshOf, FreshAt
  <2>5. Fresh(f, p) => FailedUp(<<f, p>>)
    <3> SUFFICES ASSUME Fresh(f, p) PROVE FailedUp(<<f, p>>)
      OBVIOUS
    <3>1. <<f, p>> \in FrameDsts /\ <<f, p>>[1] = f /\ <<f, p>>[2] = p
      BY <1>1, <2>3, PortsType DEF FrameDsts
    <3>2. Reached(<<f, p>>)
      BY <2>2, <3>1 DEF EncInv, ClosedInv
    <3>3. ~Touched(f, p)
      BY <1>1, <2>3, <2>4 DEF Touched, Fresh
    <3> QED BY <3>1, <3>2, <3>3 DEF Reached
  <2>6. Grows
    BY <1>6, <2>1, <2>4 DEF Idle, Fresh
  <2>7. ASSUME NEW q \in Ports[f], Fresh(f, q)', q \in recv_finished'[f] PROVE FailedUp(<<f, q>>)'
    <3>1. Fresh(f, q)
      BY <2>1, <2>7 DEF Fresh
    <3>2. FailedUp(<<f, q>>)
      BY <2>2, <2>5, <2>7, <3>1 DEF EncInv, FreshInv, FreshOf, FreshAt
    <3> QED BY <2>6, <3>2, FailedStays
  <2>8. FreshOf(f)'
    BY <2>3, <2>7 DEF FreshOf, FreshAt
  <2> QED BY <1>7, <1>11, <2>1, <2>6, <2>8
<1>17. CASE filter_ends(f)
  <2>1. /\ Idle(f)
        /\ \/ /\ AllClosed(f)
              /\ Ends(f, IF Configured(f) THEN FilterSends(f, <<>>, close_output) ELSE <<>>)
           \/ AllOutputsDone(f) /\ Ends(f, <<>>)
    BY <1>17 DEF filter_ends
  <2>2. <<>> \in Seq(Nat) /\ MaySend(f, FilterSends(f, <<>>, close_output)) /\ MaySend(f, <<>>)
    <3>1. <<>> \in Seq(Nat)
      OBVIOUS
    <3> QED BY <1>1, <3>1, FilterSendsType, CloseOutputType, EmptyErrands
  <2>3. PICK s : Ends(f, s) /\ MaySend(f, s) /\
          \/ AllClosed(f) /\ s = IF Configured(f) THEN FilterSends(f, <<>>, close_output) ELSE <<>>
          \/ AllOutputsDone(f)
    BY <2>1, <2>2
  <2>4. pc'[f] = "draining" /\ todo'[f] = s
    BY <1>1, <2>3, EndsType
  <2>5. Grows /\ FreshOf(f)'
    BY <1>6, <2>4 DEF FreshOf, Fresh
  <2>6. CASE AllClosed(f) /\ Configured(f) /\ s = FilterSends(f, <<>>, close_output)
    BY <1>7, <1>10, <2>1, <2>2, <2>4, <2>5, <2>6
  <2>7. CASE AllOutputsDone(f)
    <3>1. \A d \in DstsFrom(f) : Reached(d)'
      BY <1>8, <2>5, <2>7, DoneReached, ReachedStays
    <3> QED BY <1>7, <2>5, <3>1 DEF ReachesAll, DstsFrom
  <2>8. CASE AllClosed(f) /\ ~Configured(f)
    <3>1. PICK p \in Ports[f] : p \notin formats[f] /\ p \in recv_finished[f]
      BY <2>8 DEF AllClosed, Configured, Types, DataOK
    <3>2. FailedUp(<<f, p>>)
      BY <2>1, <3>1 DEF EncInv, FreshInv, FreshOf, FreshAt, Fresh, Idle
    <3>3. \A d \in DstsFrom(f) : Reached(d)
      BY <1>1, <3>2, PathUp DEF FailedUp, Reached
    <3>4. \A d \in DstsFrom(f) : Reached(d)'
      BY <1>8, <2>5, <3>3, ReachedStays
    <3> QED BY <1>7, <2>5, <3>4 DEF ReachesAll, DstsFrom
  <2> QED BY <2>3, <2>6, <2>7, <2>8
<1> QED BY <1>13, <1>14, <1>15, <1>16, <1>17 DEF FilterNext

LEMMA DropEnc ==
  ASSUME Types, EncInv, NEW c \in Consumers, tq_drop(c)
  PROVE  EncInv'
<1>1. /\ queue[c] # <<>> /\ Live(c) = {} /\ queue' = Set(queue, c, <<>>) /\ Idle(c)
      /\ UNCHANGED <<pc, todo, send_finished, recv_finished, dst_finished, opened, formats, got_frame, failed>>
  BY DEF tq_drop, dataVars, historyVars
<1>2. queue'[c] = <<>> /\ \A u \in Consumers \ {c} : queue'[u] = queue[u]
  BY <1>1, EmptiedType
<1>3. ASSUME c \in Filters, NEW p \in Ports[c], Fresh(c, p) PROVE p \notin PortsOf(queue[c])
  <2>1. SUFFICES ASSUME NEW i \in DOMAIN queue[c], queue[c][i].port = p PROVE FALSE
    BY DEF PortsOf, Range
  <2>2. p \in recv_finished[c]
    BY <1>1, <2>1 DEF Live
  <2>3. p \in PortsOf(queue[c])
    BY <2>1 DEF PortsOf, Range
  <2> QED BY <1>3, <2>2, <2>3 DEF EncInv, FreshInv, FreshOf, FreshAt
<1>4. Grows
  BY <1>1, <1>2, <1>3, KindsOf DEF Grows, Fresh
<1>5. c \in Filters => FreshOf(c)'
  <2> SUFFICES ASSUME c \in Filters, NEW p \in Ports[c], Fresh(c, p)' PROVE FreshAt(c, p)'
    BY DEF FreshOf
  <2>1. Fresh(c, p) /\ p \notin PortsOf(queue'[c])
    BY <1>1, <1>2 DEF Fresh, PortsOf, Range
  <2>2. p \in recv_finished[c] => FailedUp(<<c, p>>)
    BY <2>1 DEF EncInv, FreshInv, FreshOf, FreshAt
  <2> QED BY <1>1, <1>4, <2>1, <2>2, FailedStays DEF FreshAt
<1>6. \A u \in Decs \cup Filters : ReachesAll(u)' /\ SameAt(u)
  BY <1>1, <1>4, OthersReach DEF SameAt
<1> QED BY <1>1, <1>2, <1>4, <1>5, <1>6, KindsOf, ThreadStep

LEMMA SameEnc ==
  ASSUME EncInv, UNCHANGED <<pc, todo, queueVars, opened, formats, got_frame, failed>>
  PROVE  EncInv'
<1>1. Quiet
  BY DEF Quiet, queueVars
<1>2. \A u \in Decs \cup Filters : ReachesAll(u)' /\ SameAt(u)
  BY <1>1, QuietGrows, OthersReach DEF SameAt
<1> QED BY <1>1, <1>2, QuietStep

LEMMA NextEncInv ==
  ASSUME FramesForAll, Types, EncInv, [Next]_vars
  PROVE  EncInv'
<1>1. CASE UNCHANGED vars
  BY <1>1, SameEnc DEF vars, dataVars, historyVars
<1>2. CASE sch_stop \/ StopJoin
  <2>1. UNCHANGED <<pc, todo, queueVars, opened, formats, got_frame, failed>>
    BY <1>2 DEF sch_stop, StopJoin, dataVars, historyVars
  <2> QED BY <2>1, SameEnc
<1>3. ASSUME NEW t \in Threads, ThreadNext(t) PROVE EncInv'
  BY <1>3, SendEnc, CleanupEnc, DemuxEnc, DecoderEnc, FilterEnc, EncoderEnc, MuxerEnc, DropEnc DEF ThreadNext
<1> QED BY <1>1, <1>2, <1>3, FailsEnc DEF Next

(* Every variable stays in its type: only existing streams of the threads  *)
(* that are connected are sent to.                                         *)
THEOREM TypeCorrect == Spec => []Types
<1> QED BY InitTypes, NextTypes, PTL DEF Spec

(* close_output(): an encoder whose stream is closed is initialized, or a  *)
(* thread failed on the way there, in every graph in which no filtergraph  *)
(* with several outputs gives frames to some of them only.  There it may   *)
(* fail, because of the one flag FilterGraphThread.got_frame.              *)
THEOREM EncodersAreOpened ==
  ASSUME FramesForAll
  PROVE  Spec => []EncodersOpened
<1>1. ASSUME Types, EncInv PROVE EncodersOpened
  <2> SUFFICES ASSUME NEW e \in Encs \ opened, Ports[e] \subseteq send_finished[e]
               PROVE  FailedUp(<<e, 1>>)
    BY Zenon DEF EncodersOpened, FailedUp
  <2>1. e \in Consumers /\ Ports[e] = {1}
    BY KindsOf, GraphAssumption
  <2>2. <<e, 1>> \in FrameDsts /\ <<e, 1>>[1] = e /\ <<e, 1>>[2] = 1
    BY <2>1, PortsType DEF FrameDsts
  <2>3. <<e, 1>> \in dst_finished
    BY <1>1, <2>1, <2>2 DEF EncInv, ClosedInv
  <2>4. Reached(<<e, 1>>)
    BY <1>1, <2>2, <2>3 DEF EncInv, ClosedInv
  <2> QED BY <2>2, <2>4 DEF Reached, Touched
<1> QED BY <1>1, InitTypes, NextTypes, InitEncInv, NextEncInv, PTL DEF Spec

-----------------------------------------------------------------------------
(* EndTsOfThisLoop: what a decoder of a looped input has received, what is *)
(* queued for it and what the demuxer has in hand are all packets that     *)
(* were read, in order; a flush is the last of them.                       *)
Feeds(d, s, x) == d \in Demuxers /\ s \in DOMAIN Outs[d] /\ <<x, 1>> \in Range(Outs[d][s])
Awaits(d, x)   == pc[d] = "waiting" /\ Head(todo[d]).dst = <<x, 1>>
Running(x)     == pc[x] = "receiving"

(* The last packet received, and how many are queued.                      *)
Received(x) == IF held[x] = <<>> THEN last_frame[x] ELSE Last(held[x])
Queued(x) ==
  IF queue[x] # <<>> /\ Last(queue[x]).item = Flush THEN Len(queue[x]) - 1 ELSE Len(queue[x])

AtSource(d) ==
  /\ pc[d] = "receiving" => \A e \in Range(todo[d]) : e.item.kind = "data"
  /\ pc[d] \in {"flushing", "waiting"} => \A e \in Range(todo[d]) : e.item = Flush /\ e.dst[1] \in Decs
  /\ pc[d] = "waiting" => todo[d] # <<>> /\ Head(todo[d]).dst[1] \in EndTs
  /\ pc[d] = "draining" => todo[d] = <<>>
  /\ pc[d] = "cleanup" => \A e \in Range(todo[d]) : e.item = Close

AtDecoder(d, x) ==
  Running(x) =>
    /\ recv_finished[x] = {}
    /\ pc[d] # "cleanup" => <<x, 1>> \notin dst_finished
    /\ \A i \in DOMAIN queue[x] :
         \/ queue[x][i].item = Data(Received(x) + i)
         \/ /\ queue[x][i].item = Flush /\ i = Len(queue[x]) /\ Awaits(d, x)
            /\ queue_end_ts[x] = <<>> /\ x \notin expect_end_ts
    /\ x \in expect_end_ts =>
         Awaits(d, x) /\ queue[x] = <<>> /\ held[x] = <<>> /\ queue_end_ts[x] = <<>>

(* The packet that the demuxer has yet to send to x, if any.               *)
NoneInHand(s, x) == \A i \in DOMAIN s : s[i].dst # <<x, 1>>
OneInHand(s, x, n) ==
  \E k \in DOMAIN s : /\ s[k] = [dst |-> <<x, 1>>, item |-> Data(n)]
                      /\ \A i \in DOMAIN s : i # k => s[i].dst # <<x, 1>>
Counted(d, s, x) ==
  Running(x) /\ pc[d] \in {"receiving", "flushing", "waiting"} =>
    \/ /\ nb_read[d][s] = Received(x) + Queued(x)
       /\ pc[d] = "receiving" => NoneInHand(todo[d], x)
    \/ /\ nb_read[d][s] = Received(x) + Queued(x) + 1
       /\ pc[d] = "receiving" /\ OneInHand(todo[d], x, nb_read[d][s])

Reported(d, s, x) ==
  /\ queue_end_ts[x] # <<>> =>
       /\ Awaits(d, x) /\ queue_end_ts[x] = <<nb_read[d][s]>>
       /\ Running(x) => queue[x] = <<>> /\ x \notin expect_end_ts
  /\ end_ts_closed[x] => ~Running(x)

EndTsAt(d, s, x) == AtSource(d) /\ AtDecoder(d, x) /\ Counted(d, s, x) /\ Reported(d, s, x)
EndTsInv == \A x \in EndTs : \A d \in Demuxers : \A s \in DOMAIN Outs[d] : Feeds(d, s, x) => EndTsAt(d, s, x)

LEMMA OneSource ==
  ASSUME NEW x \in EndTs, NEW d, NEW s, Feeds(d, s, x)
  PROVE  /\ d \in Demuxers /\ x \in Decs /\ d # x /\ s \in DOMAIN Outs[d]
         /\ \A t \in Threads \ {d} : <<x, 1>> \notin DstsFrom(t)
         /\ <<x, 1>> \in DstsFrom(d)
         /\ \A i \in DOMAIN Outs[d] \ {s} : <<x, 1>> \notin Range(Outs[d][i])
         /\ Once(Outs[d][s], <<x, 1>>)
<1>1. d \in Demuxers /\ s \in DOMAIN Outs[d] /\ x \in Decs /\ d \in Producers
  BY KindsOf, PipelineAssumption DEF Feeds, PipelineAssumption
<1>2. d # x
  BY <1>1, Kinds DEF Consumers
<1>3. PICK k \in DOMAIN Outs[d][s] : Outs[d][s][k] = <<x, 1>>
  BY DEF Feeds, Range
<1>4. \A t \in Producers : \A i \in DOMAIN Outs[t] : \A j \in DOMAIN Outs[t][i] :
        Outs[t][i][j] = <<x, 1>> => t = d /\ i = s /\ j = k
  <2>1. \A t, u \in Producers : \A i \in DOMAIN Outs[t], m \in DOMAIN Outs[u] :
          \A j \in DOMAIN Outs[t][i], l \in DOMAIN Outs[u][m] :
            Outs[t][i][j] = Outs[u][m][l] => t = u /\ i = m /\ j = l
    BY GraphAssumption
  <2> QED BY <1>1, <1>3, <2>1
<1>5. \A t \in Producers : \A y : y \in Range(DstsOf(t)) <=> \E i \in DOMAIN Outs[t] : y \in Range(Outs[t][i])
  BY OutputsType, FlattenRange DEF DstsOf
<1>6. \A t \in Threads \ {d} : <<x, 1>> \notin DstsFrom(t)
  BY <1>4, <1>5 DEF DstsFrom, Range
<1>7. <<x, 1>> \in DstsFrom(d)
  BY <1>1, <1>5 DEF DstsFrom, Feeds
<1>8. \A i \in DOMAIN Outs[d] \ {s} : <<x, 1>> \notin Range(Outs[d][i])
  BY <1>1, <1>4 DEF Range
<1>9. \A j \in DOMAIN Outs[d][s] : j # k => Outs[d][s][j] # <<x, 1>>
  BY <1>1, <1>4
<1> QED BY <1>1, <1>2, <1>3, <1>6, <1>7, <1>8, <1>9 DEF Once

(* Steps that neither the demuxer nor the decoder sees.                    *)
SameDec(x) ==
  /\ pc'[x] = pc[x] /\ queue'[x] = queue[x] /\ recv_finished'[x] = recv_finished[x]
  /\ held'[x] = held[x] /\ last_frame'[x] = last_frame[x]
  /\ queue_end_ts'[x] = queue_end_ts[x] /\ end_ts_closed'[x] = end_ts_closed[x]
  /\ x \in expect_end_ts' <=> x \in expect_end_ts
SameSource(d, s) == SameAt(d) /\ nb_read'[d][s] = nb_read[d][s]
SameClosed(x) == <<x, 1>> \in dst_finished' <=> <<x, 1>> \in dst_finished

LEMMA EndTsSame ==
  ASSUME NEW d, NEW s, NEW x, EndTsAt(d, s, x), SameDec(x), SameSource(d, s), SameClosed(x)
  PROVE  EndTsAt(d, s, x)'
<1>1. Received(x)' = Received(x) /\ Queued(x)' = Queued(x) /\ Awaits(d, x)' = Awaits(d, x) /\ Running(x)' = Running(x)
  BY DEF Received, Queued, Awaits, Running, SameDec, SameSource, SameAt
<1>2. AtSource(d)'
  BY DEF EndTsAt, AtSource, SameSource, SameAt
<1>3. AtDecoder(d, x)'
  BY <1>1 DEF EndTsAt, AtDecoder, SameDec, SameSource, SameClosed, SameAt
<1>4. Counted(d, s, x)'
  BY <1>1 DEF EndTsAt, Counted, SameSource, SameAt
<1>5. Reported(d, s, x)'
  BY <1>1 DEF EndTsAt, Reported, SameDec, SameSource, SameAt
<1> QED BY <1>2, <1>3, <1>4, <1>5 DEF EndTsAt

LEMMA InitEndTs == Init => EndTsInv
<1> SUFFICES ASSUME Init, NEW x \in EndTs, NEW d \in Demuxers, NEW s \in DOMAIN Outs[d], Feeds(d, s, x)
             PROVE  EndTsAt(d, s, x)
  BY DEF EndTsInv
<1>1. x \in Decs /\ x \in Consumers /\ x \in Codecs /\ x \in Threads /\ d \in Threads
  BY OneSource, KindsOf
<1>2. /\ pc[d] = "receiving" /\ todo[d] = <<>> /\ nb_read[d][s] = 0 /\ pc[x] = "receiving" /\ queue[x] = <<>>
      /\ recv_finished[x] = {} /\ held[x] = <<>> /\ last_frame[x] = 0 /\ queue_end_ts[x] = <<>>
      /\ end_ts_closed[x] = FALSE /\ expect_end_ts = {} /\ dst_finished = {}
  BY <1>1 DEF Init
<1>3. Received(x) = 0 /\ Queued(x) = 0 /\ Range(todo[d]) = {}
  BY <1>2 DEF Received, Queued, Range
<1>4. AtSource(d)
  BY <1>2, <1>3 DEF AtSource
<1>5. AtDecoder(d, x)
  BY <1>2 DEF AtDecoder
<1>6. Counted(d, s, x)
  BY <1>2, <1>3 DEF Counted, NoneInHand
<1>7. Reported(d, s, x)
  BY <1>2 DEF Reported
<1> QED BY <1>4, <1>5, <1>6, <1>7 DEF EndTsAt

(* What other threads send goes elsewhere.                                 *)
LEMMA OthersSend ==
  ASSUME Types, NEW x \in EndTs, NEW d, NEW s, Feeds(d, s, x), NEW t \in Threads \ {d}, todo[t] # <<>>
  PROVE  Head(todo[t]).dst[1] # x /\ Head(todo[t]).dst # <<x, 1>>
<1>1. Head(todo[t]).dst \in DstsFrom(t)
  BY SendHead
<1>2. Head(todo[t]).dst # <<x, 1>>
  <2>1. \A u \in Threads \ {d} : <<x, 1>> \notin DstsFrom(u)
    BY OneSource
  <2> QED BY <1>1, <2>1
<1>3. /\ Head(todo[t]).dst[2] \in Ports[Head(todo[t]).dst[1]]
      /\ Head(todo[t]).dst = <<Head(todo[t]).dst[1], Head(todo[t]).dst[2]>>
  BY SendHead
<1>4. Ports[x] = {1}
  BY OneSource, GraphAssumption
<1> QED BY <1>2, <1>3, <1>4

LEMMA ReceivedType ==
  ASSUME Types, NEW x \in Decs
  PROVE  Received(x) \in Nat
<1>1. held[x] \in Seq(Nat) /\ last_frame[x] \in Nat
  BY KindsOf DEF Types, DataOK, LoopOK
<1>2. \A s \in Seq(Nat) : s # <<>> => Last(s) \in Nat
  BY DEF Last
<1> QED BY <1>1, <1>2 DEF Received

LEMMA TailInHand ==
  ASSUME NEW r \in Seq(Errand), r # <<>>, NEW x
  PROVE  /\ Head(r).dst # <<x, 1>> =>
              /\ NoneInHand(r, x) => NoneInHand(Tail(r), x)
              /\ \A n : OneInHand(r, x, n) => OneInHand(Tail(r), x, n)
         /\ Head(r).dst = <<x, 1>> =>
              /\ ~NoneInHand(r, x)
              /\ \A n : OneInHand(r, x, n) => Head(r).item = Data(n) /\ NoneInHand(Tail(r), x)
<1> DEFINE u == Tail(r)
<1>1. /\ DOMAIN r = 1 .. Len(r) /\ Len(r) \in Nat \ {0} /\ r[1] = Head(r)
      /\ DOMAIN u = 1 .. Len(r) - 1 /\ \A i \in 1 .. Len(r) - 1 : u[i] = r[i + 1]
  OBVIOUS
<1> HIDE DEF u
<1>2. \A i \in DOMAIN u : i + 1 \in DOMAIN r /\ i + 1 # 1 /\ u[i] = r[i + 1]
  BY <1>1
<1>3. ASSUME NEW n, OneInHand(r, x, n)
      PROVE  \E k \in DOMAIN r : /\ r[k] = [dst |-> <<x, 1>>, item |-> Data(n)]
                                /\ \A i \in DOMAIN r : i # k => r[i].dst # <<x, 1>>
  BY <1>3 DEF OneInHand
<1>4. ASSUME Head(r).dst # <<x, 1>>, NEW n, OneInHand(r, x, n)
      PROVE  OneInHand(u, x, n)
  <2>1. PICK k \in DOMAIN r : /\ r[k] = [dst |-> <<x, 1>>, item |-> Data(n)]
                              /\ \A i \in DOMAIN r : i # k => r[i].dst # <<x, 1>>
    BY <1>3, <1>4
  <2>2. k # 1
    BY <1>1, <1>4, <2>1
  <2>3. k - 1 \in DOMAIN u /\ u[k - 1] = r[k]
    <3>1. k - 1 \in 1 .. Len(r) - 1 /\ (k - 1) + 1 = k
      BY <1>1, <2>2
    <3> QED BY <1>1, <3>1
  <2>4. ASSUME NEW i \in DOMAIN u, i # k - 1 PROVE u[i].dst # <<x, 1>>
    <3>1. i + 1 \in DOMAIN r /\ i + 1 # k /\ u[i] = r[i + 1]
      BY <1>1, <2>4
    <3> QED BY <2>1, <3>1
  <2> QED BY <2>1, <2>3, <2>4 DEF OneInHand
<1>5. ASSUME Head(r).dst = <<x, 1>>, NEW n, OneInHand(r, x, n)
      PROVE  Head(r).item = Data(n) /\ NoneInHand(u, x)
  <2>1. PICK k \in DOMAIN r : /\ r[k] = [dst |-> <<x, 1>>, item |-> Data(n)]
                              /\ \A i \in DOMAIN r : i # k => r[i].dst # <<x, 1>>
    BY <1>3, <1>5
  <2>2. k = 1 /\ 1 \in DOMAIN r
    BY <1>1, <1>5, <2>1
  <2> QED BY <1>1, <1>2, <2>1, <2>2, SMTT(20) DEF NoneInHand
<1>6. Head(r).dst # <<x, 1>> /\ NoneInHand(r, x) => NoneInHand(u, x)
  BY <1>2 DEF NoneInHand
<1>7. Head(r).dst = <<x, 1>> => ~NoneInHand(r, x)
  BY <1>1 DEF NoneInHand
<1> QED BY <1>4, <1>5, <1>6, <1>7 DEF u

(* A thread sends something.                                               *)
LEMMA SendEndTs ==
  ASSUME Types, NEW t \in Threads, Send(t), NEW x \in EndTs, NEW d, NEW s, Feeds(d, s, x), EndTsAt(d, s, x)
  PROVE  EndTsAt(d, s, x)'
<1>0. /\ d \in Demuxers /\ x \in Decs /\ d # x /\ s \in DOMAIN Outs[d]
      /\ d \in Threads /\ x \in Consumers /\ x \in Threads /\ Ports[x] = {1}
  BY OneSource, KindsOf, GraphAssumption
<1>1. todo[t] # <<>> /\ todo' = [todo EXCEPT ![t] = Tail(todo[t])]
      /\ UNCHANGED <<pc, held, formats, eof_in, nb_read, loopVars, mainVars, historyVars>>
      /\ pc[t] \notin {"flushing", "waiting"}
  BY DEF Send
<1>2. PICK c \in Consumers, p \in Nat, y \in ItemType, e \in Dsts :
        /\ c = Head(todo[t]).dst[1] /\ p = Head(todo[t]).dst[2] /\ y = Head(todo[t]).item
        /\ e = Head(todo[t]).dst /\ p \in Ports[c] /\ e = <<c, p>>
  <2>1. /\ Head(todo[t]).dst[1] \in Consumers /\ Head(todo[t]).dst[2] \in Ports[Head(todo[t]).dst[1]]
        /\ Head(todo[t]).dst[2] \in Nat /\ Head(todo[t]).item \in ItemType
        /\ Head(todo[t]).dst = <<Head(todo[t]).dst[1], Head(todo[t]).dst[2]>>
    BY <1>1, SendHead
  <2>2. Head(todo[t]).dst \in Dsts
    BY <2>1, PortsType
  <2> QED BY <2>1, <2>2
<1>3. \/ (e \in dst_finished \/ y = Empty) /\ UNCHANGED <<queueVars, opened>>
      \/ /\ e \notin dst_finished
         /\ SendClose(c, p, y) \/ SendItem(c, p, y) \/ SendNothing(c, y)
  BY <1>2 DEF Send, NotNeeded
<1>4. todo'[t] = Tail(todo[t]) /\ \A u \in Threads \ {t} : SameAt(u)
  BY <1>1, TailType DEF SameAt
<1>5. recv_finished' = recv_finished
  BY <1>3 DEF SendClose, SendItem, SendNothing, queueVars
<1>6. /\ SendItem(c, p, y) => queue'[c] = Append(queue[c], [port |-> p, item |-> y])
      /\ \A u \in Consumers \ {c} : queue'[u] = queue[u]
      /\ ~SendItem(c, p, y) => queue' = queue
  <2>1. CASE SendItem(c, p, y)
    <3>1. queue' = [queue EXCEPT ![c] = Append(queue[c], [port |-> p, item |-> y])]
      BY <2>1 DEF SendItem
    <3>2. c \in Consumers /\ p \in Ports[c] /\ y \in ItemType
      BY <1>2
    <3>3. /\ queue'[c] = Append(queue[c], [port |-> p, item |-> y])
          /\ \A u \in Consumers \ {c} : queue'[u] = queue[u]
      BY <3>1, <3>2, AppendType
    <3> QED BY <2>1, <3>3
  <2>2. CASE ~SendItem(c, p, y)
    <3>1. queue' = queue
      BY <1>3, <2>2 DEF SendClose, SendNothing, queueVars
    <3> QED BY <2>2, <3>1
  <2> QED BY <2>1, <2>2
<1>7. \/ ~SendClose(c, p, y) /\ dst_finished' = dst_finished
      \/ SendClose(c, p, y) /\ dst_finished' = dst_finished \cup {e} /\ queue' = queue
  BY <1>2, <1>3, Zenon DEF SendClose, SendItem, SendNothing, queueVars
<1>8. e = <<x, 1>> <=> c = x
  BY <1>0, <1>2
<1>9. nb_read' = nb_read /\ held' = held /\ pc' = pc /\ UNCHANGED loopVars
  BY <1>1
<1>10. queue'[x] = queue[x] => SameDec(x)
  BY <1>0, <1>5, <1>9 DEF SameDec, loopVars
<1>11. CASE t # d
  <2>1. c # x
    BY <1>1, <1>2, <1>11, OthersSend
  <2>2. SameDec(x) /\ SameSource(d, s)
    BY <1>0, <1>4, <1>6, <1>9, <1>10, <1>11, <2>1 DEF SameSource
  <2>3. SameClosed(x)
    BY <1>7, <1>8, <2>1 DEF SameClosed
  <2> QED BY <2>2, <2>3, EndTsSame
<1>12. CASE t = d
  <2> PICK r \in Seq(Errand) : r = todo[d] /\ r # <<>> /\ Head(r).dst = e /\ Head(r).item = y
    BY <1>1, <1>2, <1>12 DEF Types, TodoOK
  <2>1. /\ DOMAIN r = 1 .. Len(r) /\ Len(r) \in Nat \ {0} /\ r[1] = Head(r) /\ r[1] \in Range(r)
        /\ DOMAIN Tail(r) = 1 .. Len(r) - 1 /\ \A i \in 1 .. Len(r) - 1 : Tail(r)[i] = r[i + 1]
    BY DEF Range
  <2>2. \A z \in Range(Tail(r)) : z \in Range(r)
    BY <1>1, <1>12, SendHead
  <2>3. \/ pc[d] = "receiving" /\ y.kind = "data"
        \/ pc[d] = "cleanup" /\ y = Close
    BY <1>0, <1>1, <1>12, <2>1 DEF EndTsAt, AtSource, Types, PcOK
  <2>4. AtSource(d)'
    BY <1>1, <1>4, <1>9, <1>12, <2>2, <2>3 DEF EndTsAt, AtSource
  <2>5. ~Awaits(d, x) /\ ~Awaits(d, x)'
    BY <1>9, <2>3 DEF Awaits
  <2>6. CASE ~Running(x) \/ pc[d] = "cleanup"
    <3>1. queue'[x] = queue[x] \/ ~Running(x)
      <4>1. y = Close => ~SendItem(c, p, y)
        BY DEF SendItem
      <4> QED BY <1>6, <2>3, <2>6, <4>1
    <3>2. AtDecoder(d, x)'
      BY <1>5, <1>9, <1>10, <2>5, <2>6, <3>1 DEF EndTsAt, AtDecoder, Running, SameDec, Received, loopVars
    <3>3. Counted(d, s, x)'
      BY <1>9, <2>6 DEF Counted, Running
    <3>4. Reported(d, s, x)'
      BY <1>9, <2>5 DEF EndTsAt, Reported, Running, loopVars
    <3> QED BY <2>4, <3>2, <3>3, <3>4 DEF EndTsAt
  <2>7. CASE Running(x) /\ pc[d] = "receiving" /\ c # x
    <3>1. SameDec(x) /\ SameClosed(x)
      BY <1>0, <1>6, <1>7, <1>8, <1>10, <2>7 DEF SameClosed
    <3>2. AtDecoder(d, x)'
      BY <1>9, <2>5, <3>1 DEF EndTsAt, AtDecoder, Running, SameDec, SameClosed, Received
    <3>3. Head(r).dst # <<x, 1>>
      BY <1>8, <2>7
    <3>4. NoneInHand(r, x) => NoneInHand(Tail(r), x)
      BY <3>3, TailInHand
    <3>5. \A n : OneInHand(r, x, n) => OneInHand(Tail(r), x, n)
      BY <3>3, TailInHand
    <3>6. Received(x)' = Received(x) /\ Queued(x)' = Queued(x)
      BY <3>1 DEF Received, Queued, SameDec
    <3>7. Counted(d, s, x)'
      BY <1>4, <1>9, <1>12, <3>4, <3>5, <3>6 DEF EndTsAt, Counted, Running
    <3>8. Reported(d, s, x)'
      BY <1>9, <2>5 DEF EndTsAt, Reported, Running, loopVars
    <3> QED BY <2>4, <3>2, <3>7, <3>8 DEF EndTsAt
  <2>8. CASE Running(x) /\ pc[d] = "receiving" /\ c = x
    <3>1. e = <<x, 1>> /\ e \notin dst_finished /\ recv_finished[x] = {} /\ p = 1
      BY <1>0, <1>2, <1>8, <2>8 DEF EndTsAt, AtDecoder
    <3>2. y.kind = "data" /\ y # Close
      BY <2>3, <2>8 DEF Close
    <3>3. SendItem(x, 1, y)
      BY <1>0, <1>3, <2>8, <3>1, <3>2, Kinds DEF SendClose, SendNothing, Discarded, Empty
    <3>4. PICK q \in Seq(Entry) : q = queue[x] /\ queue'[x] = Append(q, [port |-> 1, item |-> y])
      BY <1>0, <1>6, <2>8, <3>1, <3>3 DEF Types, QueueOK
    <3>5. ~NoneInHand(r, x)
      BY <2>1, <3>1 DEF NoneInHand
    <3>6. OneInHand(r, x, nb_read[d][s]) /\ nb_read[d][s] = Received(x) + Queued(x) + 1
      BY <2>8, <3>5 DEF EndTsAt, Counted
    <3>7. y = Data(nb_read[d][s]) /\ NoneInHand(Tail(r), x)
      BY <3>1, <3>6, TailInHand
    <3>8. \A i \in DOMAIN q : q[i].item = Data(Received(x) + i)
      BY <2>5, <2>8, <3>4 DEF EndTsAt, AtDecoder
    <3>9. Queued(x) = Len(q)
      <4>1. q # <<>> => Last(q).item # Flush
        <5>1. q # <<>> => Len(q) \in DOMAIN q
          OBVIOUS
        <5>2. \A n : Data(n) # Flush
          BY DEF Data, Flush
        <5> QED BY <3>8, <5>1, <5>2 DEF Last
      <4> QED BY <3>4, <4>1 DEF Queued
    <3>10. /\ DOMAIN queue'[x] = 1 .. Len(q) + 1 /\ Len(queue'[x]) = Len(q) + 1 /\ Len(q) \in Nat
           /\ \A i \in 1 .. Len(q) : queue'[x][i] = q[i]
           /\ queue'[x][Len(q) + 1] = [port |-> 1, item |-> y]
      BY <3>4
    <3>11. Queued(x)' = Len(q) + 1
      <4>1. Last(queue'[x]).item # Flush
        BY <3>2, <3>10 DEF Last, Flush
      <4> QED BY <3>10, <4>1 DEF Queued
    <3>12. Received(x)' = Received(x) /\ Running(x)'
      BY <1>9, <2>8 DEF Received, Running, loopVars
    <3>13. dst_finished' = dst_finished
      BY <1>7, <2>8, <3>1, <3>2 DEF SendClose
    <3>14. \A i \in DOMAIN queue'[x] : queue'[x][i].item = Data(Received(x) + i)
      <4>1. nb_read[d][s] = Received(x) + (Len(q) + 1)
        BY <1>0, <3>6, <3>9, <3>10, ReceivedType
      <4>3. y = Data(Received(x) + (Len(q) + 1))
        BY <3>7, <4>1
      <4>2. \A i \in 1 .. Len(q) + 1 : i \in 1 .. Len(q) \/ i = Len(q) + 1
        BY <3>10
      <4> QED BY <3>8, <3>10, <4>2, <4>3
    <3>15. AtDecoder(d, x)'
      <4>1. x \notin expect_end_ts'
        BY <1>9, <2>5, <2>8 DEF EndTsAt, AtDecoder, loopVars
      <4> QED BY <1>5, <3>1, <3>12, <3>13, <3>14, <4>1 DEF AtDecoder
    <3>16. Counted(d, s, x)'
      <4>1. nb_read'[d][s] = Received(x)' + Queued(x)'
        <5>1. nb_read[d][s] = Received(x) + (Len(q) + 1)
          BY <1>0, <3>6, <3>9, <3>10, ReceivedType
        <5> QED BY <1>9, <3>11, <3>12, <5>1
      <4> QED BY <1>4, <1>12, <3>7, <4>1 DEF Counted
    <3>17. Reported(d, s, x)'
      BY <1>9, <2>5 DEF EndTsAt, Reported, Running, loopVars
    <3> QED BY <2>4, <3>15, <3>16, <3>17 DEF EndTsAt
  <2>9. pc[d] = "receiving" \/ pc[d] = "cleanup"
    BY <2>3
  <2> QED BY <2>6, <2>7, <2>8, <2>9
<1> QED BY <1>11, <1>12

(* A demuxer that has no flush to wait for.                                *)
LEMMA NotAwaited ==
  ASSUME NEW d, NEW s, NEW x, EndTsAt(d, s, x), ~Awaits(d, x)
  PROVE  /\ queue_end_ts[x] = <<>>
         /\ Running(x) => x \notin expect_end_ts /\ \A i \in DOMAIN queue[x] : queue[x][i].item = Data(Received(x) + i)
<1>1. queue_end_ts[x] = <<>>
  BY DEF EndTsAt, Reported
<1>2. Running(x) => x \notin expect_end_ts /\ \A i \in DOMAIN queue[x] : queue[x][i].item = Data(Received(x) + i)
  BY DEF EndTsAt, AtDecoder
<1> QED BY <1>1, <1>2

(* The demuxer goes on while nothing changes at the decoder.               *)
LEMMA SourceStep ==
  ASSUME NEW d, NEW s, NEW x, EndTsAt(d, s, x), SameDec(x), SameClosed(x), AtSource(d)',
         pc[d] # "cleanup", ~Awaits(d, x), ~Awaits(d, x)',
         Counted(d, s, x)'
  PROVE  EndTsAt(d, s, x)'
<1>1. Received(x)' = Received(x) /\ Running(x)' = Running(x)
  BY DEF Received, Running, SameDec
<1>2. /\ queue_end_ts[x] = <<>>
      /\ Running(x) => x \notin expect_end_ts /\ \A i \in DOMAIN queue[x] : queue[x][i].item = Data(Received(x) + i)
  BY NotAwaited
<1>3. AtDecoder(d, x)'
  BY <1>1, <1>2 DEF EndTsAt, AtDecoder, SameDec, SameClosed
<1>4. Reported(d, s, x)'
  BY <1>1, <1>2 DEF EndTsAt, Reported, SameDec
<1> QED BY <1>3, <1>4 DEF EndTsAt

LEMMA CountedSame ==
  ASSUME NEW d, NEW s, NEW x, Counted(d, s, x), SameDec(x), nb_read'[d][s] = nb_read[d][s],
         pc[d] \in {"flushing", "waiting"} \/ (pc[d] = "receiving" /\ todo[d] = <<>>),
         pc'[d] = "receiving" => todo'[d] = <<>>
  PROVE  Counted(d, s, x)'
<1>1. Received(x)' = Received(x) /\ Queued(x)' = Queued(x) /\ Running(x)' = Running(x)
  BY DEF Received, Queued, Running, SameDec
<1>2. pc[d] = "receiving" => ~OneInHand(todo[d], x, nb_read[d][s])
  BY DEF OneInHand
<1>3. Running(x) => nb_read[d][s] = Received(x) + Queued(x)
  BY <1>2 DEF Counted
<1>4. pc'[d] = "receiving" => NoneInHand(todo[d], x)'
  BY DEF NoneInHand
<1> QED BY <1>1, <1>3, <1>4 DEF Counted

LEMMA ReadEndTs ==
  ASSUME Types, NEW x \in EndTs, NEW d, NEW s, Feeds(d, s, x), EndTsAt(d, s, x),
         NEW o \in DOMAIN Outs[d], demux_read(d, o)
  PROVE  EndTsAt(d, s, x)'
<1>0. /\ d \in Demuxers /\ x \in Decs /\ d # x /\ s \in DOMAIN Outs[d]
      /\ d \in Threads /\ d \in Producers
  BY OneSource, KindsOf
<1>1. /\ pc[d] = "receiving" /\ todo[d] = <<>> /\ UNCHANGED <<pc, queueVars, loopVars, held>>
      /\ nb_read' = [nb_read EXCEPT ![d][o] = nb_read[d][o] + 1]
      /\ todo' = Set(todo, d, Sends(<<Data(nb_read'[d][o])>>, Outs[d][o]))
  BY DEF demux_read, Idle, InputUnchanged
<1>2. nb_read'[d][o] = nb_read[d][o] + 1 /\ \A i \in DOMAIN Outs[d] \ {o} : nb_read'[d][i] = nb_read[d][i]
  BY <1>0, <1>1 DEF Types, DataOK
<1>3. PICK n \in Nat : n = nb_read[d][o] + 1
  BY <1>0 DEF Types, DataOK
<1>4. Outs[d][o] \in Seq(Dsts) /\ Data(n) \in ItemType
  BY <1>0, OutputsType, ItemsType
<1>5. todo'[d] = [j \in DOMAIN Outs[d][o] |-> [dst |-> Outs[d][o][j], item |-> Data(n)]]
  <2>1. Sends(<<Data(n)>>, Outs[d][o]) = [j \in DOMAIN Outs[d][o] |-> [dst |-> Outs[d][o][j], item |-> Data(n)]]
    BY <1>4, SendsOne
  <2>2. todo'[d] = Sends(<<Data(n)>>, Outs[d][o])
    BY <1>0, <1>1, <1>2, <1>3 DEF Set, Types, TodoOK
  <2> QED BY <2>1, <2>2
<1>6. AtSource(d)'
  BY <1>1, <1>5 DEF AtSource, Range, Data
<1>7. SameDec(x) /\ SameClosed(x) /\ ~Awaits(d, x) /\ ~Awaits(d, x)'
  BY <1>1 DEF SameDec, SameClosed, Awaits, queueVars, loopVars
<1>8. Received(x)' = Received(x) /\ Queued(x)' = Queued(x) /\ Running(x)' = Running(x)
  BY <1>7 DEF Received, Queued, Running, SameDec
<1>9. Running(x) => nb_read[d][s] = Received(x) + Queued(x)
  <2>1. ~OneInHand(todo[d], x, nb_read[d][s])
    BY <1>1 DEF OneInHand
  <2> QED BY <1>1, <2>1 DEF EndTsAt, Counted
<1>10. Counted(d, s, x)'
  <2>1. CASE o = s
    <3>1. PICK k \in DOMAIN Outs[d][s] : /\ Outs[d][s][k] = <<x, 1>>
                                         /\ \A j \in DOMAIN Outs[d][s] : j # k => Outs[d][s][j] # <<x, 1>>
      <4>1. Once(Outs[d][s], <<x, 1>>)
        BY OneSource
      <4> QED BY <4>1 DEF Once
    <3>2. k \in DOMAIN todo'[d] /\ todo'[d][k] = [dst |-> <<x, 1>>, item |-> Data(n)]
          /\ \A j \in DOMAIN todo'[d] : j # k => todo'[d][j].dst # <<x, 1>>
      <4>1. PICK r : r = todo'[d]
        OBVIOUS
      <4>2. PICK outs : outs = Outs[d][s]
        OBVIOUS
      <4>3. r = [j \in DOMAIN outs |-> [dst |-> outs[j], item |-> Data(n)]]
        BY <1>5, <2>1, <4>1, <4>2
      <4>4. /\ k \in DOMAIN outs /\ outs[k] = <<x, 1>>
            /\ \A j \in DOMAIN outs : j # k => outs[j] # <<x, 1>>
        BY <3>1, <4>2
      <4>5. /\ k \in DOMAIN r /\ r[k] = [dst |-> <<x, 1>>, item |-> Data(n)]
            /\ \A j \in DOMAIN r : j # k => r[j].dst # <<x, 1>>
        BY ONLY <4>3, <4>4
      <4> QED BY <4>1, <4>5
    <3>3. OneInHand(todo'[d], x, n)
      BY <3>2 DEF OneInHand
    <3>4. nb_read'[d][s] = n
      BY <1>2, <1>3, <2>1
    <3>5. Running(x) => n = Received(x) + Queued(x) + 1
      BY <1>3, <1>9, <2>1
    <3> QED BY <1>1, <1>8, <3>3, <3>4, <3>5 DEF Counted
  <2>2. CASE o # s
    <3>1. <<x, 1>> \notin Range(Outs[d][o])
      BY <2>2, OneSource
    <3>2. NoneInHand(todo'[d], x)
      BY <1>5, <3>1 DEF NoneInHand, Range
    <3>3. nb_read'[d][s] = nb_read[d][s]
      BY <1>0, <1>2, <2>2
    <3> QED BY <1>8, <1>9, <3>2, <3>3 DEF Counted
  <2> QED BY <2>1, <2>2
<1> QED BY <1>1, <1>6, <1>7, <1>10, SourceStep

(* The flush goes to the end of the queue.                                 *)
LEMMA FlushEndTs ==
  ASSUME Types, NEW x \in EndTs, NEW d, NEW s, Feeds(d, s, x), EndTsAt(d, s, x), demux_flush(d)
  PROVE  EndTsAt(d, s, x)'
<1>0. /\ d \in Demuxers /\ x \in Decs /\ d # x /\ s \in DOMAIN Outs[d]
      /\ d \in Threads /\ d \in Producers /\ x \in Consumers /\ Ports[x] = {1}
  BY OneSource, KindsOf, GraphAssumption
<1>1. /\ pc[d] = "flushing" /\ todo[d] # <<>>
      /\ UNCHANGED <<send_finished, recv_finished, dst_finished, dataVars, loopVars>>
  BY SMTT(20) DEF demux_flush
<1>2. PICK y \in Consumers, p \in Nat, r \in Seq(Errand) :
        /\ y = Head(todo[d]).dst[1] /\ p = Head(todo[d]).dst[2] /\ p \in Ports[y] /\ Head(todo[d]).dst = <<y, p>>
        /\ r = todo[d] /\ y \in Decs
  <2>1. /\ Head(todo[d]).dst[1] \in Consumers /\ Head(todo[d]).dst[2] \in Ports[Head(todo[d]).dst[1]]
        /\ Head(todo[d]).dst[2] \in Nat
        /\ Head(todo[d]).dst = <<Head(todo[d]).dst[1], Head(todo[d]).dst[2]>>
    BY <1>0, <1>1, SendHead
  <2>2. todo[d] \in Seq(Errand) /\ Head(todo[d]) \in Range(todo[d])
    BY <1>0, <1>1 DEF Types, TodoOK, Range
  <2>3. Head(todo[d]).dst[1] \in Decs
    BY <1>1, <2>2, SMTT(20) DEF EndTsAt, AtSource
  <2> QED BY <2>1, <2>2, <2>3
<1>3. /\ queue' = [queue EXCEPT ![y] = Append(queue[y], [port |-> p, item |-> Flush])]
      /\ IF y \in EndTs THEN pc' = Set(pc, d, "waiting") /\ UNCHANGED todo
                        ELSE todo' = Set(todo, d, Tail(todo[d])) /\ UNCHANGED pc
  BY <1>2 DEF demux_flush
<1>4. /\ queue'[y] = Append(queue[y], [port |-> p, item |-> Flush])
      /\ \A u \in Consumers \ {y} : queue'[u] = queue[u]
  <2>1. y \in Consumers /\ p \in Ports[y] /\ Flush \in ItemType
    BY <1>2, ItemsType
  <2>2. queue' = [queue EXCEPT ![y] = Append(queue[y], [port |-> p, item |-> Flush])]
    BY <1>3
  <2> QED BY <2>1, <2>2, AppendType
<1>5. \/ y \in EndTs /\ pc'[d] = "waiting" /\ todo'[d] = todo[d]
      \/ y \notin EndTs /\ pc'[d] = "flushing" /\ todo'[d] = Tail(todo[d])
  BY <1>0, <1>1, <1>3 DEF Set, Types, PcOK, TodoOK
<1>6. pc'[x] = pc[x]
  BY <1>0, <1>3 DEF Set, Types, PcOK, Threads
<1>7. AtSource(d)'
  <2>1. \A e \in Range(Tail(todo[d])) : e \in Range(todo[d])
    BY <1>0, <1>1, SendHead
  <2> QED BY <1>1, <1>2, <1>5, <2>1 DEF EndTsAt, AtSource
<1>8. ~Awaits(d, x)
  BY <1>1 DEF Awaits
<1>9. /\ queue_end_ts[x] = <<>>
      /\ Running(x) => x \notin expect_end_ts /\ \A i \in DOMAIN queue[x] : queue[x][i].item = Data(Received(x) + i)
  BY <1>8, NotAwaited
<1>10. nb_read' = nb_read /\ held' = held
  BY <1>1 DEF dataVars
<1>11. CASE y # x
  <2>1. SameDec(x) /\ SameClosed(x)
    BY <1>0, <1>1, <1>4, <1>6, <1>10, <1>11 DEF SameDec, SameClosed, loopVars
  <2>2. ~Awaits(d, x)'
    BY <1>2, <1>5, <1>11 DEF Awaits
  <2>3. Counted(d, s, x)'
    BY <1>1, <1>5, <1>10, <2>1, CountedSame DEF EndTsAt
  <2> QED BY <1>1, <1>7, <1>8, <2>1, <2>2, <2>3, SourceStep
<1>12. CASE y = x
  <2> PICK q \in Seq(Entry) : q = queue[x]
    BY <1>0 DEF Types, QueueOK
  <2>1. /\ DOMAIN queue'[x] = 1 .. Len(q) + 1 /\ Len(queue'[x]) = Len(q) + 1 /\ Len(q) \in Nat
        /\ \A i \in 1 .. Len(q) : queue'[x][i] = q[i]
        /\ queue'[x][Len(q) + 1] = [port |-> p, item |-> Flush]
    <3>1. queue'[x] = Append(q, [port |-> p, item |-> Flush])
      BY <1>4, <1>12
    <3>2. [port |-> p, item |-> Flush] \in Entry
      BY ItemsType DEF Entry
    <3> QED BY <3>1, <3>2
  <2>2. p = 1 /\ Awaits(d, x)' /\ pc'[d] = "waiting"
    BY <1>0, <1>2, <1>5, <1>12 DEF Awaits
  <2>3. Received(x)' = Received(x) /\ Running(x)' = Running(x)
    BY <1>1, <1>6, <1>10 DEF Received, Running, loopVars
  <2>4. AtDecoder(d, x)'
    <3>1. ASSUME Running(x), NEW i \in DOMAIN queue'[x]
          PROVE  \/ queue'[x][i].item = Data(Received(x) + i)
                 \/ queue'[x][i].item = Flush /\ i = Len(queue'[x])
      <4>1. i \in 1 .. Len(q) \/ i = Len(q) + 1
        BY <2>1
      <4>2. i \in 1 .. Len(q) => i \in DOMAIN queue[x] /\ queue'[x][i] = queue[x][i]
        BY <2>1
      <4> QED BY <1>9, <2>1, <3>1, <4>1, <4>2
    <3>2. queue_end_ts'[x] = <<>> /\ (Running(x) => x \notin expect_end_ts')
      BY <1>1, <1>9 DEF loopVars
    <3>3. Running(x) => recv_finished'[x] = {} /\ <<x, 1>> \notin dst_finished'
      BY <1>1 DEF EndTsAt, AtDecoder
    <3> QED BY <2>2, <2>3, <3>1, <3>2, <3>3 DEF AtDecoder
  <2>5. Counted(d, s, x)'
    <3>1. Queued(x)' = Len(q)
      <4>1. queue'[x] # <<>> /\ Last(queue'[x]).item = Flush
        BY <2>1 DEF Last
      <4>2. Len(q) + 1 - 1 = Len(q)
        BY <2>1
      <4> QED BY <2>1, <4>1, <4>2 DEF Queued
    <3>2. Running(x) => Queued(x) = Len(q)
      <4>1. q # <<>> => Len(q) \in DOMAIN q
        OBVIOUS
      <4>2. \A n : Data(n) # Flush
        BY DEF Data, Flush
      <4>3. Running(x) /\ q # <<>> => Last(q).item # Flush
        BY <1>9, <4>1, <4>2 DEF Last
      <4> QED BY <4>3 DEF Queued
    <3>3. Running(x) => nb_read[d][s] = Received(x) + Queued(x)
      BY <1>1 DEF EndTsAt, Counted
    <3> QED BY <1>10, <2>2, <2>3, <3>1, <3>2, <3>3 DEF Counted
  <2>6. Reported(d, s, x)'
    BY <1>1, <1>9, <2>3 DEF EndTsAt, Reported, loopVars
  <2> QED BY <1>7, <2>4, <2>5, <2>6 DEF EndTsAt
<1> QED BY <1>11, <1>12

LEMMA DemuxEndTs ==
  ASSUME Types, NEW x \in EndTs, NEW d, NEW s, Feeds(d, s, x), EndTsAt(d, s, x), DemuxNext(d)
  PROVE  EndTsAt(d, s, x)'
<1>0. /\ d \in Demuxers /\ x \in Decs /\ d # x /\ s \in DOMAIN Outs[d]
      /\ d \in Threads /\ x \in Threads /\ d \in Producers /\ x \in Consumers /\ Ports[x] = {1}
  BY OneSource, KindsOf, GraphAssumption
<1>1. ASSUME UNCHANGED <<queue, recv_finished, dst_finished, dataVars, loop>>,
             UNCHANGED <<expect_end_ts, end_ts_closed, last_frame>>, pc'[x] = pc[x],
             queue_end_ts'[x] = queue_end_ts[x]
      PROVE  SameDec(x) /\ SameClosed(x) /\ nb_read'[d][s] = nb_read[d][s]
  BY <1>1 DEF SameDec, SameClosed, dataVars
<1>2. ASSUME NEW v, pc' = Set(pc, d, v)
      PROVE  pc'[d] = v /\ pc'[x] = pc[x]
  BY <1>0, <1>2 DEF Set, Types, PcOK
<1>3. ASSUME NEW v, todo' = Set(todo, d, v)
      PROVE  todo'[d] = v
  BY <1>0, <1>3 DEF Set, Types, TodoOK
<1>4. ASSUME todo'[d] = <<>>, pc'[d] \in {"draining", "receiving", "flushing"} PROVE AtSource(d)'
  BY <1>4 DEF AtSource, Range
<1>5. CASE demux_ends(d) \/ demux_loop(d) \/ demux_flush_eof(d) \/ seek_to_start(d)
  <2>1. /\ pc[d] = "flushing" \/ (pc[d] = "receiving" /\ todo[d] = <<>>)
        /\ UNCHANGED <<queue, recv_finished, dst_finished, dataVars>>
        /\ UNCHANGED <<expect_end_ts, end_ts_closed, last_frame, queue_end_ts>>
    BY <1>5 DEF demux_ends, demux_loop, demux_flush_eof, seek_to_start, Idle, queueVars, loopVars
  <2>2. /\ pc'[x] = pc[x]
        /\ \/ pc'[d] = "draining" /\ todo'[d] = <<>>
           \/ pc'[d] = "flushing" /\ todo'[d] = Flushes(d)
           \/ pc'[d] = "receiving" /\ todo'[d] = <<>>
    <3>1. \/ pc' = Set(pc, d, "draining") /\ todo' = Set(todo, d, <<>>)
          \/ pc' = Set(pc, d, "flushing") /\ todo' = Set(todo, d, Flushes(d))
          \/ pc' = Set(pc, d, "receiving") /\ todo' = todo /\ todo[d] = <<>>
      BY <1>5 DEF demux_ends, demux_loop, demux_flush_eof, seek_to_start, Ends
    <3> QED BY <1>2, <1>3, <3>1
  <2>3. AtSource(d)'
    <3>1. CASE pc'[d] = "flushing" /\ todo'[d] = Flushes(d)
      <4>1. \A e \in Range(Flushes(d)) : e.item = Flush /\ e.dst[1] \in Decs
        BY <1>0, FlushesType
      <4> QED BY <3>1, <4>1 DEF AtSource
    <3> QED BY <1>4, <2>2, <3>1
  <2>4. SameDec(x) /\ SameClosed(x) /\ nb_read'[d][s] = nb_read[d][s]
    BY <2>1, <2>2 DEF SameDec, SameClosed, dataVars
  <2>5. ~Awaits(d, x) /\ ~Awaits(d, x)'
    BY <2>1, <2>2 DEF Awaits
  <2>6. Counted(d, s, x)'
    BY <2>1, <2>2, <2>4, CountedSame DEF EndTsAt
  <2>7. pc[d] # "cleanup"
    BY <2>1
  <2> QED BY <2>3, <2>4, <2>5, <2>6, <2>7, SourceStep
<1>6. CASE demux_end_ts(d)
  <2>1. /\ pc[d] = "waiting"
        /\ UNCHANGED <<queueVars, dataVars, expect_end_ts, end_ts_closed, last_frame>>
    BY <1>6 DEF demux_end_ts
  <2>2. PICK y : y = Head(todo[d]).dst[1]
    OBVIOUS
  <2>3. \/ /\ queue_end_ts[y] # <<>> /\ queue_end_ts' = Set(queue_end_ts, y, <<>>)
           /\ pc' = Set(pc, d, "flushing") /\ todo' = Set(todo, d, Tail(todo[d]))
        \/ /\ queue_end_ts[y] = <<>> /\ end_ts_closed[y] /\ UNCHANGED queue_end_ts
           /\ pc' = Set(pc, d, "draining") /\ todo' = Set(todo, d, <<>>)
    BY <1>6, <2>2 DEF demux_end_ts, Ends
  <2>4. todo[d] # <<>> /\ Head(todo[d]).dst = <<y, 1>> /\ y \in Decs
    <3>1. todo[d] # <<>> /\ y \in EndTs
      BY <2>1, <2>2 DEF EndTsAt, AtSource
    <3>2. y \in Decs
      BY <3>1, PipelineAssumption DEF PipelineAssumption
    <3>3. Head(todo[d]).dst[2] \in Ports[y] /\ Head(todo[d]).dst = <<Head(todo[d]).dst[1], Head(todo[d]).dst[2]>>
      BY <1>0, <2>2, <3>1, SendHead
    <3>4. Ports[y] = {1}
      BY <3>2, GraphAssumption
    <3> QED BY <2>2, <3>1, <3>2, <3>3, <3>4
  <2>5. pc'[x] = pc[x] /\ pc'[d] \in {"flushing", "draining"}
        /\ \/ pc'[d] = "flushing" /\ todo'[d] = Tail(todo[d])
           \/ pc'[d] = "draining" /\ todo'[d] = <<>>
    BY <1>2, <1>3, <2>3
  <2>6. AtSource(d)'
    <3>1. \A e \in Range(Tail(todo[d])) : e \in Range(todo[d])
      BY <1>0, <2>4, SendHead
    <3> QED BY <1>4, <2>1, <2>5, <3>1 DEF EndTsAt, AtSource
  <2>7. ~Awaits(d, x)'
    BY <2>5 DEF Awaits
  <2>8. CASE y # x
    <3>1. queue_end_ts'[x] = queue_end_ts[x]
      BY <1>0, <2>3, <2>8 DEF Set, Types, LoopOK
    <3>2. SameDec(x) /\ SameClosed(x) /\ nb_read'[d][s] = nb_read[d][s]
      BY <2>1, <2>5, <3>1 DEF SameDec, SameClosed, dataVars, queueVars
    <3>3. ~Awaits(d, x)
      BY <2>4, <2>8 DEF Awaits
    <3>4. Counted(d, s, x)'
      BY <2>1, <2>5, <3>2, CountedSame DEF EndTsAt
    <3> QED BY <2>1, <2>6, <2>7, <3>2, <3>3, <3>4, SourceStep
  <2>9. CASE y = x
    <3>1. Received(x)' = Received(x) /\ Queued(x)' = Queued(x) /\ Running(x)' = Running(x)
      BY <2>1, <2>5 DEF Received, Queued, Running, queueVars, dataVars
    <3>2. queue_end_ts'[x] = <<>>
      BY <1>0, <2>3, <2>9 DEF Set, Types, LoopOK
    <3>3. Running(x) => queue[x] = <<>> /\ x \notin expect_end_ts
      BY <2>3, <2>9 DEF EndTsAt, Reported
    <3>4. AtDecoder(d, x)'
      BY <2>1, <3>1, <3>3 DEF EndTsAt, AtDecoder, queueVars
    <3>5. Counted(d, s, x)'
      BY <2>1, <2>5, <3>1 DEF EndTsAt, Counted, dataVars
    <3>6. Reported(d, s, x)'
      BY <2>1, <3>1, <3>2 DEF EndTsAt, Reported
    <3> QED BY <2>6, <3>4, <3>5, <3>6 DEF EndTsAt
  <2> QED BY <2>8, <2>9
<1> QED BY <1>5, <1>6, ReadEndTs, FlushEndTs DEF DemuxNext

(* A thread other than the demuxer and the decoder goes on.                *)
LEMMA OthersEndTs ==
  ASSUME Types, NEW x \in EndTs, NEW d, NEW s, Feeds(d, s, x), EndTsAt(d, s, x),
         NEW t \in Threads \ {d, x},
         pc' = pc \/ \E v : pc' = Set(pc, t, v),
         todo' = todo \/ \E v : todo' = Set(todo, t, v),
         queue' = queue \/ \E c, v : c # x /\ queue' = Set(queue, c, v),
         recv_finished' = recv_finished \/ \E v : recv_finished' = Set(recv_finished, t, v),
         held' = held \/ \E v : held' = Set(held, t, v),
         last_frame' = last_frame \/ \E v : last_frame' = Set(last_frame, t, v),
         queue_end_ts' = queue_end_ts \/ \E c, v : c # x /\ queue_end_ts' = Set(queue_end_ts, c, v),
         end_ts_closed' = end_ts_closed \/ \E v : end_ts_closed' = Set(end_ts_closed, t, v),
         x \in expect_end_ts' <=> x \in expect_end_ts,
         nb_read' = nb_read \/ \E v : nb_read' = Set(nb_read, t, v),
         UNCHANGED dst_finished
  PROVE  EndTsAt(d, s, x)'
<1>0. /\ d \in Demuxers /\ x \in Decs /\ d # x /\ d \in Threads /\ x \in Threads /\ x \in Consumers /\ x \in Codecs
  BY OneSource, KindsOf
<1>1. /\ DOMAIN pc = Threads /\ DOMAIN todo = Threads /\ DOMAIN queue = Consumers /\ DOMAIN recv_finished = Consumers
      /\ DOMAIN held = Codecs /\ DOMAIN last_frame = Decs /\ DOMAIN queue_end_ts = Decs
      /\ DOMAIN end_ts_closed = Decs /\ DOMAIN nb_read = Demuxers
  BY DEF Types, PcOK, TodoOK, QueueOK, FlagsOK, DataOK, LoopOK
<1>2. pc'[x] = pc[x] /\ pc'[d] = pc[d] /\ todo'[d] = todo[d]
  BY <1>0, <1>1, SetAt
<1>3. queue'[x] = queue[x] /\ recv_finished'[x] = recv_finished[x]
  BY <1>0, <1>1, SetAt
<1>4. held'[x] = held[x] /\ last_frame'[x] = last_frame[x]
  BY <1>0, <1>1, SetAt
<1>5. queue_end_ts'[x] = queue_end_ts[x] /\ end_ts_closed'[x] = end_ts_closed[x]
  BY <1>0, <1>1, SetAt
<1>6. nb_read'[d] = nb_read[d]
  BY <1>0, <1>1, SetAt
<1>7. SameDec(x) /\ SameSource(d, s) /\ SameClosed(x)
  BY <1>2, <1>3, <1>4, <1>5, <1>6 DEF SameDec, SameSource, SameAt, SameClosed
<1> QED BY <1>7, EndTsSame

(* The decoder stops: it takes no more of what is sent.                    *)
LEMMA StopsEndTs ==
  ASSUME NEW x, NEW d, NEW s, EndTsAt(d, s, x), SameSource(d, s), pc'[x] # "receiving",
         queue_end_ts'[x] = queue_end_ts[x]
  PROVE  EndTsAt(d, s, x)'
<1>1. ~Running(x)' /\ Awaits(d, x)' = Awaits(d, x)
  BY DEF Running, Awaits, SameSource, SameAt
<1>2. AtSource(d)'
  BY DEF EndTsAt, AtSource, SameSource, SameAt
<1>3. AtDecoder(d, x)' /\ Counted(d, s, x)'
  BY <1>1 DEF AtDecoder, Counted
<1>4. Reported(d, s, x)'
  BY <1>1 DEF EndTsAt, Reported, SameSource
<1> QED BY <1>2, <1>3, <1>4 DEF EndTsAt

(* A queue none of whose streams is finished.                              *)
LEMMA ReceivesHead ==
  ASSUME Types, NEW x \in Consumers, recv_finished[x] = {}, NEW kind, Receives(x, kind)
  PROVE  /\ queue[x] # <<>> /\ Got(x) = queue[x][1] /\ Len(queue[x]) \in Nat \ {0}
         /\ queue'[x] \in Seq(Entry)
         /\ DOMAIN queue[x] = 1 .. Len(queue[x]) /\ DOMAIN queue'[x] = 1 .. Len(queue[x]) - 1
         /\ Len(queue'[x]) = Len(queue[x]) - 1
         /\ \A i \in 1 .. Len(queue[x]) - 1 : queue'[x][i] = queue[x][i + 1]
<1>1. PICK q \in Seq(Entry) : q = queue[x]
  BY DEF Types, QueueOK
<1>2. /\ FirstLive(x) \in 1 .. Len(q) /\ queue'[x] = SubSeq(q, FirstLive(x) + 1, Len(q))
  BY <1>1, ReceivesType
<1>3. Len(q) \in Nat \ {0} /\ DOMAIN q = 1 .. Len(q)
  BY <1>2
<1>4. FirstLive(x) = 1
  <2>1. 1 \in Live(x)
    BY <1>1, <1>3 DEF Live
  <2>2. \A j \in Live(x) : FirstLive(x) <= j
    BY <2>1, FirstLiveIs
  <2> QED BY <1>2, <2>1, <2>2
<1>5. 1 \in 0 .. Len(q)
  BY <1>3
<1>6. /\ SubSeq(q, 1 + 1, Len(q)) \in Seq(Entry) /\ Len(SubSeq(q, 1 + 1, Len(q))) = Len(q) - 1
      /\ \A i \in 1 .. Len(q) - 1 : SubSeq(q, 1 + 1, Len(q))[i] = q[1 + i]
  BY <1>5, SplitSeq, Zenon
<1>7. queue'[x] \in Seq(Entry) /\ Len(queue'[x]) = Len(q) - 1 /\ \A i \in 1 .. Len(q) - 1 : queue'[x][i] = q[1 + i]
  BY <1>2, <1>4, <1>6
<1>8. DOMAIN queue'[x] = 1 .. Len(q) - 1
  BY <1>7
<1>9. \A i \in 1 .. Len(q) - 1 : 1 + i = i + 1
  OBVIOUS
<1> QED BY <1>1, <1>3, <1>4, <1>7, <1>8, <1>9 DEF Got

LEMMA LastJoin ==
  ASSUME NEW a \in Seq(Nat), NEW b \in Seq(Nat)
  PROVE  IF b = <<>> THEN a \o b = a ELSE Last(a \o b) = Last(b)
<1>1. a \o <<>> = a
  BY ConcatEmptySeq
<1>2. CASE b # <<>>
  <2>1. Len(b) \in Nat \ {0} /\ Len(a) \in Nat /\ Len(a \o b) = Len(a) + Len(b)
    BY <1>2
  <2>2. (a \o b)[Len(a) + Len(b)] = b[Len(b)]
    BY <2>1
  <2> QED BY <1>2, <2>1, <2>2 DEF Last
<1> QED BY <1>1, <1>2

(* A packet that is decoded is the last one received, whether its frame is *)
(* put out or kept.                                                        *)
LEMMA ProcessReceived ==
  ASSUME Types, NEW x \in Decs, NEW n \in Nat, held'[x] = Keep(x, n), LastOf(Out(x, n), x)
  PROVE  Received(x)' = n
<1>0. x \in Codecs
  BY KindsOf
<1>1. PICK a \in Seq(Nat), b \in Seq(Nat), h \in Seq(Nat) :
        a = Out(x, n) /\ b = Keep(x, n) /\ h = held[x] /\ Append(h, n) = a \o b
  BY <1>0, OutAndKeep DEF Types, DataOK
<1>2. Last(Append(h, n)) = n /\ Append(h, n) # <<>>
  BY DEF Last
<1>3. IF b = <<>> THEN a \o b = a ELSE Last(a \o b) = Last(b)
  BY LastJoin
<1>4. last_frame'[x] = IF a = <<>> THEN last_frame[x] ELSE Last(a)
  BY <1>1, LastFrameType
<1> QED BY <1>1, <1>2, <1>3, <1>4 DEF Received

LEMMA PacketEndTs ==
  ASSUME Types, NEW x \in EndTs, NEW d, NEW s, Feeds(d, s, x), EndTsAt(d, s, x), dec_packet(x)
  PROVE  EndTsAt(d, s, x)'
<1>0. /\ d \in Demuxers /\ x \in Decs /\ d # x /\ d \in Threads /\ x \in Threads /\ x \in Consumers /\ x \in Codecs
      /\ d \in Producers
  BY OneSource, KindsOf
<1>1. /\ Running(x) /\ todo[x] = <<>> /\ Receives(x, "data") /\ Process(x)
      /\ LastOf(Out(x, Got(x).item.num), x)
      /\ UNCHANGED <<pc, recv_finished, dst_finished, expect_end_ts, queue_end_ts, end_ts_closed, nb_read>>
  BY DEF dec_packet, DecReceives, Idle, DecUnchanged, Running
<1>2. recv_finished[x] = {}
  BY <1>1 DEF EndTsAt, AtDecoder
<1>3. PICK q \in Seq(Entry), m \in Nat : q = queue[x] /\ m = Len(q)
  BY <1>0 DEF Types, QueueOK
<1>4. /\ q # <<>> /\ Got(x) = q[1] /\ m \in Nat \ {0} /\ DOMAIN q = 1 .. m
      /\ DOMAIN queue'[x] = 1 .. m - 1 /\ Len(queue'[x]) = m - 1 /\ queue'[x] \in Seq(Entry)
      /\ \A i \in 1 .. m - 1 : queue'[x][i] = q[i + 1]
  BY <1>0, <1>1, <1>2, <1>3, ReceivesHead
<1>40. m \in Nat \ {0}
  BY <1>4
<1>5. PICK r \in Nat : r = Received(x)
  BY <1>0, ReceivedType
<1>6. \A i \in DOMAIN q :
        \/ q[i].item = Data(r + i)
        \/ q[i].item = Flush /\ i = m /\ Awaits(d, x) /\ queue_end_ts[x] = <<>> /\ x \notin expect_end_ts
  BY <1>1, <1>3, <1>5 DEF EndTsAt, AtDecoder
<1>7. q[1].item = Data(r + 1) /\ Got(x).item.num = r + 1
  <2>1. q[1].item.kind = "data"
    BY <1>1, <1>4 DEF Receives
  <2>2. 1 \in DOMAIN q
    <3>1. 1 \in 1 .. m
      BY <1>40
    <3> QED BY <1>4, <3>1
  <2>3. q[1].item = Data(r + 1)
    BY <1>6, <2>1, <2>2 DEF Flush
  <2>4. q[1].item.num = r + 1
    BY <2>3 DEF Data
  <2> QED BY <1>4, <2>3, <2>4
<1>8. SameSource(d, s)
  <2>1. todo'[d] = todo[d]
    BY <1>0, <1>1 DEF Process, Set, Types, TodoOK
  <2> QED BY <1>1, <2>1 DEF SameSource, SameAt
<1>9. Received(x)' = r + 1
  <2>1. held'[x] = Keep(x, r + 1)
    BY <1>0, <1>1, <1>7 DEF Process, Set, Types, DataOK
  <2>2. LastOf(Out(x, r + 1), x) /\ r + 1 \in Nat
    BY <1>1, <1>7
  <2> QED BY <1>0, <2>1, <2>2, ProcessReceived
<1>10. Running(x)' /\ Awaits(d, x)' = Awaits(d, x)
  BY <1>1, <1>8 DEF Running, Awaits, SameSource, SameAt
<1>11. queue_end_ts[x] = <<>> /\ x \notin expect_end_ts
  <2>1. queue[x] # <<>>
    BY <1>3, <1>4
  <2> QED BY <1>1, <2>1 DEF EndTsAt, Reported, AtDecoder
<1>12. AtSource(d)'
  BY <1>8 DEF EndTsAt, AtSource, SameSource, SameAt
<1>13. AtDecoder(d, x)'
  <2>1. ASSUME NEW i \in 1 .. m - 1
        PROVE  \/ queue'[x][i].item = Data(r + 1 + i)
               \/ queue'[x][i].item = Flush /\ i = Len(queue'[x]) /\ Awaits(d, x)
    <3>1. i + 1 \in 1 .. m /\ r + (i + 1) = r + 1 + i /\ (i + 1 = m => i = m - 1)
      BY <1>40
    <3>2. \/ q[i + 1].item = Data(r + (i + 1))
          \/ q[i + 1].item = Flush /\ i + 1 = m /\ Awaits(d, x)
      BY <1>4, <1>6, <3>1
    <3> QED BY <1>4, <3>1, <3>2
  <2>2. pc'[d] # "cleanup" => <<x, 1>> \notin dst_finished'
    BY <1>1 DEF EndTsAt, AtDecoder
  <2> QED BY <1>1, <1>2, <1>4, <1>9, <1>10, <1>11, <2>1, <2>2 DEF AtDecoder
<1>14. Queued(x)' \in Nat /\ Queued(x) = Queued(x)' + 1
  <2>1. CASE m = 1
    <3>1. Last(q).item # Flush
      BY <1>3, <1>7, <2>1 DEF Last, Data, Flush
    <3>2. Queued(x) = 1
      BY <1>3, <1>4, <2>1, <3>1 DEF Queued
    <3>3. DOMAIN queue'[x] = {}
      BY <1>4, <2>1
    <3>4. queue'[x] = <<>> /\ Len(queue'[x]) = 0
      BY <1>4, <3>3, EmptyDomain
    <3> QED BY <3>2, <3>4 DEF Queued
  <2>2. CASE m # 1
    <3>1. m - 1 \in 1 .. m - 1 /\ m - 1 + 1 = m /\ m - 1 \in Nat /\ m - 1 - 1 \in Nat
          /\ m - 1 = (m - 1 - 1) + 1
      BY <1>40, <2>2
    <3>2. queue'[x] # <<>>
      BY <1>4, <3>1
    <3>3. Last(queue'[x]) = Last(q)
      BY <1>3, <1>4, <3>1 DEF Last
    <3>4. Queued(x) = (IF Last(q).item = Flush THEN m - 1 ELSE m)
      BY <1>3, <1>4 DEF Queued
    <3>5. Queued(x)' = (IF Last(q).item = Flush THEN m - 1 - 1 ELSE m - 1)
      BY <1>4, <3>2, <3>3 DEF Queued
    <3> QED BY <3>1, <3>4, <3>5
  <2> QED BY <2>1, <2>2
<1>16. (r + 1) + Queued(x)' = r + Queued(x)
  BY <1>14
<1>17. Counted(d, s, x)'
  BY <1>1, <1>5, <1>8, <1>9, <1>10, <1>16 DEF EndTsAt, Counted, SameSource, SameAt
<1>18. Reported(d, s, x)'
  BY <1>1, <1>10, <1>11 DEF EndTsAt, Reported
<1> QED BY <1>12, <1>13, <1>17, <1>18 DEF EndTsAt

LEMMA FlushedEndTs ==
  ASSUME Types, NEW x \in EndTs, NEW d, NEW s, Feeds(d, s, x), EndTsAt(d, s, x), dec_flush(x)
  PROVE  EndTsAt(d, s, x)'
<1>0. /\ d \in Demuxers /\ x \in Decs /\ d # x /\ d \in Threads /\ x \in Threads /\ x \in Consumers /\ x \in Codecs
  BY OneSource, KindsOf
<1>1. /\ Running(x) /\ Receives(x, "flush") /\ todo' = Set(todo, x, Flushed(x)) /\ held' = Set(held, x, <<>>)
      /\ LastOf(held[x], x) /\ expect_end_ts' = expect_end_ts \cup ({x} \cap EndTs)
      /\ UNCHANGED <<pc, recv_finished, dst_finished, queue_end_ts, end_ts_closed, nb_read>>
  BY DEF dec_flush, DecReceives, Idle, DecUnchanged, Running
<1>2. recv_finished[x] = {}
  BY <1>1 DEF EndTsAt, AtDecoder
<1>3. PICK q \in Seq(Entry), m \in Nat : q = queue[x] /\ m = Len(q)
  BY <1>0 DEF Types, QueueOK
<1>4. /\ q # <<>> /\ Got(x) = q[1] /\ m \in Nat \ {0} /\ DOMAIN q = 1 .. m
      /\ DOMAIN queue'[x] = 1 .. m - 1 /\ queue'[x] \in Seq(Entry)
  BY <1>0, <1>1, <1>2, <1>3, ReceivesHead
<1>5. q[1].item = Flush /\ 1 = m /\ Awaits(d, x) /\ queue_end_ts[x] = <<>>
  <2>1. q[1].item.kind = "flush"
    BY <1>1, <1>4 DEF Receives
  <2>2. 1 \in DOMAIN q
    <3>1. 1 \in 1 .. m
      BY <1>4
    <3> QED BY <1>4, <3>1
  <2>3. \A n : Data(n).kind = "data"
    BY DEF Data
  <2> QED BY <1>1, <1>3, <2>1, <2>2, <2>3 DEF EndTsAt, AtDecoder
<1>6. queue'[x] = <<>>
  <2>1. DOMAIN queue'[x] = {}
    BY <1>4, <1>5
  <2> QED BY <1>4, <2>1, EmptyDomain
<1>7. SameSource(d, s)
  <2>1. todo'[d] = todo[d]
    BY <1>0, <1>1 DEF Set, Types, TodoOK
  <2> QED BY <1>1, <2>1 DEF SameSource, SameAt
<1>8. held'[x] = <<>>
  BY <1>0, <1>1, HeldEmptied
<1>9. Received(x)' = Received(x)
  <2>1. held[x] \in Seq(Nat)
    BY <1>0 DEF Types, DataOK
  <2>2. last_frame'[x] = IF held[x] = <<>> THEN last_frame[x] ELSE Last(held[x])
    BY <1>0, <1>1, <2>1, LastFrameType
  <2> QED BY <1>8, <2>2 DEF Received
<1>10. Running(x)' /\ Awaits(d, x)'
  BY <1>1, <1>5, <1>7 DEF Running, Awaits, SameSource, SameAt
<1>11. Queued(x)' = Queued(x)
  <2>1. Queued(x)' = 0
    BY <1>6 DEF Queued
  <2>2. Queued(x) = 0
    BY <1>3, <1>4, <1>5 DEF Queued, Last
  <2> QED BY <2>1, <2>2
<1>12. AtSource(d)'
  BY <1>7 DEF EndTsAt, AtSource, SameSource, SameAt
<1>13. AtDecoder(d, x)'
  BY <1>1, <1>2, <1>5, <1>6, <1>8, <1>10 DEF EndTsAt, AtDecoder
<1>14. Counted(d, s, x)'
  BY <1>1, <1>7, <1>9, <1>11 DEF EndTsAt, Counted, SameSource, SameAt, Running
<1>15. Reported(d, s, x)'
  BY <1>1, <1>5, <1>10 DEF EndTsAt, Reported
<1> QED BY <1>12, <1>13, <1>14, <1>15 DEF EndTsAt

LEMMA ReportEndTs ==
  ASSUME Types, NEW x \in EndTs, NEW d, NEW s, Feeds(d, s, x), EndTsAt(d, s, x), dec_end_ts(x)
  PROVE  EndTsAt(d, s, x)'
<1>0. x \in Decs
  BY OneSource
<1>1. /\ Running(x) /\ x \in expect_end_ts /\ queue_end_ts' = Set(queue_end_ts, x, <<last_frame[x]>>)
      /\ expect_end_ts' = expect_end_ts \ {x}
      /\ UNCHANGED <<pc, todo, queue, recv_finished, dst_finished, held, nb_read, end_ts_closed, last_frame>>
  BY DEF dec_end_ts, Idle, Running, queueVars, dataVars
<1>2. Awaits(d, x) /\ queue[x] = <<>> /\ held[x] = <<>>
  BY <1>1 DEF EndTsAt, AtDecoder
<1>3. queue_end_ts'[x] = <<last_frame[x]>>
  BY <1>0, <1>1 DEF Set, Types, LoopOK
<1>4. nb_read[d][s] = last_frame[x]
  <2>1. Received(x) = last_frame[x] /\ Queued(x) = 0
    BY <1>2 DEF Received, Queued
  <2>2. nb_read[d][s] = Received(x) + Queued(x)
    BY <1>1, <1>2 DEF EndTsAt, Counted, Awaits
  <2> QED BY <1>0, <2>1, <2>2, ReceivedType
<1>5. Received(x)' = Received(x) /\ Queued(x)' = Queued(x) /\ Running(x)' = Running(x) /\ Awaits(d, x)' = Awaits(d, x)
  BY <1>1 DEF Received, Queued, Running, Awaits
<1>6. AtSource(d)' /\ Counted(d, s, x)'
  BY <1>1, <1>5 DEF EndTsAt, AtSource, Counted
<1>7. AtDecoder(d, x)'
  BY <1>1, <1>2, <1>5 DEF EndTsAt, AtDecoder
<1>8. Reported(d, s, x)'
  BY <1>1, <1>2, <1>3, <1>4, <1>5 DEF EndTsAt, Reported
<1> QED BY <1>6, <1>7, <1>8 DEF EndTsAt

LEMMA DecoderEndTs ==
  ASSUME Types, NEW x \in EndTs, NEW d, NEW s, Feeds(d, s, x), EndTsAt(d, s, x), DecNext(x)
  PROVE  EndTsAt(d, s, x)'
<1>0. d # x /\ d \in Threads /\ x \in Decs /\ x \in Threads
  BY OneSource, KindsOf
<1>1. CASE dec_eof(x) \/ dec_exit(x)
  <2>1. /\ pc' = Set(pc, x, "draining") /\ \E v : todo' = Set(todo, x, v)
        /\ UNCHANGED <<queue_end_ts, nb_read>>
    BY <1>1 DEF dec_eof, dec_exit, Ends, DecUnchanged, loopVars, dataVars
  <2>2. pc'[x] # "receiving" /\ SameSource(d, s)
    BY <1>0, <2>1 DEF Set, SameSource, SameAt, Types, PcOK, TodoOK
  <2> QED BY <2>1, <2>2, StopsEndTs
<1> QED BY <1>1, PacketEndTs, FlushedEndTs, ReportEndTs DEF DecNext

(* The steps that all threads have in common.                              *)
LEMMA CommonEndTs ==
  ASSUME Types, NEW x \in EndTs, NEW d, NEW s, Feeds(d, s, x), EndTsAt(d, s, x),
         NEW t \in Threads, task_cleanup(t) \/ task_fails(t)
  PROVE  EndTsAt(d, s, x)'
<1>0. /\ d # x /\ d \in Threads /\ d \in Demuxers /\ x \in Decs /\ x \in Threads /\ x \in Consumers
      /\ d \notin Consumers /\ d \in Producers /\ d \notin Decs
  BY OneSource, KindsOf, Kinds
<1>1. /\ \E v : pc' = Set(pc, t, v)
      /\ pc' = Set(pc, t, "draining") \/ pc' = Set(pc, t, "cleanup")
      /\ todo' = todo \/ \E v : todo' = Set(todo, t, v)
      /\ recv_finished' = recv_finished \/ (t \in Consumers /\ recv_finished' = Set(recv_finished, t, Ports[t]))
      /\ end_ts_closed' = end_ts_closed \/ (t \in Decs /\ end_ts_closed' = Set(end_ts_closed, t, TRUE))
      /\ UNCHANGED <<queue, held, last_frame, queue_end_ts, expect_end_ts, nb_read, dst_finished>>
  BY DEF task_cleanup, task_fails, Ends, queueVars, dataVars, loopVars
<1>2. CASE t \notin {d, x}
  BY <1>1, <1>2, OthersEndTs
<1>3. CASE t = x
  <2>1. pc'[x] # "receiving" /\ SameSource(d, s)
    BY <1>0, <1>1, <1>3 DEF Set, SameSource, SameAt, Types, PcOK, TodoOK
  <2> QED BY <1>1, <2>1, StopsEndTs
<1>4. CASE t = d
  <2>1. SameDec(x) /\ SameClosed(x)
    BY <1>0, <1>1, <1>4 DEF Set, SameDec, SameClosed, Types, PcOK, TodoOK
  <2>2. \/ pc'[d] = "draining" /\ todo'[d] = <<>> /\ pc[d] \in {"receiving", "flushing"}
        \/ pc'[d] = "cleanup" /\ todo'[d] = Sends(<<Close>>, DstsOf(d)) /\ pc[d] = "draining"
    BY <1>0, <1>4 DEF task_cleanup, task_fails, Ends, Set, Types, PcOK, TodoOK
  <2>3. AtSource(d)'
    <3>1. CASE pc'[d] = "draining" /\ todo'[d] = <<>>
      BY <3>1 DEF AtSource
    <3>2. CASE pc'[d] = "cleanup" /\ todo'[d] = Sends(<<Close>>, DstsOf(d))
      <4>1. Sends(<<Close>>, DstsOf(d)) = [j \in DOMAIN DstsOf(d) |-> [dst |-> DstsOf(d)[j], item |-> Close]]
        BY <1>0, OutputsType, ItemsType, SendsOne
      <4>2. \A e \in Range(todo'[d]) : e.item = Close
        BY <3>2, <4>1 DEF Range
      <4> QED BY <3>2, <4>2 DEF AtSource
    <3> QED BY <2>2, <3>1, <3>2
  <2>4. ~Awaits(d, x) /\ ~Awaits(d, x)' /\ Counted(d, s, x)' /\ pc[d] # "cleanup"
    BY <2>2 DEF Awaits, Counted
  <2> QED BY <2>1, <2>3, <2>4, SourceStep
<1> QED BY <1>2, <1>3, <1>4

LEMMA DropEndTs ==
  ASSUME Types, NEW x \in EndTs, NEW d, NEW s, Feeds(d, s, x), EndTsAt(d, s, x),
         NEW c \in Consumers, tq_drop(c)
  PROVE  EndTsAt(d, s, x)'
<1>1. /\ Idle(c) /\ queue[c] # <<>> /\ Live(c) = {} /\ queue' = Set(queue, c, <<>>)
      /\ UNCHANGED <<pc, todo, recv_finished, dst_finished, held, nb_read, loopVars>>
  BY DEF tq_drop, dataVars
<1>2. c # x
  <2> SUFFICES ASSUME c = x PROVE FALSE
    OBVIOUS
  <2>1. recv_finished[x] = {}
    BY <1>1 DEF EndTsAt, AtDecoder, Running, Idle
  <2>2. DOMAIN queue[x] = {}
    BY <1>1, <2>1 DEF Live
  <2>3. queue[x] \in Seq(Entry)
    BY DEF Types, QueueOK
  <2> QED BY <1>1, <2>2, <2>3, EmptyDomain
<1>3. queue'[x] = queue[x]
  BY <1>1, <1>2, OneSource, KindsOf, EmptiedType
<1>4. SameDec(x) /\ SameSource(d, s) /\ SameClosed(x)
  BY <1>1, <1>3 DEF SameDec, SameSource, SameAt, SameClosed, loopVars
<1> QED BY <1>4, EndTsSame

(* A thread that takes from a queue takes from its own.                    *)
LEMMA TakesOwn ==
  ASSUME NEW c, NEW kind, Receives(c, kind) \/ ReceivesEof(c)
  PROVE  \E v : queue' = Set(queue, c, v)
BY DEF Receives, ReceivesEof, Set

LEMMA OtherConsumerEndTs ==
  ASSUME Types, NEW x \in EndTs, NEW d, NEW s, Feeds(d, s, x), EndTsAt(d, s, x),
         NEW t \in Consumers \ {x},
         (t \in Decs /\ DecNext(t)) \/ (t \in Filters /\ FilterNext(t)) \/ (t \in Encs /\ EncNext(t))
           \/ (t \in Muxes /\ MuxNext(t))
  PROVE  EndTsAt(d, s, x)'
<1>0. t \in Threads \ {d, x}
  BY OneSource, KindsOf, Zenon
<1>1. CASE t \in Decs /\ DecNext(t)
  <2>1. /\ pc' = pc \/ \E v : pc' = Set(pc, t, v)
        /\ todo' = todo \/ \E v : todo' = Set(todo, t, v)
        /\ held' = held \/ \E v : held' = Set(held, t, v)
        /\ last_frame' = last_frame \/ \E v : last_frame' = Set(last_frame, t, v)
        /\ queue_end_ts' = queue_end_ts \/ \E v : queue_end_ts' = Set(queue_end_ts, t, v)
        /\ UNCHANGED <<end_ts_closed, nb_read, dst_finished>>
    BY <1>1 DEF DecNext, dec_end_ts, dec_packet, dec_flush, dec_eof, dec_exit, DecUnchanged, dataVars, queueVars,
         loopVars, Process, Ends, LastOf
  <2>2. x \in expect_end_ts' <=> x \in expect_end_ts
    BY <1>1 DEF DecNext, dec_end_ts, dec_packet, dec_flush, dec_eof, dec_exit, DecUnchanged, loopVars
  <2>3. queue' = queue \/ \E v : queue' = Set(queue, t, v)
    BY <1>1, TakesOwn DEF DecNext, dec_end_ts, dec_packet, dec_flush, dec_eof, dec_exit, queueVars
  <2>4. recv_finished' = recv_finished \/ \E v : recv_finished' = Set(recv_finished, t, v)
    BY <1>1 DEF DecNext, dec_end_ts, dec_packet, dec_flush, dec_eof, dec_exit, queueVars, ReceivesEof, Set
  <2> QED BY <1>0, <2>1, <2>2, <2>3, <2>4, OthersEndTs
<1>2. CASE t \in Filters /\ FilterNext(t)
  <2>1. /\ pc' = pc \/ \E v : pc' = Set(pc, t, v)
        /\ todo' = todo \/ \E v : todo' = Set(todo, t, v)
        /\ held' = held \/ \E v : held' = Set(held, t, v)
        /\ UNCHANGED <<last_frame, queue_end_ts, end_ts_closed, nb_read, dst_finished, expect_end_ts>>
    BY <1>2 DEF FilterNext, filter_frame, filter_receive_finish, filter_eof_frame, filter_stream_eof, filter_ends,
         FilterUnchanged, dataVars, queueVars, loopVars, Feed, Ends
  <2>2. queue' = queue \/ \E v : queue' = Set(queue, t, v)
    BY <1>2, TakesOwn DEF FilterNext, filter_frame, filter_receive_finish, filter_eof_frame, filter_stream_eof,
         filter_ends, queueVars
  <2>3. recv_finished' = recv_finished \/ \E v : recv_finished' = Set(recv_finished, t, v)
    BY <1>2 DEF FilterNext, filter_frame, filter_receive_finish, filter_eof_frame, filter_stream_eof,
         filter_ends, queueVars, ReceivesEof, Set
  <2> QED BY <1>0, <2>1, <2>2, <2>3, OthersEndTs
<1>3. CASE t \in Encs /\ EncNext(t)
  <2>1. /\ pc' = pc \/ \E v : pc' = Set(pc, t, v)
        /\ todo' = todo \/ \E v : todo' = Set(todo, t, v)
        /\ held' = held \/ \E v : held' = Set(held, t, v)
        /\ UNCHANGED <<last_frame, queue_end_ts, end_ts_closed, nb_read, dst_finished, expect_end_ts>>
    BY <1>3 DEF EncNext, enc_frame, enc_finishes, enc_eof, EncUnchanged, loopVars, Process, Ends
  <2>2. queue' = queue \/ \E v : queue' = Set(queue, t, v)
    BY <1>3, TakesOwn DEF EncNext, enc_frame, enc_finishes, enc_eof
  <2>3. recv_finished' = recv_finished \/ \E v : recv_finished' = Set(recv_finished, t, v)
    BY <1>3 DEF EncNext, enc_frame, enc_finishes, enc_eof, ReceivesEof, Set
  <2> QED BY <1>0, <2>1, <2>2, <2>3, OthersEndTs
<1>4. CASE t \in Muxes /\ MuxNext(t)
  <2>1. /\ pc' = pc \/ \E v : pc' = Set(pc, t, v)
        /\ todo' = todo \/ \E v : todo' = Set(todo, t, v)
        /\ UNCHANGED <<held, last_frame, queue_end_ts, end_ts_closed, nb_read, dst_finished, expect_end_ts>>
    BY <1>4 DEF MuxNext, mux_packet, mux_receive_finish, mux_finishes, mux_eof, MuxUnchanged, dataVars, loopVars, Ends
  <2>2. queue' = queue \/ \E v : queue' = Set(queue, t, v)
    BY <1>4, TakesOwn DEF MuxNext, mux_packet, mux_receive_finish, mux_finishes, mux_eof
  <2>3. recv_finished' = recv_finished \/ \E v : recv_finished' = Set(recv_finished, t, v)
    BY <1>4 DEF MuxNext, mux_packet, mux_receive_finish, mux_finishes, mux_eof, ReceivesEof, Set
  <2> QED BY <1>0, <2>1, <2>2, <2>3, OthersEndTs
<1> QED BY <1>1, <1>2, <1>3, <1>4

(* A demuxer waits for the decoder that it has sent a flush to.            *)
WaitsInv == \A t \in Demuxers : pc[t] = "waiting" => todo[t] # <<>>

LEMMA OnlySelf ==
  ASSUME Types, NEW u \in Threads, ThreadNext(u) \/ task_fails(u), NEW t \in Threads \ {u}
  PROVE  SameAt(t)
<1>1. CASE Send(u) \/ task_cleanup(u) \/ task_fails(u) \/ tq_drop(u)
  <2>1. (pc' = pc \/ \E v : pc' = Set(pc, u, v)) /\ (todo' = todo \/ \E v : todo' = Set(todo, u, v))
    BY <1>1 DEF Send, task_cleanup, task_fails, Ends, tq_drop, Set
  <2> QED BY <2>1, SetAt DEF SameAt, Types, PcOK, TodoOK
<1>2. CASE DemuxNext(u)
  <2>1. (pc' = pc \/ \E v : pc' = Set(pc, u, v)) /\ (todo' = todo \/ \E v : todo' = Set(todo, u, v))
    BY <1>2, Zenon DEF DemuxNext, demux_read, demux_ends, demux_loop, demux_flush_eof, demux_flush, demux_end_ts,
         seek_to_start, Ends
  <2> QED BY <2>1, SetAt DEF SameAt, Types, PcOK, TodoOK
<1>3. CASE DecNext(u)
  <2>1. (pc' = pc \/ \E v : pc' = Set(pc, u, v)) /\ (todo' = todo \/ \E v : todo' = Set(todo, u, v))
    BY <1>3 DEF DecNext, dec_end_ts, dec_packet, dec_flush, dec_eof, dec_exit, Process, Ends
  <2> QED BY <2>1, SetAt DEF SameAt, Types, PcOK, TodoOK
<1>4. CASE FilterNext(u)
  <2>1. (pc' = pc \/ \E v : pc' = Set(pc, u, v)) /\ (todo' = todo \/ \E v : todo' = Set(todo, u, v))
    BY <1>4 DEF FilterNext, filter_frame, filter_receive_finish, filter_eof_frame, filter_stream_eof, filter_ends,
         Feed, Ends
  <2> QED BY <2>1, SetAt DEF SameAt, Types, PcOK, TodoOK
<1>5. CASE EncNext(u) \/ MuxNext(u)
  <2>1. (pc' = pc \/ \E v : pc' = Set(pc, u, v)) /\ (todo' = todo \/ \E v : todo' = Set(todo, u, v))
    BY <1>5 DEF EncNext, enc_frame, enc_finishes, enc_eof, Process, Ends, MuxNext, mux_packet, mux_receive_finish,
         mux_finishes, mux_eof
  <2> QED BY <2>1, SetAt DEF SameAt, Types, PcOK, TodoOK
<1> QED BY <1>1, <1>2, <1>3, <1>4, <1>5 DEF ThreadNext

LEMMA NextWaits ==
  ASSUME Types, WaitsInv, [Next]_vars
  PROVE  WaitsInv'
<1> SUFFICES ASSUME NEW t \in Demuxers PROVE pc'[t] = "waiting" => todo'[t] # <<>>
  BY DEF WaitsInv
<1>0. t \in Threads /\ t \notin Decs \cup Filters \cup Encs \cup Muxes
  BY KindsOf DEF Consumers
<1>1. SameAt(t) => (pc'[t] = "waiting" => todo'[t] # <<>>)
  BY DEF SameAt, WaitsInv
<1>2. ASSUME NEW u \in Threads \ {t}, ThreadNext(u) \/ task_fails(u) PROVE SameAt(t)
  BY <1>0, <1>2, OnlySelf
<1>3. ASSUME NEW v, pc' = Set(pc, t, v) PROVE pc'[t] = v
  BY <1>0, <1>3 DEF Set, Types, PcOK
<1>4. CASE Send(t)
  BY <1>4 DEF Send
<1>5. CASE task_cleanup(t) \/ task_fails(t)
  <2>1. pc' = Set(pc, t, "cleanup") \/ pc' = Set(pc, t, "draining")
    BY <1>5 DEF task_cleanup, task_fails, Ends
  <2> QED BY <1>3, <2>1
<1>6. CASE DemuxNext(t)
  <2>1. CASE demux_flush(t)
    <3>1. todo[t] # <<>> /\ (UNCHANGED todo \/ UNCHANGED pc) /\ pc[t] = "flushing"
      BY <2>1, SMTT(20) DEF demux_flush
    <3> QED BY <3>1
  <2>3. CASE ~demux_flush(t)
    <3>1. \/ pc' = Set(pc, t, "draining") \/ pc' = Set(pc, t, "flushing") \/ pc' = Set(pc, t, "receiving")
          \/ \E s \in DOMAIN Outs[t] : demux_read(t, s)
      BY <1>6, <2>3 DEF DemuxNext, demux_ends, demux_loop, demux_flush_eof, demux_end_ts, seek_to_start, Ends
    <3>2. ASSUME NEW s, demux_read(t, s) PROVE pc'[t] # "waiting"
      BY <3>2 DEF demux_read, Idle
    <3> QED BY <1>3, <3>1, <3>2
  <2> QED BY <2>1, <2>3
<1>7. CASE UNCHANGED vars \/ sch_stop \/ StopJoin
  BY <1>1, <1>7 DEF vars, sch_stop, StopJoin, SameAt
<1>8. ASSUME ThreadNext(t) PROVE Send(t) \/ task_cleanup(t) \/ DemuxNext(t)
  BY <1>0, <1>8 DEF ThreadNext, Consumers
<1> QED BY <1>1, <1>2, <1>4, <1>5, <1>6, <1>7, <1>8 DEF Next

LEMMA OtherDemuxEndTs ==
  ASSUME Types, WaitsInv, NEW x \in EndTs, NEW d, NEW s, Feeds(d, s, x), EndTsAt(d, s, x),
         NEW t \in Demuxers \ {d}, DemuxNext(t)
  PROVE  EndTsAt(d, s, x)'
<1>1. t \in Threads \ {d, x}
  BY OneSource, KindsOf
<1>2. todo[t] # <<>> => Head(todo[t]).dst[1] # x
  BY <1>1, OthersSend
<1>3. pc[t] = "waiting" => todo[t] # <<>>
  BY DEF WaitsInv
<1>4. /\ pc' = pc \/ \E v : pc' = Set(pc, t, v)
      /\ todo' = todo \/ \E v : todo' = Set(todo, t, v)
      /\ UNCHANGED <<held, last_frame, end_ts_closed, dst_finished, expect_end_ts, recv_finished>>
  BY Zenon DEF DemuxNext, demux_read, demux_ends, demux_loop, demux_flush_eof, demux_flush, demux_end_ts,
         seek_to_start, Ends, dataVars, loopVars, queueVars, InputUnchanged
<1>5. nb_read' = nb_read \/ \E v : nb_read' = Set(nb_read, t, v)
  BY Zenon DEF DemuxNext, demux_read, demux_ends, demux_loop, demux_flush_eof, demux_flush, demux_end_ts,
         seek_to_start, dataVars, Set
<1>6. queue' = queue \/ \E c, v : c # x /\ queue' = Set(queue, c, v)
  <2>1. CASE demux_flush(t)
    <3>1. todo[t] # <<>> /\ \E v : queue' = Set(queue, Head(todo[t]).dst[1], v)
      BY <2>1, Zenon DEF demux_flush, Set
    <3> QED BY <1>2, <3>1
  <2>2. CASE ~demux_flush(t)
    BY <2>2 DEF DemuxNext, demux_read, demux_ends, demux_loop, demux_flush_eof, demux_end_ts, seek_to_start, queueVars
  <2> QED BY <2>1, <2>2
<1>7. queue_end_ts' = queue_end_ts \/ \E c, v : c # x /\ queue_end_ts' = Set(queue_end_ts, c, v)
  <2>1. CASE demux_end_ts(t)
    <3>1. pc[t] = "waiting" /\
          (queue_end_ts' = queue_end_ts \/ \E v : queue_end_ts' = Set(queue_end_ts, Head(todo[t]).dst[1], v))
      BY <2>1 DEF demux_end_ts
    <3> QED BY <1>2, <1>3, <3>1
  <2>2. CASE ~demux_end_ts(t)
    BY <2>2, Zenon DEF DemuxNext, demux_read, demux_ends, demux_loop, demux_flush_eof, demux_flush, seek_to_start, loopVars
  <2> QED BY <2>1, <2>2
<1> QED BY <1>1, <1>4, <1>5, <1>6, <1>7, OthersEndTs

LEMMA NextEndTs ==
  ASSUME Types, WaitsInv, EndTsInv, [Next]_vars
  PROVE  EndTsInv'
<1> SUFFICES ASSUME NEW x \in EndTs, NEW d \in Demuxers, NEW s \in DOMAIN Outs[d], Feeds(d, s, x)
             PROVE  EndTsAt(d, s, x)'
  BY DEF EndTsInv
<1>1. EndTsAt(d, s, x)
  BY DEF EndTsInv
<1>2. CASE UNCHANGED vars \/ sch_stop \/ StopJoin
  <2>1. UNCHANGED <<pc, todo, queueVars, dataVars, loopVars>>
    BY <1>2 DEF vars, sch_stop, StopJoin
  <2>2. SameDec(x) /\ SameSource(d, s) /\ SameClosed(x)
    BY <2>1 DEF SameDec, SameSource, SameAt, SameClosed, queueVars, dataVars, loopVars
  <2> QED BY <1>1, <2>2, EndTsSame
<1>3. ASSUME NEW t \in Threads, task_fails(t) PROVE EndTsAt(d, s, x)'
  BY <1>1, <1>3, CommonEndTs
<1>4. ASSUME NEW t \in Threads, ThreadNext(t) PROVE EndTsAt(d, s, x)'
  <2>0. Decs \cup Filters \cup Encs \cup Muxes \subseteq Consumers /\ x \in Decs
    BY OneSource DEF Consumers
  <2>1. CASE Send(t) \/ task_cleanup(t)
    BY <1>1, <2>1, SendEndTs, CommonEndTs
  <2>2. CASE t \in Demuxers /\ DemuxNext(t)
    BY <1>1, <2>2, DemuxEndTs, OtherDemuxEndTs
  <2>3. CASE t \in Consumers /\ tq_drop(t)
    BY <1>1, <2>3, DropEndTs
  <2>4. CASE t = x /\ DecNext(t)
    BY <1>1, <2>4, DecoderEndTs
  <2>5. CASE t # x /\ ((t \in Decs /\ DecNext(t)) \/ (t \in Filters /\ FilterNext(t))
                        \/ (t \in Encs /\ EncNext(t)) \/ (t \in Muxes /\ MuxNext(t)))
    <3>1. t \in Consumers \ {x}
      BY <2>0, <2>5
    <3> QED BY <1>1, <2>5, <3>1, OtherConsumerEndTs
  <2>6. x \notin Filters \cup Encs \cup Muxes
    BY <2>0, Kinds
  <2> QED BY <1>4, <2>1, <2>2, <2>3, <2>4, <2>5, <2>6 DEF ThreadNext
<1> QED BY <1>2, <1>3, <1>4 DEF Next

(* What was read for the decoder.                                          *)
LEMMA ReadForIs ==
  ASSUME NEW x \in EndTs, NEW d, NEW s, Feeds(d, s, x)
  PROVE  ReadFor(<<x, 1>>) = nb_read[d][s]
<1> DEFINE streams == UNION {{t} \X DOMAIN Outs[t] : t \in Demuxers}
           Source(y) == y[1] \in Path(<<x, 1>>) /\ \E o \in Range(Outs[y[1]][y[2]]) : o = <<x, 1>> \/ o[1] \in Path(<<x, 1>>)
<1>0. d \in Demuxers /\ s \in DOMAIN Outs[d] /\ d \in Producers /\ d \notin Consumers
  BY OneSource, KindsOf
<1>1. Path(<<x, 1>>) = {d}
  <2>1. d \in Path(<<x, 1>>)
    BY OneSource, PathStart
  <2>2. InputsOf({d}) = {}
    BY <1>0 DEF InputsOf
  <2>3. \A t \in Producers : <<x, 1>> \in Range(DstsOf(t)) => t = d
    <3>1. \A t \in Threads \ {d} : <<x, 1>> \notin DstsFrom(t)
      BY OneSource
    <3> QED BY <3>1, KindsOf DEF DstsFrom
  <2>4. Upstream(<<x, 1>>, {d})
    BY <2>2, <2>3 DEF Upstream, ProducersOf
  <2>5. \A t \in Path(<<x, 1>>) : t \in {d}
    BY <1>0, <2>4 DEF Path
  <2> QED BY <2>1, <2>5
<1>2. <<d, s>> \in streams /\ Source(<<d, s>>)
  BY <1>0, <1>1 DEF Feeds
<1>3. ASSUME NEW y \in streams, Source(y) PROVE y = <<d, s>>
  <2>1. y[1] = d /\ y = <<d, y[2]>> /\ y[2] \in DOMAIN Outs[d]
    BY <1>1, <1>3
  <2>2. PICK o \in Range(Outs[d][y[2]]) : o = <<x, 1>> \/ o[1] = d
    BY <1>1, <1>3, <2>1
  <2>3. o \in Dsts
    BY <1>0, <2>1, <2>2, OutputsType DEF Range
  <2>4. o = <<x, 1>>
    BY <1>0, <2>2, <2>3, DstsType
  <2>5. y[2] = s
    BY <2>1, <2>2, <2>4, OneSource
  <2> QED BY <2>1, <2>5
<1> HIDE DEF streams, Source
<1> DEFINE source == CHOOSE y \in streams : Source(y)
<1>4. source = <<d, s>>
  BY <1>2, <1>3
<1>5. ReadFor(<<x, 1>>) = nb_read[source[1]][source[2]]
  BY DEF ReadFor, streams, Source
<1> HIDE DEF source
<1> QED BY <1>4, <1>5

(* demux_flush(): when a demuxer that loops its input is told an end       *)
(* timestamp, it is that of the last packet read in this loop, and it is   *)
(* waiting for it, in every graph.                                         *)
THEOREM EndTsAreOfThisLoop == Spec => []EndTsOfThisLoop
<1>1. ASSUME EndTsInv PROVE EndTsOfThisLoop
  <2> SUFFICES ASSUME NEW x \in EndTs, queue_end_ts[x] # <<>>
               PROVE  /\ queue_end_ts[x] = <<ReadFor(<<x, 1>>)>>
                      /\ \E d \in Demuxers : pc[d] = "waiting" /\ Head(todo[d]).dst[1] = x
    BY DEF EndTsOfThisLoop
  <2>0. PICK d \in Demuxers : \E s \in DOMAIN Outs[d] : Feeds(d, s, x)
    BY GraphAssumption DEF Feeds
  <2>1. PICK s \in DOMAIN Outs[d] : Feeds(d, s, x)
    BY <2>0
  <2>2. Awaits(d, x) /\ queue_end_ts[x] = <<nb_read[d][s]>>
    BY <1>1, <2>1 DEF EndTsInv, EndTsAt, Reported
  <2>3. ReadFor(<<x, 1>>) = nb_read[d][s]
    BY <2>1, ReadForIs
  <2>4. pc[d] = "waiting" /\ Head(todo[d]).dst[1] = x
    BY <2>2 DEF Awaits
  <2> QED BY <2>2, <2>3, <2>4
<1>2. Init => WaitsInv
  BY KindsOf DEF Init, WaitsInv
<1> QED BY <1>1, <1>2, InitTypes, NextTypes, InitEndTs, NextWaits, NextEndTs, PTL DEF Spec

-----------------------------------------------------------------------------
(* NothingLost, for a stream y of a muxer: what is on the way to it.       *)
OnWay(y) == {x \in Dsts : x = y \/ x[1] \in Path(y)}
Fed(y) == InputsOf(Path(y)) \cap NoFrames = {}
Undisturbed(y) ==
  /\ Fed(y)
  /\ y \notin ended /\ <<y[1], 0>> \notin ended /\ y[1] \notin failed
  /\ \A t \in Path(y) : ~Disturbed(t)

InOf(t)       == <<t, CHOOSE p \in Ports[t] : TRUE>>

(* The numbers of the packets and frames among the entries of S in s.      *)
Picked(s, S)  == FlattenSeq([i \in DOMAIN s |-> IF s[i] \in S THEN <<s[i].item.num>> ELSE <<>>])
QueueData(p)  == [port : {p}, item : [kind : {"data"}, num : Nat]]
TodoData(x)   == [dst : {x}, item : [kind : {"data"}, num : Nat]]
InQueue(x)    == Picked(queue[x[1]], QueueData(x[2]))
InTodo(t, x)  == Picked(todo[t], TodoData(x))
Held(t)       == IF t \in Codecs THEN held[t] ELSE <<>>

Coming(t, x)  == InTodo(t, x) \o Held(t)

(* n[x] have been received on x.                                           *)
Upto(a, b)     == [i \in 1 .. b - a |-> a + i]
Whole(t, s, n) == IF t \in Demuxers THEN nb_read[t][s] ELSE n[InOf(t)]
Flows(t, s, x, n) ==
  /\ n[x] <= Whole(t, s, n)
  /\ InQueue(x) \o Coming(t, x) = Upto(n[x], Whole(t, s, n))

(* A thread that takes nothing more in.                                    *)
Over(t) == pc[t] \in {"draining", "cleanup"} \/ (t \in Filters /\ eof_in[t] = Ports[t])

Drained(t, x) == Over(t) /\ InQueue(x) = <<>> /\ InTodo(t, x) = <<>>

(* What ends a stream is sent last.                                        *)
LastToSend(t, x) ==
  /\ Over(t) => Held(t) = <<>>
  /\ pc[t] \in {"flushing", "waiting"} => InTodo(t, x) = <<>>
  /\ \A i \in DOMAIN todo[t] :
       todo[t][i].dst = x /\ todo[t][i].item.kind \in {"close", "eof", "empty"} =>
         /\ Over(t)
         /\ t \in Decs /\ todo[t][i].item.kind = "close" => pc[t] = "cleanup"
         /\ \A j \in DOMAIN todo[t] : j > i => todo[t][j] \notin TodoData(x)

ClosedWhenOver(t, x) ==
  /\ x \in dst_finished => Over(t) /\ InTodo(t, x) = <<>>
  /\ x[2] \in send_finished[x[1]] => x \in dst_finished
  /\ x[2] \in recv_finished[x[1]] \/ Over(x[1]) => Drained(t, x)

(* The EOF frame of a decoder comes before the EOF of the stream.          *)
EofEntries(p) == [port : {p}, item : [kind : {"eof", "empty"}, num : Nat]]
EofQueued(x)  == \E i \in DOMAIN queue[x[1]] : queue[x[1]][i] \in EofEntries(x[2])
EofToSend(t, x) == \E i \in DOMAIN todo[t] : todo[t][i].dst = x /\ todo[t][i].item.kind = "eof"
NoDataAfterEof(x) ==
  \A i, j \in DOMAIN queue[x[1]] :
    j > i /\ queue[x[1]][i] \in EofEntries(x[2]) => queue[x[1]][j] \notin QueueData(x[2])
EofFirst(t, x) ==
  /\ EofQueued(x) => Over(t) /\ InTodo(t, x) = <<>>
  /\ NoDataAfterEof(x)
  /\ pc[t] = "draining" => Over(x[1]) \/ EofQueued(x) \/ EofToSend(t, x)
  /\ pc[t] = "cleanup" \/ x \in dst_finished => Over(x[1]) \/ EofQueued(x)
  /\ x[2] \in recv_finished[x[1]] => Over(x[1])

FlowAt(t, s, x, n) ==
  /\ Flows(t, s, x, n)
  /\ LastToSend(t, x)
  /\ ClosedWhenOver(t, x)
  /\ x[1] \in Filters => EofFirst(t, x)

FlowFor(y, n) ==
  /\ muxed[y[1]][y[2]] = Upto(0, n[y])
  /\ \A x \in OnWay(y) : \A t \in Producers : \A s \in DOMAIN Outs[t] :
       From(t, s, x) => FlowAt(t, s, x, n)

MuxDsts == {y \in Dsts : y[1] \in Muxes}
FlowInv == \A y \in MuxDsts : Undisturbed(y) => \E n \in [Dsts -> Nat] : FlowFor(y, n)

(* Picking.                                                                *)
NumOf(e, S)  == IF e \in S THEN <<e.item.num>> ELSE <<>>
NumsOf(s, S) == [i \in DOMAIN s |-> NumOf(s[i], S)]
Numbered(S) == \A e \in S : e.item.num \in Nat

LEMMA DataNumbered == \A x : Numbered(QueueData(x)) /\ Numbered(TodoData(x))
BY DEF Numbered, QueueData, TodoData

LEMMA NumsOfType ==
  ASSUME NEW D, NEW s \in Seq(D), NEW S, Numbered(S)
  PROVE  /\ NumsOf(s, S) \in Seq(Seq(Nat)) /\ Len(NumsOf(s, S)) = Len(s)
         /\ \A i \in 1 .. Len(s) : NumsOf(s, S)[i] = NumOf(s[i], S)
         /\ Picked(s, S) = FlattenSeq(NumsOf(s, S))
<1>1. \A i \in 1 .. Len(s) : NumOf(s[i], S) \in Seq(Nat)
  BY DEF NumOf, Numbered
<1>2. DOMAIN s = 1 .. Len(s) /\ Len(s) \in Nat
  OBVIOUS
<1>3. Picked(s, S) = FlattenSeq(NumsOf(s, S))
  BY DEF Picked, NumsOf, NumOf
<1>4. NumsOf(s, S) = [i \in 1 .. Len(s) |-> NumOf(s[i], S)]
  BY <1>2 DEF NumsOf
<1> QED BY <1>1, <1>2, <1>3, <1>4

LEMMA PickedType ==
  ASSUME NEW D, NEW s \in Seq(D), NEW S, Numbered(S)
  PROVE  Picked(s, S) \in Seq(Nat)
BY NumsOfType, FlattenType

LEMMA JoinAt ==
  ASSUME NEW S, NEW a \in Seq(S), NEW b \in Seq(S), NEW i \in 1 .. Len(a) + Len(b)
  PROVE  \/ i \in 1 .. Len(a) /\ (a \o b)[i] = a[i]
         \/ i > Len(a) /\ i - Len(a) \in 1 .. Len(b) /\ (a \o b)[i] = b[i - Len(a)]
<1>1. Len(a) \in Nat /\ Len(b) \in Nat /\ i \in Nat
  OBVIOUS
<1>2. CASE i <= Len(a)
  BY <1>2
<1>3. CASE i > Len(a)
  BY <1>3
<1> QED BY <1>1, <1>2, <1>3

LEMMA PickedBoth ==
  ASSUME NEW D, NEW s \in Seq(D), NEW t \in Seq(D), NEW S, Numbered(S)
  PROVE  Picked(s \o t, S) = Picked(s, S) \o Picked(t, S)
<1>1. s \o t \in Seq(D) /\ Len(s \o t) = Len(s) + Len(t) /\ Len(s) \in Nat /\ Len(t) \in Nat
  OBVIOUS
<1>2. PICK r : r = s \o t
  OBVIOUS
<1>3. PICK a \in Seq(Seq(Nat)) : a = NumsOf(s, S)
  BY NumsOfType
<1>4. PICK b \in Seq(Seq(Nat)) : b = NumsOf(t, S)
  BY NumsOfType
<1>5. PICK c \in Seq(Seq(Nat)) : c = NumsOf(r, S)
  BY <1>1, <1>2, NumsOfType
<1>6. Len(a) = Len(s) /\ \A i \in 1 .. Len(s) : a[i] = NumOf(s[i], S)
  BY <1>3, NumsOfType
<1>7. Len(b) = Len(t) /\ \A i \in 1 .. Len(t) : b[i] = NumOf(t[i], S)
  BY <1>4, NumsOfType
<1>8. Len(c) = Len(r) /\ \A i \in 1 .. Len(r) : c[i] = NumOf(r[i], S)
  BY <1>1, <1>2, <1>5, NumsOfType
<1>9. c = a \o b
  <2>1. Len(a \o b) = Len(a) + Len(b) /\ a \o b \in Seq(Seq(Nat))
    OBVIOUS
  <2>2. ASSUME NEW i \in 1 .. Len(s) + Len(t) PROVE c[i] = (a \o b)[i]
    <3>1. \/ i \in 1 .. Len(s) /\ r[i] = s[i]
          \/ i > Len(s) /\ i - Len(s) \in 1 .. Len(t) /\ r[i] = t[i - Len(s)]
      BY <1>2, JoinAt
    <3>2. \/ i \in 1 .. Len(s) /\ (a \o b)[i] = a[i]
          \/ i > Len(s) /\ i - Len(s) \in 1 .. Len(t) /\ (a \o b)[i] = b[i - Len(s)]
      <4>1. i \in 1 .. Len(a) + Len(b)
        BY <1>6, <1>7
      <4> QED BY <1>6, <1>7, <4>1, JoinAt
    <3>3. i \in 1 .. Len(r) /\ c[i] = NumOf(r[i], S)
      BY <1>1, <1>2, <1>8
    <3>4. i \in 1 .. Len(s) => ~(i > Len(s))
      BY <1>1
    <3> QED BY <1>6, <1>7, <3>1, <3>2, <3>3, <3>4, Zenon
  <2>3. PICK d \in Seq(Seq(Nat)) : d = a \o b
    BY <2>1
  <2>4. Len(c) = Len(d) /\ \A i \in 1 .. Len(c) : c[i] = d[i]
    BY <1>1, <1>2, <1>6, <1>7, <1>8, <2>1, <2>2, <2>3
  <2>5. c = d
    BY <2>4, SeqEqual
  <2> QED BY <2>3, <2>5
<1>10. FlattenSeq(a \o b) = FlattenSeq(a) \o FlattenSeq(b)
  BY FlattenBoth
<1>11. Picked(r, S) = FlattenSeq(c) /\ Picked(s, S) = FlattenSeq(a) /\ Picked(t, S) = FlattenSeq(b)
  BY <1>1, <1>2, <1>3, <1>4, <1>5, NumsOfType
<1> QED BY <1>2, <1>9, <1>10, <1>11

LEMMA PickedErrands ==
  ASSUME NEW x, NEW p \in Seq(Errand), NEW q \in Seq(Errand)
  PROVE  Picked(p \o q, TodoData(x)) = Picked(p, TodoData(x)) \o Picked(q, TodoData(x))
BY DataNumbered, PickedBoth

LEMMA PickedNone ==
  ASSUME NEW D, NEW s \in Seq(D), NEW S, Numbered(S)
  PROVE  Picked(s, S) = <<>> <=> \A i \in DOMAIN s : s[i] \notin S
<1>1. PICK a \in Seq(Seq(Nat)) : a = NumsOf(s, S)
  BY NumsOfType
<1>2. /\ Len(a) = Len(s) /\ \A i \in 1 .. Len(s) : a[i] = NumOf(s[i], S)
      /\ Picked(s, S) = FlattenSeq(a)
  BY <1>1, NumsOfType
<1>3. DOMAIN s = 1 .. Len(s) /\ DOMAIN a = 1 .. Len(s)
  BY <1>2
<1>4. ASSUME \A i \in DOMAIN s : s[i] \notin S PROVE Picked(s, S) = <<>>
  <2>1. \A i \in DOMAIN a : a[i] = <<>>
    BY <1>2, <1>3, <1>4 DEF NumOf
  <2> QED BY <1>2, <2>1, FlattenNone
<1>5. ASSUME NEW i \in DOMAIN s, s[i] \in S PROVE Picked(s, S) # <<>>
  <2>1. a[i] = <<s[i].item.num>> /\ i \in DOMAIN a
    BY <1>2, <1>3, <1>5 DEF NumOf
  <2>2. s[i].item.num \in Range(a[i])
    <3>1. PICK e : e = s[i].item.num
      OBVIOUS
    <3>2. 1 \in DOMAIN <<e>> /\ <<e>>[1] = e
      OBVIOUS
    <3> QED BY <2>1, <3>1, <3>2 DEF Range
  <2>3. s[i].item.num \in Range(FlattenSeq(a))
    BY <2>1, <2>2, FlattenRange
  <2>4. Range(<<>>) = {}
    BY DEF Range
  <2> QED BY <1>2, <2>3, <2>4
<1> QED BY <1>4, <1>5

LEMMA PickedOne ==
  ASSUME NEW D, NEW e \in D, NEW S, Numbered(S)
  PROVE  Picked(<<e>>, S) = NumOf(e, S)
<1>1. NumOf(e, S) \in Seq(Nat)
  BY DEF NumOf, Numbered
<1>2. PICK s : s = <<e>>
  OBVIOUS
<1>3. s \in Seq(D) /\ Len(s) = 1 /\ s[1] = e
  BY <1>2
<1>4. PICK a \in Seq(Seq(Nat)) : a = NumsOf(s, S)
  BY <1>3, NumsOfType
<1>5. Len(a) = 1 /\ a[1] = NumOf(e, S) /\ Picked(s, S) = FlattenSeq(a)
  <2>1. Len(a) = Len(s) /\ (\A i \in 1 .. Len(s) : a[i] = NumOf(s[i], S)) /\ Picked(s, S) = FlattenSeq(a)
    BY <1>3, <1>4, NumsOfType
  <2>2. 1 \in 1 .. Len(s)
    BY <1>3
  <2> QED BY <1>3, <2>1, <2>2
<1>6. a = <<a[1]>>
  BY <1>5
<1>7. FlattenSeq(<<a[1]>>) = a[1]
  BY <1>1, <1>5, FlattenOne
<1> QED BY <1>2, <1>5, <1>6, <1>7

LEMMA PickedEmpty == \A S : Picked(<<>>, S) = <<>>
<1> SUFFICES ASSUME NEW S PROVE Picked(<<>>, S) = <<>>
  OBVIOUS
<1>1. [i \in DOMAIN <<>> |-> IF <<>>[i] \in S THEN <<<<>>[i].item.num>> ELSE <<>>] = <<>>
  OBVIOUS
<1> QED BY <1>1, FlattenEmpty DEF Picked

LEMMA PickedAppend ==
  ASSUME NEW D, NEW s \in Seq(D), NEW e \in D, NEW S, Numbered(S)
  PROVE  Picked(Append(s, e), S) = Picked(s, S) \o NumOf(e, S)
<1>0. <<e>> \in Seq(D)
  OBVIOUS
<1>1. PICK t \in Seq(D) : t = <<e>>
  BY <1>0, Zenon
<1>2. Append(s, e) = s \o t
  BY <1>1
<1>3. Picked(s \o t, S) = Picked(s, S) \o Picked(t, S)
  BY PickedBoth
<1>4. Picked(t, S) = NumOf(e, S)
  BY <1>1, PickedOne
<1> QED BY <1>2, <1>3, <1>4

LEMMA PickedHead ==
  ASSUME NEW D, NEW s \in Seq(D), s # <<>>, NEW S, Numbered(S)
  PROVE  Picked(s, S) = NumOf(Head(s), S) \o Picked(Tail(s), S)
<1>1. Head(s) \in D /\ Tail(s) \in Seq(D) /\ s = <<Head(s)>> \o Tail(s)
  OBVIOUS
<1>2. PICK e \in D : e = Head(s)
  BY <1>1
<1>3. PICK t \in Seq(D) : t = Tail(s)
  BY <1>1
<1>4. PICK u \in Seq(D) : u = <<e>>
  <2>1. <<e>> \in Seq(D)
    OBVIOUS
  <2> QED BY <2>1, Zenon
<1>5. Picked(u \o t, S) = Picked(u, S) \o Picked(t, S)
  BY PickedBoth
<1>6. Picked(u, S) = NumOf(e, S)
  BY <1>4, PickedOne
<1> QED BY <1>1, <1>2, <1>3, <1>4, <1>5, <1>6

(* What is left when the first l are gone, of which only the last counts.  *)
LEMMA PickedDrop ==
  ASSUME NEW D, NEW s \in Seq(D), NEW l \in 1 .. Len(s), NEW S, Numbered(S),
         \A i \in 1 .. l - 1 : s[i] \notin S
  PROVE  Picked(s, S) = NumOf(s[l], S) \o Picked(SubSeq(s, l + 1, Len(s)), S)
<1>1. PICK k \in Nat : k = l - 1 /\ k \in 0 .. Len(s) /\ k + 1 = l
  OBVIOUS
<1>2. PICK a : a = SubSeq(s, 1, k)
  OBVIOUS
<1>3. PICK b : b = SubSeq(s, k + 1, Len(s))
  OBVIOUS
<1>4. /\ a \in Seq(D) /\ Len(a) = k /\ b \in Seq(D) /\ Len(b) = Len(s) - k
      /\ \A i \in 1 .. Len(s) - k : b[i] = s[k + i]
      /\ s = a \o b
  BY <1>1, <1>2, <1>3, SplitSeq, SMTT(20)
<1>5. \A i \in DOMAIN a : a[i] \notin S
  <2>1. \A i \in 1 .. k : a[i] = s[i]
    BY <1>1, <1>2
  <2> QED BY <1>1, <1>4, <2>1
<1>6. Picked(a, S) = <<>>
  BY <1>4, <1>5, PickedNone
<1>7. Picked(s, S) = Picked(a, S) \o Picked(b, S)
  BY <1>4, PickedBoth
<1>8. Picked(b, S) \in Seq(Nat)
  BY <1>4, PickedType
<1>9. Picked(s, S) = Picked(b, S)
  BY <1>6, <1>7, <1>8, ConcatEmptySeq
<1>10. b # <<>> /\ Head(b) = s[l]
  BY <1>1, <1>4
<1>11. Tail(b) = SubSeq(s, l + 1, Len(s))
  BY <1>1, <1>3
<1> QED BY <1>4, <1>9, <1>10, <1>11, PickedHead

(* One after the other.                                                    *)
LEMMA UptoType ==
  ASSUME NEW a \in Nat, NEW b \in Nat, a <= b
  PROVE  /\ Upto(a, b) \in Seq(Nat) /\ Len(Upto(a, b)) = b - a
         /\ \A i \in 1 .. b - a : Upto(a, b)[i] = a + i
BY DEF Upto

LEMMA UptoNone ==
  ASSUME NEW a \in Nat, NEW b \in Nat, a <= b, Upto(a, b) = <<>>
  PROVE  a = b
<1>1. Len(Upto(a, b)) = b - a
  BY UptoType
<1> QED BY <1>1

LEMMA UptoMore ==
  ASSUME NEW a \in Nat, NEW b \in Nat, a <= b
  PROVE  Upto(a, b) \o <<b + 1>> = Upto(a, b + 1)
<1>1. PICK s \in Seq(Nat) : s = Upto(a, b)
  BY UptoType
<1>2. PICK r \in Seq(Nat) : r = Upto(a, b + 1)
  BY UptoType
<1>3. Len(s) = b - a /\ \A i \in 1 .. b - a : s[i] = a + i
  BY <1>1, UptoType
<1>4. Len(r) = b + 1 - a /\ \A i \in 1 .. b + 1 - a : r[i] = a + i
  <2>1. PICK c \in Nat : c = b + 1 /\ a <= c
    OBVIOUS
  <2>2. Len(Upto(a, c)) = c - a /\ \A i \in 1 .. c - a : Upto(a, c)[i] = a + i
    BY <2>1, UptoType
  <2> QED BY <1>2, <2>1, <2>2
<1>5. s \o <<b + 1>> \in Seq(Nat) /\ Len(s \o <<b + 1>>) = Len(s) + 1
  OBVIOUS
<1>6. PICK u \in Seq(Nat) : u = s \o <<b + 1>>
  BY <1>5, Zenon
<1>7. Len(u) = b - a + 1
  BY <1>3, <1>5, <1>6
<1>8. \A i \in 1 .. b - a : u[i] = s[i]
  BY <1>3, <1>6
<1>9. u[b - a + 1] = b + 1
  BY <1>3, <1>6
<1>10. \A i \in 1 .. Len(u) : u[i] = r[i]
  <2> SUFFICES ASSUME NEW i \in 1 .. b - a + 1 PROVE u[i] = r[i]
    BY <1>7
  <2>1. i \in 1 .. b + 1 - a /\ r[i] = a + i
    BY <1>4
  <2>2. CASE i \in 1 .. b - a
    BY <1>3, <1>8, <2>1, <2>2
  <2>3. CASE i = b - a + 1
    BY <1>9, <2>1, <2>3
  <2> QED BY <2>2, <2>3
<1>11. Len(u) = Len(r)
  BY <1>4, <1>7
<1>12. u = r
  BY <1>10, <1>11, SeqEqual
<1> QED BY <1>1, <1>2, <1>6, <1>12

LEMMA UptoFirst ==
  ASSUME NEW a \in Nat, NEW b \in Nat, a <= b, NEW e \in Nat, NEW s \in Seq(Nat), <<e>> \o s = Upto(a, b)
  PROVE  e = a + 1 /\ a + 1 <= b /\ s = Upto(a + 1, b)
<1>1. PICK r \in Seq(Nat) : r = Upto(a, b)
  BY UptoType
<1>2. Len(r) = b - a /\ \A i \in 1 .. b - a : r[i] = a + i
  BY <1>1, UptoType
<1>3. <<e>> \o s = r
  BY <1>1
<1>4. Len(r) = 1 + Len(s) /\ r[1] = e /\ Len(s) \in Nat
  BY <1>3
<1>5. \A i \in 1 .. Len(s) : r[1 + i] = s[i]
  BY <1>3
<1>6. Len(s) = b - (a + 1) /\ a + 1 <= b
  BY <1>2, <1>4
<1>7. e = a + 1
  BY <1>2, <1>4, <1>6
<1>8. PICK u \in Seq(Nat) : u = Upto(a + 1, b)
  BY <1>6, UptoType
<1>9. Len(u) = b - (a + 1) /\ \A i \in 1 .. b - (a + 1) : u[i] = a + 1 + i
  <2>1. PICK c \in Nat : c = a + 1 /\ c <= b
    BY <1>6
  <2>2. Len(Upto(c, b)) = b - c /\ \A i \in 1 .. b - c : Upto(c, b)[i] = c + i
    BY <2>1, UptoType
  <2> QED BY <1>8, <2>1, <2>2
<1>10. \A i \in 1 .. Len(s) : s[i] = u[i]
  <2> SUFFICES ASSUME NEW i \in 1 .. Len(s) PROVE s[i] = u[i]
    OBVIOUS
  <2>1. 1 + i \in 1 .. b - a /\ i \in 1 .. b - (a + 1)
    BY <1>4, <1>6
  <2>2. r[1 + i] = a + (1 + i) /\ u[i] = a + 1 + i /\ r[1 + i] = s[i]
    BY <1>2, <1>5, <1>9, <2>1
  <2> QED BY <2>2
<1>11. s = u
  BY <1>6, <1>9, <1>10, SeqEqual
<1> QED BY <1>6, <1>7, <1>8, <1>11

(* In a sequence of errands for destinations among which x is once, each   *)
(* item is once for x.                                                     *)
LEMMA PickedRow ==
  ASSUME NEW dsts \in Seq(Dsts), NEW x, Once(dsts, x), NEW k \in Nat
  PROVE  Picked([j \in DOMAIN dsts |-> [dst |-> dsts[j], item |-> Data(k)]], TodoData(x)) = <<k>>
<1>1. PICK r \in Seq(Errand) : r = [j \in DOMAIN dsts |-> [dst |-> dsts[j], item |-> Data(k)]]
  BY ItemsType, RowType
<1>2. Numbered(TodoData(x))
  BY DataNumbered
<1>3. PICK l \in DOMAIN dsts : dsts[l] = x /\ \A j \in DOMAIN dsts : j # l => dsts[j] # x
  BY DEF Once
<1>4. DOMAIN r = 1 .. Len(r) /\ DOMAIN r = DOMAIN dsts /\ Len(r) \in Nat
  BY <1>1
<1>5. \A j \in DOMAIN r : r[j] = [dst |-> dsts[j], item |-> Data(k)]
  BY <1>1, <1>4
<1>6. r[l] \in TodoData(x) /\ r[l].item.num = k
  BY <1>3, <1>4, <1>5 DEF TodoData, Data
<1>7. \A j \in DOMAIN r : j # l => r[j] \notin TodoData(x)
  BY <1>3, <1>4, <1>5 DEF TodoData
<1>8. PICK m \in 1 .. Len(r) : m = l
  BY <1>3, <1>4
<1>9. \A j \in 1 .. m - 1 : r[j] \notin TodoData(x)
  BY <1>4, <1>7, <1>8
<1>10. PICK u : u = SubSeq(r, m + 1, Len(r))
  OBVIOUS
<1>11. Picked(r, TodoData(x)) = NumOf(r[m], TodoData(x)) \o Picked(u, TodoData(x))
  BY <1>2, <1>9, <1>10, PickedDrop
<1>12. u \in Seq(Errand) /\ Len(u) = Len(r) - m /\ \A i \in 1 .. Len(r) - m : u[i] = r[m + i]
  <2>1. m \in 0 .. Len(r)
    BY <1>4
  <2> QED BY <1>10, <2>1, SplitSeq
<1>13. \A i \in DOMAIN u : u[i] \notin TodoData(x)
  <2>1. \A i \in 1 .. Len(r) - m : m + i \in DOMAIN r /\ m + i # l
    BY <1>4, <1>8
  <2>2. DOMAIN u = 1 .. Len(r) - m
    BY <1>12
  <2>3. SUFFICES ASSUME NEW i \in 1 .. Len(r) - m PROVE r[m + i] \notin TodoData(x)
    BY <1>12, <2>2
  <2> QED BY <1>7, <2>1
<1>14. Picked(u, TodoData(x)) = <<>>
  BY <1>2, <1>12, <1>13, PickedNone
<1>15. NumOf(r[m], TodoData(x)) = <<k>>
  BY <1>6, <1>8 DEF NumOf
<1>16. <<k>> \o <<>> = <<k>>
  OBVIOUS
<1> QED BY <1>1, <1>11, <1>14, <1>15, <1>16

LEMMA PickedSends ==
  ASSUME NEW dsts \in Seq(Dsts), NEW x, Once(dsts, x), NEW nums \in Seq(Nat)
  PROVE  Picked(Sends(Frames(nums), dsts), TodoData(x)) = nums
<1> DEFINE row(k) == [j \in DOMAIN dsts |-> [dst |-> dsts[j], item |-> Data(k)]]
           rows == [i \in DOMAIN Frames(nums) |-> [j \in DOMAIN dsts |-> [dst |-> dsts[j], item |-> Frames(nums)[i]]]]
           m == Len(nums)
<1>1. /\ Frames(nums) \in Seq(ItemType) /\ Len(Frames(nums)) = m /\ m \in Nat
      /\ \A i \in 1 .. m : Frames(nums)[i] = Data(nums[i]) /\ nums[i] \in Nat
  BY FramesType
<1>2. \A i \in 1 .. m : row(nums[i]) \in Seq(Errand)
  BY <1>1, ItemsType, RowType
<1>3. rows = [i \in 1 .. m |-> row(nums[i])]
  BY <1>1
<1>4. \A i \in 1 .. m : Picked(row(nums[i]), TodoData(x)) = <<nums[i]>>
  BY <1>1, PickedRow
<1>5. Sends(Frames(nums), dsts) = FlattenSeq(rows)
  BY DEF Sends
<1> HIDE DEF row, rows, m
<1>6. rows \in Seq(Seq(Errand)) /\ Len(rows) = m /\ \A i \in 1 .. m : rows[i] = row(nums[i])
  BY <1>1, <1>2, <1>3
<1>7. PICK g : Joins(Errand, rows, g)
  BY <1>6, FlattenJoins
<1>8. g \in [0 .. m -> Seq(Errand)] /\ g[0] = <<>> /\ \A k \in 1 .. m : g[k] = g[k - 1] \o rows[k]
  BY <1>6, <1>7 DEF Joins
<1> DEFINE T == {k \in 0 .. m : Picked(g[k], TodoData(x)) = SubSeq(nums, 1, k)}
<1>9. 0 \in T
  <2>1. SubSeq(nums, 1, 0) = <<>>
    OBVIOUS
  <2> QED BY <1>1, <1>8, <2>1, PickedEmpty
<1>10. ASSUME NEW k \in 0 .. m - 1, k \in T PROVE k + 1 \in T
  <2>1. PICK l \in 1 .. m : l = k + 1 /\ l - 1 = k /\ k \in 0 .. m /\ l \in 0 .. m
    BY <1>1
  <2>2. g[l] = g[k] \o rows[l]
    BY <1>8, <2>1
  <2>3. PICK q \in Seq(Errand) : q = g[k]
    BY <1>8, <2>1
  <2>4. PICK r \in Seq(Errand) : r = rows[l]
    BY <1>2, <1>6, <2>1
  <2>5. Picked(q \o r, TodoData(x)) = Picked(q, TodoData(x)) \o Picked(r, TodoData(x))
    <3>1. Numbered(TodoData(x))
      BY DataNumbered
    <3> QED BY <3>1, PickedBoth
  <2>6. Picked(q, TodoData(x)) = SubSeq(nums, 1, k)
    BY <1>10, <2>3
  <2>7. Picked(r, TodoData(x)) = <<nums[l]>>
    BY <1>4, <1>6, <2>4
  <2>8. SubSeq(nums, 1, l) = SubSeq(nums, 1, k) \o <<nums[l]>>
    <3>1. k \in 0 .. Len(nums) - 1
      BY DEF m
    <3>2. SubSeq(nums, 1, k) \in Seq(Nat) /\ nums[k + 1] \in Nat
          /\ SubSeq(nums, 1, k + 1) = Append(SubSeq(nums, 1, k), nums[k + 1])
      BY <3>1, PrefixStep
    <3>3. SubSeq(nums, 1, l) = Append(SubSeq(nums, 1, k), nums[l]) /\ nums[l] \in Nat
      BY <2>1, <3>2
    <3>4. PICK a \in Seq(Nat) : a = SubSeq(nums, 1, k)
      BY <3>2
    <3>5. Append(a, nums[l]) = a \o <<nums[l]>>
      BY <3>3
    <3> QED BY <3>3, <3>4, <3>5
  <2>9. Picked(g[l], TodoData(x)) = SubSeq(nums, 1, l)
    BY <2>2, <2>3, <2>4, <2>5, <2>6, <2>7, <2>8
  <2> QED BY <2>1, <2>9
<1>11. m \in T
  <2>1. 0 .. m \subseteq T
    <3> HIDE DEF T
    <3> QED BY <1>1, <1>9, <1>10, BoundedInduction
  <2> QED BY <1>1, <2>1
<1>12. SubSeq(nums, 1, m) = nums
  BY DEF m
<1>13. FlattenSeq(rows) = g[m]
  BY <1>6, <1>7, FlattenIs
<1> QED BY <1>5, <1>11, <1>12, <1>13

(* What closes or flushes has no number.                                   *)
LEMMA PickedOthers ==
  ASSUME NEW dsts \in Seq(Dsts), NEW items \in Seq(ItemType), NEW x,
         (\A i \in DOMAIN items : items[i].kind # "data") \/ Absent(dsts, x)
  PROVE  Picked(Sends(items, dsts), TodoData(x)) = <<>>
<1>1. PICK s \in Seq(Errand) : s = Sends(items, dsts)
  BY SendsType
<1>2. ASSUME NEW k \in DOMAIN s PROVE s[k] \notin TodoData(x)
  <2>1. s[k] \in Range(s)
    BY DEF Range
  <2>2. PICK i \in DOMAIN items, j \in DOMAIN dsts : s[k] = [dst |-> dsts[j], item |-> items[i]]
    BY <1>1, <2>1, SendsType
  <2> QED BY <2>2 DEF TodoData, Absent
<1> QED BY <1>1, <1>2, DataNumbered, PickedNone

(* What is sent to one destination.                                        *)
LEMMA PickedTo ==
  ASSUME NEW x \in Dsts, NEW nums \in Seq(Nat)
  PROVE  Picked(SendsTo(Frames(nums), x), TodoData(x)) = nums
<1> DEFINE m == Len(nums)
<1>1. PICK w \in Seq(Errand) : w = SendsTo(Frames(nums), x)
  BY FramesType, ToOneType
<1>2. /\ Len(w) = m /\ m \in Nat
      /\ \A i \in 1 .. m : w[i] = [dst |-> x, item |-> Data(nums[i])] /\ nums[i] \in Nat
  BY <1>1, FramesType DEF SendsTo
<1>3. \A i \in 1 .. m : NumOf(w[i], TodoData(x)) = <<nums[i]>>
  <2> SUFFICES ASSUME NEW i \in 1 .. m PROVE NumOf(w[i], TodoData(x)) = <<nums[i]>>
    OBVIOUS
  <2>1. PICK k \in Nat : k = nums[i]
    BY <1>2
  <2>2. w[i] = [dst |-> x, item |-> Data(k)]
    BY <1>2, <2>1
  <2>3. w[i] \in TodoData(x) /\ w[i].item.num = k
    BY <2>2 DEF TodoData, Data
  <2> QED BY <2>1, <2>3 DEF NumOf
<1> DEFINE T == {k \in 0 .. m : Picked(SubSeq(w, 1, k), TodoData(x)) = SubSeq(nums, 1, k)}
<1>4. 0 \in T
  <2>1. SubSeq(nums, 1, 0) = <<>> /\ SubSeq(w, 1, 0) = <<>>
    OBVIOUS
  <2>2. Picked(<<>>, TodoData(x)) = <<>>
    BY PickedEmpty
  <2>3. 0 \in 0 .. m
    BY <1>2
  <2>4. Picked(SubSeq(w, 1, 0), TodoData(x)) = SubSeq(nums, 1, 0)
    BY <2>1, <2>2, Zenon
  <2> QED BY <2>3, <2>4
<1>5. ASSUME NEW k \in 0 .. m - 1, k \in T PROVE k + 1 \in T
  <2>1. k \in 0 .. Len(w) - 1 /\ k \in 0 .. Len(nums) - 1 /\ k + 1 \in 1 .. m
    BY <1>2
  <2>2. /\ SubSeq(w, 1, k) \in Seq(Errand) /\ w[k + 1] \in Errand
        /\ SubSeq(w, 1, k + 1) = Append(SubSeq(w, 1, k), w[k + 1])
    BY <2>1, PrefixStep
  <2>3. /\ SubSeq(nums, 1, k) \in Seq(Nat) /\ nums[k + 1] \in Nat
        /\ SubSeq(nums, 1, k + 1) = Append(SubSeq(nums, 1, k), nums[k + 1])
    BY <2>1, PrefixStep
  <2>4. PICK a \in Seq(Errand) : a = SubSeq(w, 1, k)
    BY <2>2
  <2>5. PICK b \in Seq(Nat) : b = SubSeq(nums, 1, k)
    BY <2>3
  <2>6. Picked(Append(a, w[k + 1]), TodoData(x)) = Picked(a, TodoData(x)) \o NumOf(w[k + 1], TodoData(x))
    BY <2>2, DataNumbered, PickedAppend
  <2>7. Append(b, nums[k + 1]) = b \o <<nums[k + 1]>>
    BY <2>3
  <2>8. Picked(a, TodoData(x)) = b /\ NumOf(w[k + 1], TodoData(x)) = <<nums[k + 1]>>
    BY <1>3, <1>5, <2>1, <2>4, <2>5
  <2>9. Picked(SubSeq(w, 1, k + 1), TodoData(x)) = SubSeq(nums, 1, k + 1)
    BY <2>2, <2>3, <2>4, <2>5, <2>6, <2>7, <2>8
  <2> QED BY <2>1, <2>9
<1>6. m \in T
  <2>1. 0 .. m \subseteq T
    <3> HIDE DEF T
    <3> QED BY <1>2, <1>4, <1>5, BoundedInduction
  <2> QED BY <1>2, <2>1
<1>7. SubSeq(nums, 1, m) = nums /\ SubSeq(w, 1, m) = w
  BY <1>2
<1> QED BY <1>1, <1>6, <1>7

(* What ends the stream x comes last in s.                                 *)
NoneEnds(s, x) == \A i \in DOMAIN s : s[i].dst = x => s[i].item.kind \notin {"close", "eof", "empty"}
NoneFor(s, x)  == \A i \in DOMAIN s : s[i] \notin TodoData(x)
EndsLast(s, x) ==
  \A i, j \in DOMAIN s :
    j > i /\ s[i].dst = x /\ s[i].item.kind \in {"close", "eof", "empty"} => s[j] \notin TodoData(x)

LEMMA EndsLastBoth ==
  ASSUME NEW x, NEW a \in Seq(Errand), NEW b \in Seq(Errand), EndsLast(a, x), EndsLast(b, x),
         NoneEnds(a, x) \/ NoneFor(b, x)
  PROVE  EndsLast(a \o b, x)
<1>1. PICK s \in Seq(Errand) : s = a \o b
  <2>1. a \o b \in Seq(Errand)
    OBVIOUS
  <2> QED BY <2>1, Zenon
<1>2. /\ DOMAIN a = 1 .. Len(a) /\ DOMAIN b = 1 .. Len(b) /\ DOMAIN s = 1 .. Len(a) + Len(b)
      /\ Len(a) \in Nat /\ Len(b) \in Nat
  BY <1>1
<1>3. \A i \in DOMAIN s :
        \/ i \in DOMAIN a /\ s[i] = a[i]
        \/ i > Len(a) /\ i - Len(a) \in DOMAIN b /\ s[i] = b[i - Len(a)]
  BY <1>1, <1>2, JoinAt
<1>4. ASSUME NEW i \in DOMAIN s, NEW j \in DOMAIN s, j > i, s[i].dst = x,
             s[i].item.kind \in {"close", "eof", "empty"}
      PROVE  s[j] \notin TodoData(x)
  <2>1. CASE j \in DOMAIN a /\ s[j] = a[j]
    <3>1. i \in DOMAIN a /\ s[i] = a[i]
      BY <1>2, <1>3, <1>4, <2>1
    <3> QED BY <1>4, <2>1, <3>1 DEF EndsLast
  <2>2. CASE j > Len(a) /\ j - Len(a) \in DOMAIN b /\ s[j] = b[j - Len(a)]
    <3>1. CASE i \in DOMAIN a /\ s[i] = a[i]
      BY <1>4, <2>2, <3>1 DEF NoneEnds, NoneFor
    <3>2. CASE i > Len(a) /\ i - Len(a) \in DOMAIN b /\ s[i] = b[i - Len(a)]
      <4>1. j - Len(a) > i - Len(a)
        BY <1>2, <1>4
      <4> QED BY <1>4, <2>2, <3>2, <4>1 DEF EndsLast
    <3> QED BY <1>3, <3>1, <3>2
  <2> QED BY <1>3, <2>1, <2>2
<1> QED BY <1>1, <1>4 DEF EndsLast

LEMMA SendsToBoth ==
  ASSUME NEW x \in Dsts, NEW a \in Seq(ItemType), NEW b \in Seq(ItemType)
  PROVE  SendsTo(a \o b, x) = SendsTo(a, x) \o SendsTo(b, x)
<1>1. PICK c \in Seq(ItemType) : c = a \o b
  <2>1. a \o b \in Seq(ItemType)
    OBVIOUS
  <2> QED BY <2>1, Zenon
<1>2. PICK v \in Seq(Errand) : v = SendsTo(a, x)
  BY ToOneType
<1>3. PICK w \in Seq(Errand) : w = SendsTo(b, x)
  BY ToOneType
<1>4. PICK u \in Seq(Errand) : u = SendsTo(c, x)
  BY ToOneType
<1>5. /\ Len(v) = Len(a) /\ \A i \in 1 .. Len(a) : v[i] = [dst |-> x, item |-> a[i]]
      /\ Len(w) = Len(b) /\ \A i \in 1 .. Len(b) : w[i] = [dst |-> x, item |-> b[i]]
      /\ Len(u) = Len(c) /\ \A i \in 1 .. Len(c) : u[i] = [dst |-> x, item |-> c[i]]
  BY <1>2, <1>3, <1>4 DEF SendsTo
<1>6. Len(c) = Len(a) + Len(b) /\ Len(a) \in Nat /\ Len(b) \in Nat
  BY <1>1
<1>7. PICK r \in Seq(Errand) : r = v \o w
  <2>1. v \o w \in Seq(Errand)
    OBVIOUS
  <2> QED BY <2>1, Zenon
<1>8. Len(r) = Len(a) + Len(b)
  <2>1. Len(v \o w) = Len(v) + Len(w)
    OBVIOUS
  <2>2. Len(v) = Len(a) /\ Len(w) = Len(b)
    BY <1>5
  <2> QED BY <1>7, <2>1, <2>2
<1>9. ASSUME NEW i \in 1 .. Len(a) + Len(b) PROVE u[i] = r[i]
  <2>1. \/ i \in 1 .. Len(a) /\ c[i] = a[i]
        \/ i > Len(a) /\ i - Len(a) \in 1 .. Len(b) /\ c[i] = b[i - Len(a)]
    BY <1>1, JoinAt
  <2>2. \/ i \in 1 .. Len(a) /\ r[i] = v[i]
        \/ i > Len(a) /\ i - Len(a) \in 1 .. Len(b) /\ r[i] = w[i - Len(a)]
    <3>1. Len(v) = Len(a) /\ Len(w) = Len(b)
      BY <1>5
    <3>2. i \in 1 .. Len(v) + Len(w)
      BY <3>1
    <3>3. \/ i \in 1 .. Len(v) /\ (v \o w)[i] = v[i]
          \/ i > Len(v) /\ i - Len(v) \in 1 .. Len(w) /\ (v \o w)[i] = w[i - Len(v)]
      BY <3>2, JoinAt
    <3> QED BY <1>7, <3>1, <3>3
  <2>3. i \in 1 .. Len(c)
    BY <1>6
  <2>4. u[i] = [dst |-> x, item |-> c[i]]
    BY <1>5, <2>3
  <2>5. CASE i \in 1 .. Len(a)
    <3>1. c[i] = a[i] /\ r[i] = v[i]
      BY <1>6, <2>1, <2>2, <2>5
    <3>2. v[i] = [dst |-> x, item |-> a[i]]
      BY <1>5, <2>5
    <3> QED BY <2>4, <3>1, <3>2
  <2>6. CASE i > Len(a)
    <3>1. PICK j \in 1 .. Len(b) : j = i - Len(a) /\ c[i] = b[j] /\ r[i] = w[j]
      BY <1>6, <2>1, <2>2, <2>6
    <3>2. w[j] = [dst |-> x, item |-> b[j]]
      BY <1>5
    <3> QED BY <2>4, <3>1, <3>2
  <2> QED BY <1>6, <2>1, <2>5, <2>6
<1>10. u = r
  BY <1>5, <1>6, <1>8, <1>9
<1> QED BY <1>1, <1>2, <1>3, <1>4, <1>7, <1>10

(* A filtergraph sends its frames to x, and then what closes it.           *)
LEMMA FilterGives ==
  ASSUME NEW f \in Filters, NEW x \in DstsFrom(f), x \notin NoFrames, NEW nums \in Seq(Nat),
         NEW closing \in Seq(ItemType), \A i \in DOMAIN closing : closing[i].kind # "data"
  PROVE  LET s == FilterSends(f, nums, closing)
         IN  /\ s \in Seq(Errand) /\ Picked(s, TodoData(x)) = nums /\ EndsLast(s, x)
             /\ closing = <<>> => NoneEnds(s, x)
<1>1. f \in Producers /\ x \in Dsts
  BY KindsOf, OutputsType DEF DstsFrom, Range
<1>2. PICK s \in Seq(Errand) : s = FilterSends(f, nums, closing)
  BY <1>1, FilterSendsType DEF MaySend
<1>3. PICK r \in Seq(ItemType) : r = Frames(nums)
  BY FramesType
<1>4. ItemsFor(x, nums, closing) = r \o closing
  BY <1>3 DEF ItemsFor
<1>5. PICK a \in Seq(Errand), b \in Seq(Errand) :
        s = a \o (SendsTo(r \o closing, x) \o b) /\ \A e \in Range(a) \cup Range(b) : e.dst # x
  <2>1. SplitAt(s, r \o closing, x)
    BY <1>1, <1>2, <1>4, FilterSendsSplit
  <2> QED BY <2>1 DEF SplitAt
<1>6. PICK v \in Seq(Errand) : v = SendsTo(r, x)
  BY <1>1, ToOneType
<1>7. PICK w \in Seq(Errand) : w = SendsTo(closing, x)
  BY <1>1, ToOneType
<1>8. s = a \o ((v \o w) \o b)
  BY <1>1, <1>5, <1>6, <1>7, SendsToBoth
<1>9. NoneEnds(a, x) /\ NoneFor(a, x) /\ NoneEnds(b, x) /\ NoneFor(b, x)
  <2>1. (\A i \in DOMAIN a : a[i].dst # x) /\ (\A i \in DOMAIN b : b[i].dst # x)
    BY <1>5 DEF Range
  <2> QED BY <2>1 DEF NoneEnds, NoneFor, TodoData
<1>10. NoneEnds(v, x)
  <2>1. \A i \in DOMAIN v : v[i].item.kind = "data"
    <3>1. DOMAIN r = 1 .. Len(nums) /\ \A i \in 1 .. Len(nums) : r[i] = Data(nums[i])
      BY <1>3, FramesType
    <3>2. DOMAIN v = DOMAIN r /\ \A i \in DOMAIN r : v[i].item = r[i]
      BY <1>6 DEF SendsTo
    <3> QED BY <3>1, <3>2 DEF Data
  <2> QED BY <2>1 DEF NoneEnds
<1>11. NoneFor(w, x) /\ (closing = <<>> => NoneEnds(w, x))
  <2>1. DOMAIN w = DOMAIN closing /\ \A i \in DOMAIN w : w[i].item = closing[i]
    BY <1>7 DEF SendsTo
  <2> QED BY <2>1 DEF NoneFor, NoneEnds, TodoData
<1>12. PICK vw \in Seq(Errand) : vw = v \o w
  <2>1. v \o w \in Seq(Errand)
    OBVIOUS
  <2> QED BY <2>1, Zenon
<1>13. PICK vwb \in Seq(Errand) : vwb = vw \o b
  <2>1. vw \o b \in Seq(Errand)
    OBVIOUS
  <2> QED BY <2>1, Zenon
<1>14. s = a \o vwb
  BY <1>8, <1>12, <1>13
<1>15. Picked(s, TodoData(x)) = nums
  <2>1. /\ Picked(a \o vwb, TodoData(x)) = Picked(a, TodoData(x)) \o Picked(vwb, TodoData(x))
        /\ Picked(vw \o b, TodoData(x)) = Picked(vw, TodoData(x)) \o Picked(b, TodoData(x))
        /\ Picked(v \o w, TodoData(x)) = Picked(v, TodoData(x)) \o Picked(w, TodoData(x))
    BY PickedErrands
  <2>2. Picked(a, TodoData(x)) = <<>> /\ Picked(b, TodoData(x)) = <<>> /\ Picked(w, TodoData(x)) = <<>>
    BY <1>9, <1>11, DataNumbered, PickedNone DEF NoneFor
  <2>3. Picked(v, TodoData(x)) = nums
    BY <1>1, <1>3, <1>6, PickedTo
  <2>4. <<>> \o nums = nums /\ nums \o <<>> = nums
    BY ConcatEmptySeq
  <2> QED BY <1>12, <1>13, <1>14, <2>1, <2>2, <2>3, <2>4, Zenon
<1>16. EndsLast(s, x)
  <2>1. EndsLast(a, x) /\ EndsLast(v, x) /\ EndsLast(w, x) /\ EndsLast(b, x)
    BY <1>9, <1>10, <1>11 DEF EndsLast, NoneEnds, NoneFor
  <2>2. EndsLast(vw, x)
    BY <1>11, <1>12, <2>1, EndsLastBoth
  <2>3. EndsLast(vwb, x)
    BY <1>9, <1>13, <2>1, <2>2, EndsLastBoth
  <2> QED BY <1>9, <1>14, <2>1, <2>3, EndsLastBoth
<1>17. ASSUME closing = <<>> PROVE NoneEnds(s, x)
  <2>1. \A p, q \in Seq(Errand) : NoneEnds(p, x) /\ NoneEnds(q, x) => NoneEnds(p \o q, x)
    <3> SUFFICES ASSUME NEW p \in Seq(Errand), NEW q \in Seq(Errand), NoneEnds(p, x), NoneEnds(q, x),
                        NEW i \in DOMAIN (p \o q)
                 PROVE  (p \o q)[i].dst = x => (p \o q)[i].item.kind \notin {"close", "eof", "empty"}
      BY DEF NoneEnds
    <3>1. DOMAIN p = 1 .. Len(p) /\ DOMAIN q = 1 .. Len(q) /\ DOMAIN (p \o q) = 1 .. Len(p) + Len(q)
      OBVIOUS
    <3>2. \/ i \in 1 .. Len(p) /\ (p \o q)[i] = p[i]
          \/ i > Len(p) /\ i - Len(p) \in 1 .. Len(q) /\ (p \o q)[i] = q[i - Len(p)]
      BY <3>1, JoinAt
    <3> QED BY <3>1, <3>2 DEF NoneEnds
  <2>2. NoneEnds(vw, x)
    BY <1>10, <1>11, <1>12, <1>17, <2>1
  <2>3. NoneEnds(vwb, x)
    BY <1>9, <1>13, <2>1, <2>2
  <2> QED BY <1>9, <1>14, <2>1, <2>3
<1> QED BY <1>2, <1>15, <1>16, <1>17

(* Each filtergraph has one input and feeds no other (a graph that does    *)
(* may lose frames), and all that is muxed comes from a demuxer.  That     *)
(* every stream has a source is seen to by start_prepare().                *)
OneWay ==
  /\ \A x \in Dsts : \E t : x \in DstsFrom(t)
  /\ \A f \in Filters : \E p : Ports[f] = {p}
  /\ \A f \in Filters : \A x \in DstsFrom(f) : x[1] \notin Filters
  /\ \A y \in MuxDsts : Path(y) \cap Demuxers # {}

LEMMA NotToItself ==
  ASSUME OneWay, NEW t, NEW s, NEW x, From(t, s, x)
  PROVE  t # x[1] /\ (x[1] \in Filters => t \in Decs)
<1>1. t \in Producers /\ x[1] \in TakersOf(t) /\ x \in DstsFrom(t)
  BY FromIs
<1>2. t \in Filters => x[1] \notin Filters
  BY <1>1 DEF OneWay
<1>3. CASE t \in Demuxers
  BY <1>1, <1>3, Kinds, KindsOf DEF TakersOf, Consumers
<1>4. CASE t \in Decs
  BY <1>1, <1>4, Kinds, KindsOf DEF TakersOf, Consumers
<1>5. CASE t \in Filters
  <2>1. x[1] \in Encs \cup Filters
    BY <1>1, <1>5, Kinds, KindsOf DEF TakersOf, Consumers
  <2> QED BY <1>2, <1>5, <2>1
<1>6. CASE t \in Encs
  BY <1>1, <1>6, Kinds, KindsOf DEF TakersOf, Consumers
<1> QED BY <1>1, <1>3, <1>4, <1>5, <1>6 DEF Producers

LEMMA OnWayFrom ==
  ASSUME NEW y, NEW x \in OnWay(y), NEW t, NEW s, From(t, s, x)
  PROVE  t \in Path(y)
<1>1. t \in Producers /\ x \in DstsFrom(t) /\ x \in Range(DstsOf(t))
  BY FromIs DEF DstsFrom
<1>2. CASE x = y
  BY <1>1, <1>2, PathStart
<1>3. CASE x[1] \in Path(y)
  <2> SUFFICES ASSUME NEW T \in SUBSET Producers, Upstream(y, T) PROVE t \in T
    BY <1>1 DEF Path
  <2>1. x[1] \in T
    BY <1>3 DEF Path
  <2>2. x \in InputsOf(T)
    BY <2>1, FromIs DEF InputsOf
  <2>3. t \in ProducersOf({y} \cup InputsOf(T))
    BY <1>1, <2>2 DEF ProducersOf
  <2> QED BY <2>3 DEF Upstream
<1> QED BY <1>2, <1>3 DEF OnWay

(* Whatever is done to all that sends on the way is done to the whole way. *)
LEMMA PathIn ==
  ASSUME NEW y \in Dsts, NEW T \in SUBSET Producers,
         \A t \in Producers : \A s : \A x \in OnWay(y) :
           From(t, s, x) /\ t \in Path(y) /\ (x = y \/ x[1] \in T) => t \in T
  PROVE  Path(y) \subseteq T
<1> DEFINE U == T \cap Path(y)
<1>1. Upstream(y, U)
  <2> SUFFICES ASSUME NEW t \in ProducersOf({y} \cup InputsOf(U)) PROVE t \in U
    BY DEF Upstream
  <2>1. t \in Producers /\ \E x \in Range(DstsOf(t)) : x \in {y} \cup InputsOf(U)
    BY DEF ProducersOf
  <2>2. PICK x \in Range(DstsOf(t)) : x \in {y} \cup InputsOf(U)
    BY <2>1
  <2>3. PICK s : From(t, s, x)
    BY <2>1, FromSome DEF DstsFrom
  <2>4. x = y \/ x[1] \in U
    BY <2>2 DEF InputsOf
  <2>5. x \in OnWay(y)
    BY <2>3, <2>4, FromIs DEF OnWay
  <2>6. t \in Path(y)
    BY <2>3, <2>5, OnWayFrom
  <2> QED BY <2>1, <2>3, <2>4, <2>5, <2>6
<1>2. U \in SUBSET Producers
  OBVIOUS
<1> QED BY <1>1, <1>2 DEF Path

LEMMA PathSends ==
  ASSUME NEW y \in Dsts, NEW t \in Path(y)
  PROVE  \E s : \E x \in OnWay(y) : From(t, s, x)
<1> DEFINE T == {u \in Producers : \E s : \E x \in OnWay(y) : From(u, s, x)}
<1>1. Path(y) \subseteq T
  <2>1. T \in SUBSET Producers
    OBVIOUS
  <2>2. \A u \in Producers : \A s : \A x \in OnWay(y) : From(u, s, x) => u \in T
    OBVIOUS
  <2> HIDE DEF T
  <2> QED BY <2>1, <2>2, PathIn
<1> QED BY <1>1

(* The inputs on the way: one of each codec and filtergraph.               *)
LEMMA InOfIs ==
  ASSUME OneWay, NEW t \in Codecs
  PROVE  InOf(t) \in Dsts /\ InOf(t)[1] = t /\ \A x \in Dsts : x[1] = t => x = InOf(t)
<1>1. t \in Consumers /\ \E p : Ports[t] = {p}
  <2>1. t \in Decs \cup Encs => Ports[t] = {1}
    BY GraphAssumption
  <2> QED BY <2>1, KindsOf DEF OneWay, Codecs
<1>2. PICK p : Ports[t] = {p}
  BY <1>1
<1>3. (CHOOSE q \in Ports[t] : TRUE) = p
  BY <1>2
<1>4. InOf(t) = <<t, p>> /\ <<t, p>> \in Dsts
  BY <1>1, <1>2, <1>3, PortsType DEF InOf
<1>5. \A x \in Dsts : x[1] = t => x = <<t, p>>
  BY <1>2, DstsType
<1> QED BY <1>4, <1>5

LEMMA OnWayMuxes ==
  ASSUME NEW y, NEW x \in OnWay(y), x[1] \in Muxes
  PROVE  x = y
<1>1. x[1] \notin Producers
  BY Kinds DEF Producers, Consumers
<1> QED BY <1>1 DEF OnWay, Path

(* A filtergraph gives its frames to what is on a way that gets frames.    *)
LEMMA FedOnWay ==
  ASSUME NEW y \in MuxDsts, Fed(y), NEW f \in Filters, NEW x \in OnWay(y), NEW s, From(f, s, x)
  PROVE  x \notin NoFrames /\ x \in DstsFrom(f)
<1>1. /\ x \in DstsFrom(f) /\ x[1] \in Consumers /\ x[2] \in Ports[x[1]] /\ x = <<x[1], x[2]>>
      /\ x[1] \in TakersOf(f)
  BY FromIs
<1>2. x[1] \in Encs \cup Filters
  BY <1>1, Kinds, KindsOf DEF TakersOf, Consumers
<1>3. x[1] \in Path(y)
  BY <1>2, Kinds DEF MuxDsts, OnWay
<1>4. x \in InputsOf(Path(y))
  BY <1>1, <1>3 DEF InputsOf
<1> QED BY <1>1, <1>4 DEF Fed

(* What a step leaves as it was: a thread that sends, one that takes, the  *)
(* end of a stream, and what is in a queue of it.                          *)
SameGiver(t) ==
  /\ SameAt(t) /\ (t \in Codecs => held'[t] = held[t]) /\ (t \in Filters => eof_in'[t] = eof_in[t])
SameTaker(c) ==
  /\ pc'[c] = pc[c] /\ recv_finished'[c] = recv_finished[c] /\ (c \in Filters => eof_in'[c] = eof_in[c])
SameEnd(x) ==
  /\ x \in dst_finished' <=> x \in dst_finished
  /\ x[2] \in send_finished'[x[1]] <=> x[2] \in send_finished[x[1]]
Neutral(x) == Entry \ (QueueData(x[2]) \cup EofEntries(x[2]))
SameQueue(x) ==
  \/ queue'[x[1]] = queue[x[1]]
  \/ \E e \in Neutral(x) : queue'[x[1]] = Append(queue[x[1]], e)

LEMMA AppendAt ==
  ASSUME NEW S, NEW s \in Seq(S), NEW e \in S
  PROVE  /\ DOMAIN s = 1 .. Len(s) /\ DOMAIN Append(s, e) = 1 .. Len(s) + 1 /\ Len(s) \in Nat
         /\ Append(s, e)[Len(s) + 1] = e /\ \A i \in 1 .. Len(s) : Append(s, e)[i] = s[i]
         /\ \A i \in 1 .. Len(s) + 1 : i \in 1 .. Len(s) \/ i = Len(s) + 1
OBVIOUS

LEMMA SameQueueIs ==
  ASSUME Types, NEW x \in Dsts, SameQueue(x)
  PROVE  /\ InQueue(x)' = InQueue(x) /\ (EofQueued(x)' <=> EofQueued(x))
         /\ NoDataAfterEof(x) => NoDataAfterEof(x)'
<1>1. CASE queue'[x[1]] = queue[x[1]]
  BY <1>1 DEF InQueue, EofQueued, NoDataAfterEof
<1>2. ASSUME NEW e \in Neutral(x), queue'[x[1]] = Append(queue[x[1]], e)
      PROVE  /\ InQueue(x)' = InQueue(x) /\ (EofQueued(x)' <=> EofQueued(x))
             /\ NoDataAfterEof(x) => NoDataAfterEof(x)'
  <2>1. PICK q \in Seq(Entry) : q = queue[x[1]]
    BY DstsType DEF Types, QueueOK
  <2>2. e \in Entry /\ e \notin QueueData(x[2]) /\ e \notin EofEntries(x[2])
    BY DEF Neutral
  <2>3. PICK r : r = Append(q, e)
    OBVIOUS
  <2>4. /\ DOMAIN q = 1 .. Len(q) /\ DOMAIN r = 1 .. Len(q) + 1 /\ Len(q) \in Nat
        /\ r[Len(q) + 1] = e /\ \A i \in 1 .. Len(q) : r[i] = q[i]
        /\ \A i \in 1 .. Len(q) + 1 : i \in 1 .. Len(q) \/ i = Len(q) + 1
    BY <2>2, <2>3, AppendAt
  <2>5. queue[x[1]] = q /\ queue'[x[1]] = r
    BY <1>2, <2>1, <2>3
  <2>6. InQueue(x)' = InQueue(x)
    <3>1. Picked(r, QueueData(x[2])) = Picked(q, QueueData(x[2])) \o NumOf(e, QueueData(x[2]))
      BY <2>2, <2>3, DataNumbered, PickedAppend
    <3>2. NumOf(e, QueueData(x[2])) = <<>>
      BY <2>2 DEF NumOf
    <3>3. PICK a \in Seq(Nat) : a = Picked(q, QueueData(x[2]))
      BY DataNumbered, PickedType
    <3>4. a \o <<>> = a
      BY ConcatEmptySeq
    <3> QED BY <2>5, <3>1, <3>2, <3>3, <3>4 DEF InQueue
  <2>7. EofQueued(x)' <=> EofQueued(x)
    <3>1. EofQueued(x) <=> \E i \in 1 .. Len(q) : q[i] \in EofEntries(x[2])
      BY <2>4, <2>5 DEF EofQueued
    <3>2. EofQueued(x)' <=> \E i \in 1 .. Len(q) + 1 : r[i] \in EofEntries(x[2])
      BY <2>4, <2>5 DEF EofQueued
    <3>3. 1 .. Len(q) \subseteq 1 .. Len(q) + 1
      BY <2>4
    <3> QED BY <2>2, <2>4, <3>1, <3>2, <3>3
  <2>8. ASSUME NoDataAfterEof(x) PROVE NoDataAfterEof(x)'
    <3>1. \A i, j \in 1 .. Len(q) : j > i /\ q[i] \in EofEntries(x[2]) => q[j] \notin QueueData(x[2])
      BY <2>4, <2>5, <2>8 DEF NoDataAfterEof
    <3>2. ASSUME NEW i \in 1 .. Len(q) + 1, NEW j \in 1 .. Len(q) + 1, j > i, r[i] \in EofEntries(x[2])
          PROVE  r[j] \notin QueueData(x[2])
      BY <2>2, <2>4, <3>1, <3>2
    <3> QED BY <2>4, <2>5, <3>2 DEF NoDataAfterEof
  <2> QED BY <2>6, <2>7, <2>8
<1> QED BY <1>1, <1>2 DEF SameQueue

(* A stream between two other threads.                                     *)
LEMMA FlowOthers ==
  ASSUME Types, NEW t, NEW s, NEW x, From(t, s, x), NEW n, NEW m, FlowAt(t, s, x, n), m[x] = n[x],
         SameGiver(t), SameTaker(x[1]), SameEnd(x), SameQueue(x),
         t \in Demuxers => nb_read'[t][s] = nb_read[t][s],
         t \notin Demuxers => m[InOf(t)] = n[InOf(t)]
  PROVE  FlowAt(t, s, x, m)'
<1>1. /\ InQueue(x)' = InQueue(x) /\ (EofQueued(x)' <=> EofQueued(x))
      /\ NoDataAfterEof(x) => NoDataAfterEof(x)'
  BY FromIs, SameQueueIs
<1>2. InTodo(t, x)' = InTodo(t, x) /\ Held(t)' = Held(t) /\ (Over(t)' <=> Over(t)) /\ pc'[t] = pc[t]
      /\ todo'[t] = todo[t]
  BY DEF SameGiver, SameAt, InTodo, Held, Over
<1>3. Over(x[1])' <=> Over(x[1])
  BY DEF SameTaker, Over
<1>4. Whole(t, s, m)' = Whole(t, s, n)
  BY DEF Whole
<1>5. Flows(t, s, x, m)'
  BY <1>1, <1>2, <1>4 DEF FlowAt, Flows, Coming
<1>6. LastToSend(t, x)'
  BY <1>2 DEF FlowAt, LastToSend
<1>7. ClosedWhenOver(t, x)'
  BY <1>1, <1>2, <1>3 DEF FlowAt, ClosedWhenOver, Drained, SameEnd, SameTaker
<1>8. x[1] \in Filters => EofFirst(t, x)'
  BY <1>1, <1>2, <1>3 DEF FlowAt, EofFirst, EofToSend, SameEnd, SameTaker
<1> QED BY <1>5, <1>6, <1>7, <1>8 DEF FlowAt

LEMMA FlowTypes ==
  ASSUME Types, OneWay, NEW t, NEW s, NEW x, From(t, s, x), NEW n \in [Dsts -> Nat]
  PROVE  InQueue(x) \in Seq(Nat) /\ InTodo(t, x) \in Seq(Nat) /\ Held(t) \in Seq(Nat) /\ Coming(t, x) \in Seq(Nat)
         /\ Whole(t, s, n) \in Nat /\ n[x] \in Nat
<1>1. x \in Dsts /\ x[1] \in Consumers /\ t \in Threads /\ t \in Producers /\ s \in DOMAIN Outs[t]
  BY FromIs
<1>2. queue[x[1]] \in Seq(Entry) /\ todo[t] \in Seq(Errand)
  BY <1>1 DEF Types, QueueOK, TodoOK
<1>3. InQueue(x) \in Seq(Nat) /\ InTodo(t, x) \in Seq(Nat)
  BY <1>2, DataNumbered, PickedType DEF InQueue, InTodo
<1>4. Held(t) \in Seq(Nat)
  BY DEF Types, DataOK, Held
<1>8. Coming(t, x) \in Seq(Nat)
  BY <1>3, <1>4 DEF Coming
<1>5. t \in Demuxers \/ t \in Codecs
  BY <1>1 DEF Producers, Codecs
<1>6. t \in Demuxers => Whole(t, s, n) \in Nat
  BY <1>1 DEF Types, DataOK, Whole
<1>7. t \notin Demuxers => Whole(t, s, n) \in Nat
  <2>1. t \notin Demuxers => InOf(t) \in Dsts
    BY <1>5, InOfIs
  <2> QED BY <2>1 DEF Whole
<1> QED BY <1>1, <1>3, <1>4, <1>6, <1>7, <1>8

LEMMA NumbersJoin == \A q, a, b \in Seq(Nat) : (q \o a) \o b = q \o (a \o b)
OBVIOUS

(* The sender has nothing left to send, and goes on: with one frame more,  *)
(* or with what it held back.                                              *)
LEMMA FlowGiven ==
  ASSUME Types, OneWay, NEW t, NEW s, NEW x, From(t, s, x), NEW n \in [Dsts -> Nat], NEW m, m[x] = n[x],
         FlowAt(t, s, x, n), InTodo(t, x) = <<>>,
         SameTaker(x[1]), SameEnd(x), SameQueue(x),
         \/ Whole(t, s, m)' = Whole(t, s, n) /\ Coming(t, x)' = Coming(t, x)
         \/ /\ Whole(t, s, m)' = Whole(t, s, n) + 1
            /\ Coming(t, x)' = Coming(t, x) \o <<Whole(t, s, n) + 1>>,
         LastToSend(t, x)',
         Over(t) => Over(t)' /\ InTodo(t, x)' = <<>>,
         x[1] \in Filters /\ pc'[t] = "draining" => Over(x[1]) \/ EofQueued(x) \/ EofToSend(t, x)',
         x[1] \in Filters /\ pc'[t] = "cleanup" => Over(x[1]) \/ EofQueued(x)
  PROVE  FlowAt(t, s, x, m)'
<1>1. /\ InQueue(x)' = InQueue(x) /\ (EofQueued(x)' <=> EofQueued(x))
      /\ NoDataAfterEof(x) => NoDataAfterEof(x)'
  BY FromIs, SameQueueIs
<1>2. Over(x[1])' <=> Over(x[1])
  BY DEF SameTaker, Over
<1>3. InQueue(x) \in Seq(Nat) /\ Coming(t, x) \in Seq(Nat) /\ Whole(t, s, n) \in Nat
      /\ n[x] \in Nat
  BY FlowTypes
<1>4. Flows(t, s, x, m)'
  <2>1. PICK w \in Nat : w = Whole(t, s, n)
    BY <1>3
  <2>2. PICK k \in Nat : k = n[x]
    BY <1>3
  <2>3. k <= w /\ InQueue(x) \o Coming(t, x) = Upto(k, w) /\ m[x] = k
    BY <2>1, <2>2 DEF FlowAt, Flows
  <2>4. CASE Whole(t, s, m)' = w /\ Coming(t, x)' = Coming(t, x)
    BY <1>1, <2>3, <2>4, Zenon DEF Flows
  <2>5. CASE Whole(t, s, m)' = w + 1 /\ Coming(t, x)' = Coming(t, x) \o <<w + 1>>
    <3>1. <<w + 1>> \in Seq(Nat) /\ k <= w + 1
      BY <2>3
    <3>2. InQueue(x) \o Coming(t, x)' = (InQueue(x) \o Coming(t, x)) \o <<w + 1>>
      <4>1. (InQueue(x) \o Coming(t, x)) \o <<w + 1>> = InQueue(x) \o (Coming(t, x) \o <<w + 1>>)
        BY <1>3, <3>1, NumbersJoin
      <4> QED BY <2>5, <4>1, Zenon
    <3>3. Upto(k, w) \o <<w + 1>> = Upto(k, w + 1)
      BY <2>3, UptoMore
    <3> QED BY <1>1, <2>3, <2>5, <3>1, <3>2, <3>3, Zenon DEF Flows
  <2> QED BY <2>1, <2>4, <2>5
<1>5. ClosedWhenOver(t, x)'
  BY <1>1, <1>2 DEF FlowAt, ClosedWhenOver, Drained, SameEnd, SameTaker
<1>6. x[1] \in Filters => EofFirst(t, x)'
  BY <1>1, <1>2 DEF FlowAt, EofFirst, SameEnd, SameTaker
<1> QED BY <1>4, <1>5, <1>6 DEF FlowAt

(* The next number is taken from the queue.                                *)
LEMMA NumberTaken ==
  ASSUME Types, OneWay, NEW t, NEW s, NEW x, From(t, s, x), NEW n \in [Dsts -> Nat], Flows(t, s, x, n),
         NEW k \in Nat, InQueue(x)' \in Seq(Nat), InQueue(x) = <<k>> \o InQueue(x)'
  PROVE  k = n[x] + 1 /\ n[x] + 1 <= Whole(t, s, n)
         /\ InQueue(x)' \o Coming(t, x) = Upto(n[x] + 1, Whole(t, s, n))
<1>0. PICK q \in Seq(Nat) : q = InQueue(x)'
  BY Zenon
<1>1. Coming(t, x) \in Seq(Nat) /\ Whole(t, s, n) \in Nat /\ n[x] \in Nat
  BY FlowTypes
<1>2. PICK w \in Nat : w = Whole(t, s, n)
  BY <1>1
<1>3. PICK a \in Nat : a = n[x]
  BY <1>1
<1>4. a <= w /\ (<<k>> \o q) \o Coming(t, x) = Upto(a, w)
  BY <1>0, <1>2, <1>3, Zenon DEF Flows
<1>5. <<k>> \in Seq(Nat)
  OBVIOUS
<1>6. (<<k>> \o q) \o Coming(t, x) = <<k>> \o (q \o Coming(t, x))
  BY <1>1, <1>5, NumbersJoin
<1>7. q \o Coming(t, x) \in Seq(Nat)
  BY <1>1
<1>8. PICK z \in Seq(Nat) : z = q \o Coming(t, x)
  BY <1>7, Zenon
<1>9. <<k>> \o z = Upto(a, w)
  BY <1>4, <1>6, <1>8, Zenon
<1>10. k = a + 1 /\ a + 1 <= w /\ z = Upto(a + 1, w)
  BY <1>4, <1>9, UptoFirst
<1> QED BY <1>0, <1>2, <1>3, <1>8, <1>10, Zenon

LEMMA FlowsTaken ==
  ASSUME Types, OneWay, NEW t, NEW s, NEW x, From(t, s, x), NEW n \in [Dsts -> Nat], NEW m,
         Flows(t, s, x, n), Coming(t, x)' = Coming(t, x), Whole(t, s, m)' = Whole(t, s, n),
         InQueue(x)' \in Seq(Nat), m[x] = n[x] + 1, \E k \in Nat : InQueue(x) = <<k>> \o InQueue(x)'
  PROVE  Flows(t, s, x, m)'
<1>1. PICK k \in Nat : InQueue(x) = <<k>> \o InQueue(x)'
  OBVIOUS
<1>2. n[x] + 1 <= Whole(t, s, n) /\ InQueue(x)' \o Coming(t, x) = Upto(n[x] + 1, Whole(t, s, n))
  BY <1>1, NumberTaken, Zenon
<1> QED BY <1>2, Zenon DEF Flows

LEMMA FlowTaken ==
  ASSUME Types, OneWay, NEW t, NEW s, NEW x, From(t, s, x), NEW n \in [Dsts -> Nat], NEW m,
         FlowAt(t, s, x, n),
         SameGiver(t), SameEnd(x), Whole(t, s, m)' = Whole(t, s, n), InQueue(x)' \in Seq(Nat),
         \/ m[x] = n[x] /\ InQueue(x)' = InQueue(x)
         \/ m[x] = n[x] + 1 /\ \E k \in Nat : InQueue(x) = <<k>> \o InQueue(x)',
         Over(x[1]) => Over(x[1])',
         x[2] \in recv_finished'[x[1]] \/ Over(x[1])' =>
           \/ x[2] \in recv_finished[x[1]] \/ Over(x[1])
           \/ Over(t) /\ InQueue(x)' = <<>> /\ InTodo(t, x) = <<>>,
         x[1] \in Filters =>
           /\ NoDataAfterEof(x)' /\ (EofQueued(x)' => EofQueued(x))
           /\ EofQueued(x) => Over(x[1])' \/ EofQueued(x)'
           /\ x[2] \in recv_finished'[x[1]] => Over(x[1])'
  PROVE  FlowAt(t, s, x, m)'
<1>1. InTodo(t, x)' = InTodo(t, x) /\ Held(t)' = Held(t) /\ (Over(t)' <=> Over(t)) /\ pc'[t] = pc[t]
      /\ todo'[t] = todo[t]
  BY DEF SameGiver, SameAt, InTodo, Held, Over
<1>2. Coming(t, x)' = Coming(t, x)
  BY <1>1 DEF Coming
<1>3. InQueue(x) = <<>> => InQueue(x)' = <<>>
  <2>1. ASSUME NEW k \in Nat, NEW q \in Seq(Nat) PROVE <<k>> \o q # <<>>
    <3>1. Len(<<k>> \o q) = 1 + Len(q) /\ Len(q) \in Nat
      OBVIOUS
    <3> QED BY <3>1
  <2> QED BY <2>1
<1>4. Flows(t, s, x, m)'
  <2>1. CASE m[x] = n[x] /\ InQueue(x)' = InQueue(x)
    BY <1>2, <2>1, Zenon DEF FlowAt, Flows
  <2>2. CASE m[x] = n[x] + 1 /\ \E k \in Nat : InQueue(x) = <<k>> \o InQueue(x)'
    <3>1. Flows(t, s, x, n)
      BY DEF FlowAt
    <3> QED BY <1>2, <2>2, <3>1, FlowsTaken
  <2> QED BY <2>1, <2>2, Zenon
<1>5. LastToSend(t, x)'
  BY <1>1 DEF FlowAt, LastToSend
<1>6. ClosedWhenOver(t, x)'
  BY <1>1, <1>3 DEF FlowAt, ClosedWhenOver, Drained, SameEnd
<1>7. x[1] \in Filters => EofFirst(t, x)'
  BY <1>1 DEF FlowAt, EofFirst, EofToSend, SameEnd
<1> QED BY <1>4, <1>5, <1>6, <1>7 DEF FlowAt

(* What is taken from a queue: nothing before what is got is live.         *)
LEMMA TakenFrom ==
  ASSUME Types, NEW t, NEW x \in Dsts, ClosedWhenOver(t, x), NEW kind, Receives(x[1], kind)
  PROVE  /\ InQueue(x)' \in Seq(Nat) /\ Got(x[1]).item.num \in Nat /\ Got(x[1]).item.kind = kind
         /\ IF Got(x[1]).port = x[2] /\ kind = "data"
            THEN InQueue(x) = <<Got(x[1]).item.num>> \o InQueue(x)'
            ELSE InQueue(x)' = InQueue(x)
<1> DEFINE c == x[1]
<1>1. c \in Consumers /\ x[2] \in Nat
  BY DstsType
<1>2. PICK q \in Seq(Entry) : q = queue[c]
  BY <1>1 DEF Types, QueueOK
<1>3. PICK l \in 1 .. Len(q) : l = FirstLive(c)
  BY <1>1, <1>2, ReceivesType
<1>4. PICK e \in Entry : e = Got(c) /\ e = q[l]
  BY <1>1, <1>2, <1>3, ReceivesType DEF Got
<1>5. /\ e.item \in ItemType /\ e.item.num \in Nat /\ e.item.kind = kind
      /\ e.port \in Ports[c] /\ e.port \notin recv_finished[c]
      /\ queue'[c] = SubSeq(q, l + 1, Len(q))
  <2>1. Receives(c, kind)
    OBVIOUS
  <2>2. /\ Got(c) \in Entry /\ Got(c).port \in Ports[c] /\ Got(c).port \notin recv_finished[c]
        /\ Got(c).item \in ItemType /\ Got(c).item.num \in Nat /\ Got(c).item.kind = kind
        /\ queue'[c] = SubSeq(queue[c], FirstLive(c) + 1, Len(queue[c]))
    BY <1>1, <2>1, ReceivesType
  <2>3. queue'[c] = SubSeq(q, l + 1, Len(q))
    BY <1>2, <1>3, <2>2, Zenon
  <2> QED BY <1>4, <2>2, <2>3, Zenon
<1>6. \A i \in DOMAIN q : q[i].port \notin recv_finished[c] => l <= i
  <2>1. Live(c) # {}
    BY DEF Receives
  <2> QED BY <1>1, <1>2, <1>3, <2>1, FirstLiveIs DEF Live
<1>7. PICK S : S = QueueData(x[2])
  OBVIOUS
<1>8. Numbered(S)
  BY <1>7, DataNumbered
<1>9. PICK r \in Seq(Entry) : r = queue'[c]
  <2>1. l \in 0 .. Len(q)
    OBVIOUS
  <2>2. SubSeq(q, l + 1, Len(q)) \in Seq(Entry)
    BY <2>1, SplitSeq
  <2> QED BY <1>5, <2>2
<1>10. InQueue(x) = Picked(q, S) /\ InQueue(x)' = Picked(r, S)
  BY <1>2, <1>7, <1>9 DEF InQueue
<1>11. Picked(r, S) \in Seq(Nat)
  BY <1>8, PickedType
<1>12. CASE x[2] \in recv_finished[c]
  <2>1. Picked(q, S) = <<>>
    BY <1>10, <1>12 DEF ClosedWhenOver, Drained
  <2>2. \A i \in DOMAIN q : q[i] \notin S
    BY <1>8, <2>1, PickedNone
  <2>3. \A i \in DOMAIN r : r[i] \notin S
    <3>1. Len(q) \in Nat /\ l \in 0 .. Len(q) /\ DOMAIN q = 1 .. Len(q)
      OBVIOUS
    <3>2. /\ Len(SubSeq(q, l + 1, Len(q))) = Len(q) - l
          /\ \A i \in 1 .. Len(q) - l : SubSeq(q, l + 1, Len(q))[i] = q[l + i]
      BY <3>1, SplitSeq, Zenon
    <3>3. Len(r) = Len(q) - l /\ \A i \in 1 .. Len(q) - l : r[i] = q[l + i]
      BY <1>5, <1>9, <3>2, Zenon
    <3>4. DOMAIN r = 1 .. Len(q) - l
      BY <3>3
    <3> SUFFICES ASSUME NEW i \in 1 .. Len(q) - l PROVE r[i] \notin S
      BY <3>4
    <3>5. l + i \in DOMAIN q
      BY <3>1
    <3> QED BY <2>2, <3>3, <3>5
  <2>4. Picked(r, S) = <<>>
    BY <1>8, <2>3, PickedNone
  <2> QED BY <1>4, <1>5, <1>10, <1>11, <1>12, <2>1, <2>4
<1>13. CASE x[2] \notin recv_finished[c]
  <2>1. \A i \in 1 .. l - 1 : q[i] \notin S
    <3> SUFFICES ASSUME NEW i \in 1 .. l - 1, q[i] \in S PROVE FALSE
      OBVIOUS
    <3>1. i \in DOMAIN q /\ q[i].port = x[2]
      BY <1>7 DEF QueueData
    <3> QED BY <1>6, <1>13, <3>1
  <2>2. Picked(q, S) = NumOf(q[l], S) \o Picked(SubSeq(q, l + 1, Len(q)), S)
    BY <1>8, <2>1, PickedDrop
  <2>3. Picked(q, S) = NumOf(e, S) \o Picked(r, S)
    BY <1>4, <1>5, <1>9, <2>2
  <2>4. CASE e.port = x[2] /\ kind = "data"
    <3>1. e \in S
      BY <1>5, <1>7, <2>4 DEF QueueData, Entry, ItemType
    <3> QED BY <1>4, <1>5, <1>10, <1>11, <2>3, <2>4, <3>1, Zenon DEF NumOf
  <2>5. CASE ~(e.port = x[2] /\ kind = "data")
    <3>1. e \notin S
      BY <1>5, <1>7, <2>5 DEF QueueData
    <3>2. <<>> \o Picked(r, S) = Picked(r, S)
      BY <1>11, ConcatEmptySeq
    <3> QED BY <1>4, <1>5, <1>10, <1>11, <2>3, <2>5, <3>1, <3>2, Zenon DEF NumOf
  <2> QED BY <2>4, <2>5
<1> QED BY <1>12, <1>13

(* A thread takes from its own queue, and sends to its outputs only.       *)
HistoryOK ==
  /\ eof_in \in [Filters -> SUBSET Nat] /\ \A f \in Filters : eof_in[f] \subseteq Ports[f]
  /\ DOMAIN muxed = Muxes /\ \A m \in Muxes : DOMAIN muxed[m] = Ports[m]

Own(F, G, u) == G = F \/ \E v : G = Set(F, u, v)

LEMMA OwnElse ==
  ASSUME NEW F, NEW G, NEW u, Own(F, G, u)
  PROVE  \A t \in DOMAIN F : t # u => G[t] = F[t]
BY DEF Own, Set

LEMMA Footprint ==
  ASSUME NEW u \in Threads, ThreadNext(u) \/ task_fails(u)
  PROVE  /\ Own(held, held', u) /\ Own(eof_in, eof_in', u) /\ Own(nb_read, nb_read', u)
         /\ Own(recv_finished, recv_finished', u) /\ Own(muxed, muxed', u)
         /\ failed \subseteq failed' /\ ended \subseteq ended'
<1>1. CASE Send(u) \/ tq_drop(u)
  BY <1>1, Zenon DEF Send, tq_drop, dataVars, historyVars, SendClose, SendItem, SendNothing, queueVars, Own
<1>2. CASE task_cleanup(u) \/ task_fails(u)
  BY <1>2, Zenon DEF task_cleanup, task_fails, dataVars, historyVars, queueVars, Own
<1>3. CASE DemuxNext(u)
  <2>1. UNCHANGED <<held, eof_in, recv_finished, muxed, failed, ended>>
    BY <1>3, Zenon DEF DemuxNext, demux_read, demux_ends, demux_loop, demux_flush_eof, demux_flush, demux_end_ts,
         seek_to_start, dataVars, historyVars, queueVars, InputUnchanged
  <2>2. Own(nb_read, nb_read', u)
    BY <1>3, Zenon DEF DemuxNext, demux_read, demux_ends, demux_loop, demux_flush_eof, demux_flush, demux_end_ts,
         seek_to_start, dataVars, Own, Set
  <2> QED BY <2>1, <2>2 DEF Own
<1>4. CASE DecNext(u)
  <2>1. UNCHANGED <<eof_in, nb_read, muxed, failed, ended>>
    BY <1>4 DEF DecNext, dec_end_ts, dec_packet, dec_flush, dec_eof, dec_exit, DecUnchanged, dataVars, historyVars
  <2>2. Own(held, held', u)
    BY <1>4 DEF DecNext, dec_end_ts, dec_packet, dec_flush, dec_eof, dec_exit, dataVars, Process, Own
  <2>3. Own(recv_finished, recv_finished', u)
    BY <1>4 DEF DecNext, dec_end_ts, dec_packet, dec_flush, dec_eof, dec_exit, queueVars, ReceivesEof, Own, Set
  <2> QED BY <2>1, <2>2, <2>3 DEF Own
<1>5. CASE FilterNext(u)
  <2>1. UNCHANGED <<nb_read, muxed, failed>>
    BY <1>5 DEF FilterNext, filter_frame, filter_receive_finish, filter_eof_frame, filter_stream_eof, filter_ends,
         FilterUnchanged, dataVars, historyVars
  <2>2. Own(held, held', u)
    BY <1>5 DEF FilterNext, filter_frame, filter_receive_finish, filter_eof_frame, filter_stream_eof, filter_ends,
         dataVars, Feed, Own
  <2>3. Own(recv_finished, recv_finished', u)
    BY <1>5 DEF FilterNext, filter_frame, filter_receive_finish, filter_eof_frame, filter_stream_eof, filter_ends,
         queueVars, ReceivesEof, Own, Set
  <2>4. Own(eof_in, eof_in', u)
    BY <1>5 DEF FilterNext, filter_frame, filter_receive_finish, filter_eof_frame, filter_stream_eof, filter_ends,
         dataVars, Own, Set
  <2>5. ended \subseteq ended'
    BY <1>5 DEF FilterNext, filter_frame, filter_receive_finish, filter_eof_frame, filter_stream_eof, filter_ends,
         historyVars
  <2> QED BY <2>1, <2>2, <2>3, <2>4, <2>5 DEF Own
<1>6. CASE EncNext(u)
  <2>1. UNCHANGED <<eof_in, nb_read, muxed>>
    BY <1>6 DEF EncNext, enc_frame, enc_finishes, enc_eof, EncUnchanged
  <2>2. Own(held, held', u)
    BY <1>6 DEF EncNext, enc_frame, enc_finishes, enc_eof, Process, Own
  <2>3. Own(recv_finished, recv_finished', u)
    BY <1>6 DEF EncNext, enc_frame, enc_finishes, enc_eof, ReceivesEof, Own, Set
  <2>4. failed \subseteq failed' /\ ended \subseteq ended'
    BY <1>6 DEF EncNext, enc_frame, enc_finishes, enc_eof
  <2> QED BY <2>1, <2>2, <2>3, <2>4 DEF Own
<1>7. CASE MuxNext(u)
  <2>1. UNCHANGED <<held, eof_in, nb_read, failed>>
    BY <1>7 DEF MuxNext, mux_packet, mux_receive_finish, mux_finishes, mux_eof, MuxUnchanged, dataVars
  <2>2. Own(recv_finished, recv_finished', u)
    BY <1>7 DEF MuxNext, mux_packet, mux_receive_finish, mux_finishes, mux_eof, ReceivesEof, Own, Set
  <2>3. Own(muxed, muxed', u)
    BY <1>7 DEF MuxNext, mux_packet, mux_receive_finish, mux_finishes, mux_eof, Own, Set
  <2>4. ended \subseteq ended'
    BY <1>7 DEF MuxNext, mux_packet, mux_receive_finish, mux_finishes, mux_eof
  <2> QED BY <2>1, <2>2, <2>3, <2>4 DEF Own
<1> QED BY <1>1, <1>2, <1>3, <1>4, <1>5, <1>6, <1>7 DEF ThreadNext

LEMMA OthersSame ==
  ASSUME Types, HistoryOK, NEW u \in Threads, ThreadNext(u) \/ task_fails(u)
  PROVE  /\ \A t \in Threads \ {u} : SameGiver(t)
         /\ \A t \in Demuxers \ {u} : nb_read'[t] = nb_read[t]
         /\ \A c \in Consumers \ {u} : SameTaker(c)
         /\ \A m \in Muxes \ {u} : muxed'[m] = muxed[m]
<1>1. /\ Own(held, held', u) /\ Own(eof_in, eof_in', u) /\ Own(nb_read, nb_read', u)
      /\ Own(recv_finished, recv_finished', u) /\ Own(muxed, muxed', u)
  BY Footprint
<1>2. /\ DOMAIN held = Codecs /\ DOMAIN eof_in = Filters /\ DOMAIN nb_read = Demuxers
      /\ DOMAIN recv_finished = Consumers /\ DOMAIN muxed = Muxes
  BY DEF Types, DataOK, FlagsOK, HistoryOK
<1>3. \A t \in Codecs \ {u} : held'[t] = held[t]
  BY <1>1, <1>2, OwnElse
<1>4. \A t \in Filters \ {u} : eof_in'[t] = eof_in[t]
  BY <1>1, <1>2, OwnElse
<1>5. \A t \in Demuxers \ {u} : nb_read'[t] = nb_read[t]
  BY <1>1, <1>2, OwnElse
<1>6. \A t \in Consumers \ {u} : recv_finished'[t] = recv_finished[t]
  BY <1>1, <1>2, OwnElse
<1>7. \A t \in Muxes \ {u} : muxed'[t] = muxed[t]
  BY <1>1, <1>2, OwnElse
<1>8. \A t \in Threads \ {u} : SameAt(t)
  BY OnlySelf
<1>9. \A t \in Threads \ {u} : SameGiver(t)
  BY <1>3, <1>4, <1>8 DEF SameGiver
<1>10. \A c \in Consumers \ {u} : SameTaker(c)
  BY <1>4, <1>6, <1>8, KindsOf DEF SameTaker, SameAt
<1> QED BY <1>5, <1>7, <1>9, <1>10

(* What a thread does to a queue that it does not take from.               *)
LEMMA QueueFoot ==
  ASSUME Types, NEW u \in Threads, ThreadNext(u) \/ task_fails(u)
  PROVE  \/ \E v : queue' = Set(queue, u, v) /\ ~Send(u) /\ u \in Consumers
         \/ queue' = queue
         \/ /\ Send(u) /\ todo[u] # <<>>
            /\ \E c, p, i : Head(todo[u]).dst = <<c, p>> /\ Head(todo[u]).item = i /\ SendItem(c, p, i)
         \/ u \in Demuxers /\ demux_flush(u)
<1>1. CASE Send(u)
  <2> DEFINE h == Head(todo[u])
  <2>1. todo[u] # <<>> /\ h.dst = <<h.dst[1], h.dst[2]>>
    BY <1>1, SendHead DEF Send
  <2>2. queue' = queue \/ SendItem(h.dst[1], h.dst[2], h.item)
    BY <1>1 DEF Send, SendClose, SendNothing, queueVars
  <2> QED BY <1>1, <2>1, <2>2
<1>2. CASE ~Send(u) /\ (task_cleanup(u) \/ task_fails(u))
  BY <1>2 DEF task_cleanup, task_fails, queueVars
<1>3. CASE ~Send(u) /\ u \in Consumers /\ tq_drop(u)
  BY <1>3 DEF tq_drop
<1>4. CASE ~Send(u) /\ u \in Demuxers /\ DemuxNext(u)
  BY <1>4 DEF DemuxNext, demux_read, demux_ends, demux_loop, demux_flush_eof, demux_end_ts, seek_to_start, queueVars
<1>5. CASE ~Send(u) /\ u \in Decs /\ DecNext(u)
  <2>1. u \in Consumers
    BY <1>5 DEF Consumers
  <2>2. queue' = queue \/ \E v : queue' = Set(queue, u, v)
    BY <1>5, TakesOwn DEF DecNext, dec_end_ts, dec_packet, dec_flush, dec_eof, dec_exit, queueVars
  <2> QED BY <1>5, <2>1, <2>2
<1>6. CASE ~Send(u) /\ u \in Filters /\ FilterNext(u)
  <2>1. u \in Consumers
    BY <1>6 DEF Consumers
  <2>2. queue' = queue \/ \E v : queue' = Set(queue, u, v)
    BY <1>6, TakesOwn DEF FilterNext, filter_frame, filter_receive_finish, filter_eof_frame, filter_stream_eof,
         filter_ends, queueVars
  <2> QED BY <1>6, <2>1, <2>2
<1>7. CASE ~Send(u) /\ u \in Encs /\ EncNext(u)
  <2>1. u \in Consumers
    BY <1>7 DEF Consumers
  <2>2. queue' = queue \/ \E v : queue' = Set(queue, u, v)
    BY <1>7, TakesOwn DEF EncNext, enc_frame, enc_finishes, enc_eof
  <2> QED BY <1>7, <2>1, <2>2
<1>8. CASE ~Send(u) /\ u \in Muxes /\ MuxNext(u)
  <2>1. u \in Consumers
    BY <1>8 DEF Consumers
  <2>2. queue' = queue \/ \E v : queue' = Set(queue, u, v)
    BY <1>8, TakesOwn DEF MuxNext, mux_packet, mux_receive_finish, mux_finishes, mux_eof
  <2> QED BY <1>8, <2>1, <2>2
<1> QED BY <1>1, <1>2, <1>3, <1>4, <1>5, <1>6, <1>7, <1>8 DEF ThreadNext

LEMMA SameQueueElse ==
  ASSUME Types, NEW u \in Threads, ThreadNext(u) \/ task_fails(u), NEW x \in Dsts,
         x \notin DstsFrom(u) \/ ~Send(u), x[1] # u \/ Send(u)
  PROVE  SameQueue(x)
<1>0. x[1] \in Consumers /\ x = <<x[1], x[2]>> /\ DOMAIN queue = Consumers
  BY DstsType DEF Types, QueueOK
<1>1. CASE \E v : queue' = Set(queue, u, v) /\ ~Send(u) /\ u \in Consumers
  <2>1. Own(queue, queue', u)
    BY <1>1 DEF Own
  <2> QED BY <1>0, <1>1, <2>1, OwnElse DEF SameQueue
<1>2. CASE queue' = queue
  BY <1>2 DEF SameQueue
<1>3. ASSUME Send(u), todo[u] # <<>>, NEW c, NEW p, NEW i,
             Head(todo[u]).dst = <<c, p>>, Head(todo[u]).item = i, SendItem(c, p, i)
      PROVE  SameQueue(x)
  <2>1. c \in Consumers /\ p \in Ports[c] /\ p \in Nat /\ i \in ItemType /\ <<c, p>> \in DstsFrom(u)
    BY <1>3, SendHead
  <2>2. queue' = [queue EXCEPT ![c] = Append(queue[c], [port |-> p, item |-> i])]
    BY <1>3 DEF SendItem
  <2>3. CASE x[1] = c
    <3>1. p # x[2]
      BY <1>0, <1>3, <2>1, <2>3
    <3>2. [port |-> p, item |-> i] \in Neutral(x)
      BY <2>1, <3>1 DEF Neutral, QueueData, EofEntries, Entry
    <3> QED BY <1>0, <2>2, <2>3, <3>2 DEF SameQueue
  <2>4. CASE x[1] # c
    BY <1>0, <2>2, <2>4, SMTT(20) DEF SameQueue
  <2> QED BY <2>3, <2>4
<1>4. CASE u \in Demuxers /\ demux_flush(u)
  <2> DEFINE c == Head(todo[u]).dst[1]
             p == Head(todo[u]).dst[2]
  <2>1. c \in Consumers /\ p \in Nat
    BY <1>4, SendHead, SMTT(20) DEF demux_flush
  <2>2. queue' = [queue EXCEPT ![c] = Append(queue[c], [port |-> p, item |-> Flush])]
    BY <1>4 DEF demux_flush
  <2>3. [port |-> p, item |-> Flush] \in Neutral(x)
    BY <2>1, ItemsType DEF Neutral, QueueData, EofEntries, Entry, Flush
  <2> QED BY <1>0, <2>2, <2>3, SMTT(20) DEF SameQueue
<1> QED BY <1>1, <1>2, <1>3, <1>4, QueueFoot

LEMMA SameEndElse ==
  ASSUME Types, NEW u \in Threads, ThreadNext(u) \/ task_fails(u), NEW x \in Dsts,
         x \notin DstsFrom(u) \/ ~(Send(u) \/ demux_flush_eof(u))
  PROVE  SameEnd(x)
<1>0. x[1] \in Consumers /\ x = <<x[1], x[2]>> /\ send_finished \in [Consumers -> SUBSET Nat]
  BY DstsType DEF Types, FlagsOK
<1>1. CASE ~(Send(u) \/ demux_flush_eof(u))
  <2>1. task_cleanup(u) \/ task_fails(u) \/ tq_drop(u) => UNCHANGED <<send_finished, dst_finished>>
    BY Zenon DEF task_cleanup, task_fails, tq_drop, queueVars
  <2>2. DemuxNext(u) => UNCHANGED <<send_finished, dst_finished>>
    BY <1>1, Zenon DEF DemuxNext, demux_read, demux_ends, demux_loop, demux_flush, demux_end_ts, seek_to_start, queueVars
  <2>3. DecNext(u) => UNCHANGED <<send_finished, dst_finished>>
    BY DEF DecNext, dec_end_ts, dec_packet, dec_flush, dec_eof, dec_exit, queueVars
  <2>4. FilterNext(u) => UNCHANGED <<send_finished, dst_finished>>
    BY DEF FilterNext, filter_frame, filter_receive_finish, filter_eof_frame, filter_stream_eof, filter_ends, queueVars
  <2>5. EncNext(u) \/ MuxNext(u) => UNCHANGED <<send_finished, dst_finished>>
    BY DEF EncNext, enc_frame, enc_finishes, enc_eof, MuxNext, mux_packet, mux_receive_finish, mux_finishes, mux_eof,
         MuxUnchanged
  <2> QED BY <1>1, <2>1, <2>2, <2>3, <2>4, <2>5 DEF ThreadNext, SameEnd
<1>2. CASE x \notin DstsFrom(u) /\ (Send(u) \/ demux_flush_eof(u))
  <2> DEFINE c == Head(todo[u]).dst[1]
             p == Head(todo[u]).dst[2]
  <2>1. todo[u] # <<>>
    BY <1>2 DEF Send, demux_flush_eof
  <2>2. c \in Consumers /\ p \in Nat /\ <<c, p>> # x
    BY <1>2, <2>1, SendHead
  <2>3. \/ UNCHANGED send_finished
        \/ send_finished' = [send_finished EXCEPT ![c] = @ \cup {p}]
    BY <1>2, Zenon DEF Send, SendClose, SendItem, SendNothing, demux_flush_eof, queueVars
  <2>4. dst_finished' = dst_finished \/ dst_finished' = dst_finished \cup {<<c, p>>}
    BY <1>2, Zenon DEF Send, SendClose, SendItem, SendNothing, demux_flush_eof, queueVars
  <2> QED BY <1>0, <2>2, <2>3, <2>4, SMTT(20) DEF SameEnd
<1> QED BY <1>1, <1>2

(* A step of u changes the flow where u sends and where it receives.       *)
LEMMA FlowSplit ==
  ASSUME Types, HistoryOK, OneWay, NEW u \in Threads, ThreadNext(u) \/ task_fails(u),
         NEW y \in MuxDsts, NEW n, FlowFor(y, n), NEW m, \A x \in Dsts : x[1] # u => m[x] = n[x],
         \A x \in OnWay(y) : \A s : From(u, s, x) => FlowAt(u, s, x, m)',
         \A x \in OnWay(y) : \A t, s : x[1] = u /\ From(t, s, x) => FlowAt(t, s, x, m)',
         y[1] = u => muxed'[y[1]][y[2]] = Upto(0, m[y])
  PROVE  FlowFor(y, m)'
<1>1. muxed'[y[1]][y[2]] = Upto(0, m[y])
  <2>1. y \in Dsts /\ y[1] \in Muxes
    BY DEF MuxDsts
  <2>2. y[1] # u => muxed'[y[1]] = muxed[y[1]] /\ m[y] = n[y]
    BY <2>1, OthersSame
  <2> QED BY <2>2 DEF FlowFor
<1>2. ASSUME NEW x \in OnWay(y), NEW t, NEW s, From(t, s, x) PROVE FlowAt(t, s, x, m)'
  <2>1. /\ t \in Producers /\ t \in Threads /\ s \in DOMAIN Outs[t] /\ x \in Dsts
        /\ x[1] \in Consumers /\ x[1] \in Threads
    BY <1>2, FromIs
  <2>2. FlowAt(t, s, x, n)
    BY <1>2, <2>1 DEF FlowFor
  <2>3. CASE t # u /\ x[1] # u
    <3>1. x \notin DstsFrom(u)
      BY <1>2, <2>3, FromOne
    <3>2. SameGiver(t) /\ SameTaker(x[1])
      BY <2>1, <2>3, OthersSame
    <3>3. SameEnd(x) /\ SameQueue(x)
      BY <2>1, <2>3, <3>1, SameEndElse, SameQueueElse
    <3>4. t \in Demuxers => nb_read'[t][s] = nb_read[t][s]
      BY <2>3, OthersSame
    <3>5. t \notin Demuxers => m[InOf(t)] = n[InOf(t)]
      <4>1. t \notin Demuxers => t \in Codecs
        BY <2>1 DEF Producers, Codecs
      <4> QED BY <2>3, <4>1, InOfIs
    <3>6. m[x] = n[x]
      BY <2>1, <2>3
    <3> QED BY <1>2, <2>2, <3>2, <3>3, <3>4, <3>5, <3>6, FlowOthers
  <2> QED BY <1>2, <2>3
<1> QED BY <1>1, <1>2 DEF FlowFor

(* Nothing that the flow sees of u.                                        *)
LEMMA FlowUnseen ==
  ASSUME Types, HistoryOK, OneWay, NEW u \in Threads, ThreadNext(u) \/ task_fails(u),
         NEW y \in MuxDsts, NEW n, FlowFor(y, n),
         u \notin Path(y) /\ u # y[1]
  PROVE  FlowFor(y, n)'
<1>1. \A x \in OnWay(y) : \A s : ~From(u, s, x)
  BY OnWayFrom
<1>2. \A x \in OnWay(y) : x[1] # u
  BY DEF OnWay
<1> QED BY <1>1, <1>2, FlowSplit

LEMMA UndisturbedBefore ==
  ASSUME NEW y, Undisturbed(y)', failed \subseteq failed', ended \subseteq ended'
  PROVE  Undisturbed(y)
BY DEF Undisturbed, Disturbed

(* u sends: the next item.                                                 *)
LEMMA TodoHead ==
  ASSUME Types, NEW t \in Threads, NEW x, todo[t] # <<>>, todo'[t] = Tail(todo[t])
  PROVE  /\ InTodo(t, x) = NumOf(Head(todo[t]), TodoData(x)) \o InTodo(t, x)'
         /\ InTodo(t, x)' \in Seq(Nat)
         /\ \A i \in DOMAIN todo'[t] : i + 1 \in DOMAIN todo[t] /\ todo'[t][i] = todo[t][i + 1]
         /\ 1 \in DOMAIN todo[t] /\ Head(todo[t]) = todo[t][1]
         /\ \A i \in DOMAIN todo[t] : i # 1 =>
              i - 1 \in DOMAIN todo'[t] /\ i - 1 \in Nat /\ todo[t][i] = todo'[t][i - 1]
<1>1. PICK q \in Seq(Errand) : q = todo[t]
  BY DEF Types, TodoOK
<1>2. Tail(q) \in Seq(Errand) /\ Len(Tail(q)) = Len(q) - 1 /\ Head(q) = q[1] /\ Len(q) \in Nat \ {0}
      /\ \A i \in 1 .. Len(q) - 1 : Tail(q)[i] = q[i + 1]
  BY <1>1
<1>3. PICK r \in Seq(Errand) : r = Tail(q)
  BY <1>2
<1>4. todo'[t] = r
  BY <1>1, <1>3
<1>5. Picked(q, TodoData(x)) = NumOf(Head(q), TodoData(x)) \o Picked(r, TodoData(x)) /\ Picked(r, TodoData(x)) \in Seq(Nat)
  BY <1>1, <1>3, DataNumbered, PickedHead, PickedType
<1>6. InTodo(t, x) = Picked(q, TodoData(x)) /\ InTodo(t, x)' = Picked(r, TodoData(x))
  BY <1>1, <1>4 DEF InTodo
<1>7. DOMAIN q = 1 .. Len(q) /\ DOMAIN r = 1 .. Len(q) - 1 /\ \A i \in 1 .. Len(q) - 1 : r[i] = q[i + 1]
  BY <1>2, <1>3
<1>8. \A i \in 1 .. Len(q) - 1 : i + 1 \in 1 .. Len(q)
  BY <1>2
<1>9. \A i \in 1 .. Len(q) : i # 1 => i - 1 \in 1 .. Len(q) - 1 /\ i - 1 \in Nat /\ (i - 1) + 1 = i
  BY <1>2
<1>10. 1 \in 1 .. Len(q)
  BY <1>2
<1>11. \A i \in DOMAIN r : i + 1 \in DOMAIN q /\ r[i] = q[i + 1]
  BY <1>7, <1>8
<1>12. \A i \in DOMAIN q : i # 1 => i - 1 \in DOMAIN r /\ i - 1 \in Nat /\ q[i] = r[i - 1]
  BY <1>7, <1>9
<1> QED BY <1>1, <1>2, <1>4, <1>5, <1>6, <1>7, <1>10, <1>11, <1>12, Zenon

LEMMA SendSame ==
  ASSUME Types, NEW u \in Threads, Send(u), NEW n, NEW x, NEW s
  PROVE  /\ todo[u] # <<>> /\ todo'[u] = Tail(todo[u]) /\ pc'[u] = pc[u] /\ pc[u] \notin {"flushing", "waiting"}
         /\ (Over(u)' <=> Over(u)) /\ Held(u)' = Held(u) /\ Whole(u, s, n)' = Whole(u, s, n)
         /\ Over(x)' <=> Over(x)
         /\ recv_finished' = recv_finished
<1>1. /\ todo[u] # <<>> /\ todo' = [todo EXCEPT ![u] = Tail(todo[u])] /\ pc[u] \notin {"flushing", "waiting"}
      /\ UNCHANGED <<pc, held, eof_in, nb_read>>
  BY DEF Send
<1>2. recv_finished' = recv_finished
  BY Zenon DEF Send, SendClose, SendItem, SendNothing, queueVars
<1>3. todo'[u] = Tail(todo[u])
  BY <1>1, TailType
<1> QED BY <1>1, <1>2, <1>3 DEF Over, Held, Whole

LEMMA SendLast ==
  ASSUME Types, NEW u \in Threads, Send(u), NEW x, LastToSend(u, x)
  PROVE  LastToSend(u, x)'
<1>1. /\ todo[u] # <<>> /\ todo'[u] = Tail(todo[u]) /\ pc'[u] = pc[u] /\ pc[u] \notin {"flushing", "waiting"}
      /\ (Over(u)' <=> Over(u)) /\ Held(u)' = Held(u)
  BY SendSame
<1>2. \A i \in DOMAIN todo'[u] : i + 1 \in DOMAIN todo[u] /\ todo'[u][i] = todo[u][i + 1] /\ i \in Nat
  <2>1. Tail(todo[u]) \in Seq(Errand)
    BY <1>1, SendHead
  <2>2. \A i \in DOMAIN todo'[u] : i \in Nat
    BY <1>1, <2>1
  <2> QED BY <1>1, <2>2, TodoHead
<1>3. ASSUME NEW i \in DOMAIN todo'[u], todo'[u][i].dst = x, todo'[u][i].item.kind \in {"close", "eof", "empty"}
      PROVE  /\ Over(u)' /\ (u \in Decs /\ todo'[u][i].item.kind = "close" => pc'[u] = "cleanup")
             /\ \A j \in DOMAIN todo'[u] : j > i => todo'[u][j] \notin TodoData(x)
  <2>1. i + 1 \in DOMAIN todo[u] /\ todo[u][i + 1] = todo'[u][i] /\ i \in Nat
    BY <1>2, <1>3
  <2>2. /\ Over(u) /\ (u \in Decs /\ todo[u][i + 1].item.kind = "close" => pc[u] = "cleanup")
        /\ \A j \in DOMAIN todo[u] : j > i + 1 => todo[u][j] \notin TodoData(x)
    BY <1>3, <2>1 DEF LastToSend
  <2>3. ASSUME NEW j \in DOMAIN todo'[u], j > i PROVE todo'[u][j] \notin TodoData(x)
    <3>1. j + 1 \in DOMAIN todo[u] /\ todo[u][j + 1] = todo'[u][j] /\ j + 1 > i + 1
      BY <1>2, <2>1, <2>3
    <3> QED BY <2>2, <3>1
  <2> QED BY <1>1, <2>1, <2>2, <2>3
<1> QED BY <1>1, <1>3 DEF LastToSend

(* What ends the stream is all that is left of it.                         *)
LEMMA LastSent ==
  ASSUME Types, NEW u \in Threads, NEW x, LastToSend(u, x), todo[u] # <<>>,
         Head(todo[u]).dst = x, Head(todo[u]).item.kind \in {"close", "eof", "empty"}
  PROVE  Over(u) /\ InTodo(u, x) = <<>> /\ (u \in Decs /\ Head(todo[u]).item.kind = "close" => pc[u] = "cleanup")
<1>1. PICK q \in Seq(Errand) : q = todo[u]
  BY DEF Types, TodoOK
<1>2. Head(q) = q[1] /\ DOMAIN q = 1 .. Len(q) /\ 1 \in DOMAIN q /\ \A j \in DOMAIN q : j = 1 \/ j > 1
  BY <1>1
<1>3. /\ Over(u) /\ (u \in Decs /\ q[1].item.kind = "close" => pc[u] = "cleanup")
      /\ \A j \in DOMAIN q : j > 1 => q[j] \notin TodoData(x)
  BY <1>1, <1>2 DEF LastToSend
<1>4. q[1] \notin TodoData(x)
  BY <1>1, <1>2 DEF TodoData
<1>5. Picked(q, TodoData(x)) = <<>>
  BY <1>2, <1>3, <1>4, DataNumbered, PickedNone
<1> QED BY <1>1, <1>2, <1>3, <1>5 DEF InTodo

LEMMA NotPicked ==
  ASSUME Types, NEW u \in Threads, NEW x, todo[u] # <<>>, todo'[u] = Tail(todo[u]), Head(todo[u]) \notin TodoData(x)
  PROVE  InTodo(u, x)' = InTodo(u, x)
<1>1. InTodo(u, x) = <<>> \o InTodo(u, x)' /\ InTodo(u, x)' \in Seq(Nat)
  BY TodoHead DEF NumOf
<1> QED BY <1>1, ConcatEmptySeq

LEMMA NoneLeft ==
  ASSUME Types, NEW u \in Threads, NEW x, todo[u] # <<>>, todo'[u] = Tail(todo[u]), InTodo(u, x) = <<>>
  PROVE  InTodo(u, x)' = <<>>
<1>1. InTodo(u, x) = NumOf(Head(todo[u]), TodoData(x)) \o InTodo(u, x)' /\ InTodo(u, x)' \in Seq(Nat)
  BY TodoHead
<1>2. PICK r \in Seq(Nat) : r = InTodo(u, x)'
  BY <1>1, Zenon
<1>3. PICK h \in Seq(Nat) : h = NumOf(Head(todo[u]), TodoData(x))
  <2>1. NumOf(Head(todo[u]), TodoData(x)) \in Seq(Nat)
    BY DataNumbered DEF NumOf, Numbered
  <2> QED BY <2>1, Zenon
<1>4. h \o r = <<>>
  BY <1>1, <1>2, <1>3, Zenon
<1>5. Len(h \o r) = Len(h) + Len(r) /\ Len(h) \in Nat /\ Len(r) \in Nat
  OBVIOUS
<1>6. Len(r) = 0
  BY <1>4, <1>5
<1>7. r = <<>>
  BY <1>6
<1> QED BY <1>2, <1>7

(* Nothing for x is sent, or nothing that the taker sees.                  *)
LEMMA SendNeutral ==
  ASSUME Types, NEW u \in Threads, Send(u), NEW s, NEW x, From(u, s, x), NEW n, FlowAt(u, s, x, n),
         SameEnd(x), SameQueue(x), InTodo(u, x)' = InTodo(u, x),
         x[1] \in Filters /\ EofToSend(u, x) => EofToSend(u, x)' \/ Over(x[1]) \/ EofQueued(x)
  PROVE  FlowAt(u, s, x, n)'
<1>1. /\ pc'[u] = pc[u] /\ (Over(u)' <=> Over(u)) /\ Held(u)' = Held(u) /\ Whole(u, s, n)' = Whole(u, s, n)
      /\ (Over(x[1])' <=> Over(x[1])) /\ recv_finished' = recv_finished
  BY SendSame
<1>2. /\ InQueue(x)' = InQueue(x) /\ (EofQueued(x)' <=> EofQueued(x))
      /\ NoDataAfterEof(x) => NoDataAfterEof(x)'
  BY FromIs, SameQueueIs
<1>3. Flows(u, s, x, n)'
  BY <1>1, <1>2 DEF FlowAt, Flows, Coming
<1>4. LastToSend(u, x)'
  BY SendLast DEF FlowAt
<1>5. ClosedWhenOver(u, x)'
  BY <1>1, <1>2 DEF FlowAt, ClosedWhenOver, Drained, SameEnd
<1>6. x[1] \in Filters => EofFirst(u, x)'
  BY <1>1, <1>2 DEF FlowAt, EofFirst, SameEnd
<1> QED BY <1>3, <1>4, <1>5, <1>6 DEF FlowAt

(* The stream is closed.                                                   *)
LEMMA SendCloses ==
  ASSUME Types, OneWay, NEW u \in Threads, Send(u), NEW s, NEW x, From(u, s, x), NEW n, FlowAt(u, s, x, n),
         Head(todo[u]).dst = x, SendClose(x[1], x[2], Head(todo[u]).item)
  PROVE  FlowAt(u, s, x, n)'
<1>1. /\ todo[u] # <<>> /\ todo'[u] = Tail(todo[u])
      /\ pc'[u] = pc[u] /\ (Over(u)' <=> Over(u)) /\ Held(u)' = Held(u) /\ Whole(u, s, n)' = Whole(u, s, n)
      /\ (Over(x[1])' <=> Over(x[1])) /\ recv_finished' = recv_finished
  BY SendSame
<1>2. x[1] \in Consumers /\ x = <<x[1], x[2]>>
  BY FromIs
<1>3. queue' = queue /\ x \in dst_finished'
  BY <1>2 DEF SendClose
<1>4. Head(todo[u]).item.kind = "close" \/ x[2] \in recv_finished[x[1]]
  BY DEF SendClose, Close
<1>5. Over(u) /\ InTodo(u, x) = <<>>
  <2>1. CASE Head(todo[u]).item.kind = "close"
    BY <1>1, <2>1, LastSent DEF FlowAt
  <2>2. CASE x[2] \in recv_finished[x[1]]
    BY <2>2 DEF FlowAt, ClosedWhenOver, Drained
  <2> QED BY <1>4, <2>1, <2>2
<1>6. InTodo(u, x)' = <<>>
  BY <1>1, <1>5, NoneLeft
<1>7. /\ InQueue(x)' = InQueue(x) /\ (EofQueued(x)' <=> EofQueued(x)) /\ (NoDataAfterEof(x)' <=> NoDataAfterEof(x))
  BY <1>3 DEF InQueue, EofQueued, NoDataAfterEof
<1>8. Flows(u, s, x, n)'
  BY <1>1, <1>5, <1>6, <1>7 DEF FlowAt, Flows, Coming
<1>9. LastToSend(u, x)'
  BY SendLast DEF FlowAt
<1>10. ClosedWhenOver(u, x)'
  BY <1>1, <1>3, <1>5, <1>6, <1>7 DEF FlowAt, ClosedWhenOver, Drained
<1>11. ASSUME x[1] \in Filters PROVE EofFirst(u, x)'
  <2>1. u \in Decs /\ EofFirst(u, x) /\ LastToSend(u, x)
    BY <1>11, NotToItself DEF FlowAt
  <2>2. Over(x[1]) \/ pc[u] = "cleanup"
    <3>1. CASE Head(todo[u]).item.kind = "close"
      BY <1>1, <2>1, <3>1, LastSent
    <3>2. CASE x[2] \in recv_finished[x[1]]
      BY <2>1, <3>2 DEF EofFirst
    <3> QED BY <1>4, <3>1, <3>2
  <2> QED BY <1>1, <1>3, <1>5, <1>6, <1>7, <2>1, <2>2 DEF EofFirst
<1> QED BY <1>8, <1>9, <1>10, <1>11 DEF FlowAt

LEMMA Entered ==
  ASSUME Types, NEW x \in Dsts, NEW e \in Entry, queue'[x[1]] = Append(queue[x[1]], e)
  PROVE  /\ InQueue(x)' = InQueue(x) \o NumOf(e, QueueData(x[2])) /\ InQueue(x) \in Seq(Nat)
         /\ EofQueued(x)' <=> EofQueued(x) \/ e \in EofEntries(x[2])
         /\ NoDataAfterEof(x) /\ (EofQueued(x) => e \notin QueueData(x[2])) => NoDataAfterEof(x)'
<1>1. PICK q \in Seq(Entry) : q = queue[x[1]]
  BY DstsType DEF Types, QueueOK
<1>2. PICK r : r = Append(q, e)
  OBVIOUS
<1>3. /\ DOMAIN q = 1 .. Len(q) /\ DOMAIN r = 1 .. Len(q) + 1 /\ Len(q) \in Nat
      /\ r[Len(q) + 1] = e /\ \A i \in 1 .. Len(q) : r[i] = q[i]
      /\ \A i \in 1 .. Len(q) + 1 : i \in 1 .. Len(q) \/ i = Len(q) + 1
  BY <1>2, AppendAt
<1>4. queue[x[1]] = q /\ queue'[x[1]] = r
  BY <1>1, <1>2
<1>5. InQueue(x)' = InQueue(x) \o NumOf(e, QueueData(x[2])) /\ InQueue(x) \in Seq(Nat)
  <2>1. Picked(r, QueueData(x[2])) = Picked(q, QueueData(x[2])) \o NumOf(e, QueueData(x[2]))
    BY <1>2, DataNumbered, PickedAppend
  <2>2. Picked(q, QueueData(x[2])) \in Seq(Nat)
    BY DataNumbered, PickedType
  <2> QED BY <1>4, <2>1, <2>2, Zenon DEF InQueue
<1>6. EofQueued(x) <=> \E i \in 1 .. Len(q) : q[i] \in EofEntries(x[2])
  BY <1>3, <1>4 DEF EofQueued
<1>7. EofQueued(x)' <=> EofQueued(x) \/ e \in EofEntries(x[2])
  <2>1. EofQueued(x)' <=> \E i \in 1 .. Len(q) + 1 : r[i] \in EofEntries(x[2])
    BY <1>3, <1>4 DEF EofQueued
  <2>2. 1 .. Len(q) \subseteq 1 .. Len(q) + 1 /\ Len(q) + 1 \in 1 .. Len(q) + 1
    BY <1>3
  <2> QED BY <1>3, <1>6, <2>1, <2>2
<1>8. ASSUME NoDataAfterEof(x), EofQueued(x) => e \notin QueueData(x[2]) PROVE NoDataAfterEof(x)'
  <2>1. \A i, j \in 1 .. Len(q) : j > i /\ q[i] \in EofEntries(x[2]) => q[j] \notin QueueData(x[2])
    BY <1>3, <1>4, <1>8 DEF NoDataAfterEof
  <2>2. ASSUME NEW i \in 1 .. Len(q) + 1, NEW j \in 1 .. Len(q) + 1, j > i, r[i] \in EofEntries(x[2])
        PROVE  r[j] \notin QueueData(x[2])
    <3>1. i \in 1 .. Len(q) /\ r[i] = q[i] /\ q[i] \in EofEntries(x[2])
      BY <1>3, <2>2
    <3>2. CASE j \in 1 .. Len(q)
      BY <1>3, <2>1, <2>2, <3>1, <3>2
    <3>3. CASE j = Len(q) + 1
      BY <1>3, <1>6, <1>8, <3>1, <3>3
    <3> QED BY <1>3, <3>2, <3>3
  <2> QED BY <1>3, <1>4, <2>2 DEF NoDataAfterEof
<1> QED BY <1>5, <1>7, <1>8

(* A frame or packet.                                                      *)
LEMMA SendData ==
  ASSUME Types, OneWay, NEW u \in Threads, Send(u), NEW s, NEW x, From(u, s, x), NEW n \in [Dsts -> Nat],
         FlowAt(u, s, x, n), Head(todo[u]).dst = x, Head(todo[u]).item.kind = "data", x \notin dst_finished,
         SendItem(x[1], x[2], Head(todo[u]).item)
  PROVE  FlowAt(u, s, x, n)'
<1> DEFINE h == Head(todo[u])
           k == h.item.num
           e == [port |-> x[2], item |-> h.item]
<1>1. /\ todo[u] # <<>> /\ todo'[u] = Tail(todo[u])
      /\ pc'[u] = pc[u] /\ (Over(u)' <=> Over(u)) /\ Held(u)' = Held(u) /\ Whole(u, s, n)' = Whole(u, s, n)
      /\ (Over(x[1])' <=> Over(x[1])) /\ recv_finished' = recv_finished
  BY SendSame
<1>2. x \in Dsts /\ x[1] \in Consumers /\ x = <<x[1], x[2]>> /\ x[2] \in Nat
  BY FromIs, DstsType
<1>3. h \in Errand /\ h.item \in ItemType /\ k \in Nat
  BY <1>1, SendHead DEF ItemType
<1>4. e \in Entry /\ e \in QueueData(x[2]) /\ e \notin EofEntries(x[2]) /\ h \in TodoData(x)
  BY <1>2, <1>3 DEF Entry, QueueData, EofEntries, TodoData, Errand, ItemType
<1>5. queue' = [queue EXCEPT ![x[1]] = Append(queue[x[1]], e)] /\ UNCHANGED <<send_finished, dst_finished>>
  BY DEF SendItem
<1>6. queue'[x[1]] = Append(queue[x[1]], e)
  BY <1>2, <1>5 DEF Types, QueueOK
<1>7. /\ InQueue(x)' = InQueue(x) \o <<k>> /\ InQueue(x) \in Seq(Nat)
      /\ EofQueued(x)' <=> EofQueued(x)
      /\ NoDataAfterEof(x) /\ ~EofQueued(x) => NoDataAfterEof(x)'
  <2>1. NumOf(e, QueueData(x[2])) = <<k>>
    BY <1>4 DEF NumOf
  <2> HIDE DEF e, k, h
  <2> QED BY <1>2, <1>4, <1>6, <2>1, Entered
<1>8. InTodo(u, x) = <<k>> \o InTodo(u, x)' /\ InTodo(u, x)' \in Seq(Nat)
  <2>1. NumOf(h, TodoData(x)) = <<k>>
    BY <1>4 DEF NumOf
  <2> QED BY <1>1, <2>1, TodoHead
<1>9. InTodo(u, x) # <<>>
  <2>1. \A q \in Seq(Nat) : <<k>> \o q # <<>>
    <3> SUFFICES ASSUME NEW q \in Seq(Nat) PROVE <<k>> \o q # <<>>
      OBVIOUS
    <3>1. Len(<<k>> \o q) = 1 + Len(q) /\ Len(q) \in Nat
      BY <1>3
    <3> QED BY <3>1
  <2> QED BY <1>8, <2>1, Zenon
<1>10. InQueue(x)' \o Coming(u, x)' = InQueue(x) \o Coming(u, x)
  <2>1. Held(u) \in Seq(Nat)
    BY FlowTypes
  <2>2. <<k>> \in Seq(Nat)
    BY <1>3
  <2>3. Coming(u, x) = <<k>> \o Coming(u, x)' /\ Coming(u, x)' \in Seq(Nat)
    <3>1. (<<k>> \o InTodo(u, x)') \o Held(u) = <<k>> \o (InTodo(u, x)' \o Held(u))
      BY <1>8, <2>1, <2>2, NumbersJoin
    <3>2. InTodo(u, x)' \o Held(u) \in Seq(Nat)
      BY <1>8, <2>1
    <3> HIDE DEF k, h
    <3> QED BY <1>1, <1>8, <3>1, <3>2, Zenon DEF Coming
  <2>4. (InQueue(x) \o <<k>>) \o Coming(u, x)' = InQueue(x) \o (<<k>> \o Coming(u, x)')
    BY <1>7, <2>2, <2>3, NumbersJoin
  <2> HIDE DEF k, h
  <2> QED BY <1>7, <2>3, <2>4, Zenon
<1>11. Flows(u, s, x, n)'
  BY <1>1, <1>10, Zenon DEF FlowAt, Flows
<1>12. LastToSend(u, x)'
  BY SendLast DEF FlowAt
<1>13. ClosedWhenOver(u, x)'
  BY <1>1, <1>5, <1>9 DEF FlowAt, ClosedWhenOver, Drained
<1>14. ASSUME x[1] \in Filters PROVE EofFirst(u, x)'
  <2>1. EofFirst(u, x)
    BY <1>14 DEF FlowAt
  <2>2. ~EofQueued(x)
    BY <1>9, <2>1 DEF EofFirst
  <2>3. EofToSend(u, x) => EofToSend(u, x)'
    <3>1. \A i \in DOMAIN todo[u] : i = 1 \/ (i - 1 \in DOMAIN todo'[u] /\ todo[u][i] = todo'[u][i - 1])
      BY <1>1, TodoHead
    <3>2. todo[u][1].item.kind # "eof"
      BY <1>1, TodoHead
    <3> QED BY <3>1, <3>2 DEF EofToSend
  <2> QED BY <1>1, <1>5, <1>7, <1>9, <2>1, <2>2, <2>3 DEF EofFirst
<1> QED BY <1>11, <1>12, <1>13, <1>14 DEF FlowAt

(* The EOF frame, or an empty one.                                         *)
LEMMA SendEof ==
  ASSUME Types, OneWay, NEW u \in Threads, Send(u), NEW s, NEW x, From(u, s, x), NEW n \in [Dsts -> Nat],
         FlowAt(u, s, x, n), Head(todo[u]).dst = x, Head(todo[u]).item.kind \in {"eof", "empty"},
         SendItem(x[1], x[2], Head(todo[u]).item)
  PROVE  FlowAt(u, s, x, n)'
<1> DEFINE h == Head(todo[u])
           e == [port |-> x[2], item |-> h.item]
<1>1. /\ todo[u] # <<>> /\ todo'[u] = Tail(todo[u])
      /\ pc'[u] = pc[u] /\ (Over(u)' <=> Over(u)) /\ Held(u)' = Held(u) /\ Whole(u, s, n)' = Whole(u, s, n)
      /\ (Over(x[1])' <=> Over(x[1])) /\ recv_finished' = recv_finished
  BY SendSame
<1>2. x \in Dsts /\ x[1] \in Consumers /\ x = <<x[1], x[2]>> /\ x[2] \in Nat
  BY FromIs, DstsType
<1>3. h \in Errand /\ h.item \in ItemType
  BY <1>1, SendHead
<1>4. e \in Entry /\ e \notin QueueData(x[2]) /\ e \in EofEntries(x[2])
  BY <1>2, <1>3 DEF Entry, QueueData, EofEntries, ItemType
<1>5. queue' = [queue EXCEPT ![x[1]] = Append(queue[x[1]], e)] /\ UNCHANGED <<send_finished, dst_finished>>
  BY DEF SendItem
<1>6. queue'[x[1]] = Append(queue[x[1]], e)
  BY <1>2, <1>5 DEF Types, QueueOK
<1>7. InQueue(x)' = InQueue(x) /\ EofQueued(x)' /\ (NoDataAfterEof(x) => NoDataAfterEof(x)')
  <2>1. NumOf(e, QueueData(x[2])) = <<>>
    BY <1>4 DEF NumOf
  <2>2. /\ InQueue(x)' = InQueue(x) \o <<>> /\ InQueue(x) \in Seq(Nat)
        /\ EofQueued(x)' /\ (NoDataAfterEof(x) => NoDataAfterEof(x)')
    <3> HIDE DEF e
    <3> QED BY <1>2, <1>4, <1>6, <2>1, Entered
  <2> QED BY <2>2, ConcatEmptySeq
<1>8. Over(u) /\ InTodo(u, x) = <<>>
  BY <1>1, LastSent DEF FlowAt
<1>9. InTodo(u, x)' = <<>>
  BY <1>1, <1>8, NoneLeft
<1>10. Flows(u, s, x, n)'
  BY <1>1, <1>7, <1>8, <1>9 DEF FlowAt, Flows, Coming
<1>11. LastToSend(u, x)'
  BY SendLast DEF FlowAt
<1>12. ClosedWhenOver(u, x)'
  BY <1>1, <1>5, <1>7, <1>8, <1>9 DEF FlowAt, ClosedWhenOver, Drained
<1>13. ASSUME x[1] \in Filters PROVE EofFirst(u, x)'
  BY <1>1, <1>5, <1>7, <1>8, <1>9, <1>13 DEF FlowAt, EofFirst
<1> QED BY <1>10, <1>11, <1>12, <1>13 DEF FlowAt

LEMMA SendGiver ==
  ASSUME Types, OneWay, NEW u \in Threads, Send(u), NEW s, NEW x, From(u, s, x), NEW n \in [Dsts -> Nat],
         FlowAt(u, s, x, n)
  PROVE  FlowAt(u, s, x, n)'
<1> DEFINE h == Head(todo[u])
<1>1. todo[u] # <<>> /\ todo'[u] = Tail(todo[u])
  BY SendSame
<1>2. h.dst[1] \in Consumers /\ h.dst[2] \in Nat /\ h.dst = <<h.dst[1], h.dst[2]>> /\ h.item \in ItemType
  BY <1>1, SendHead
<1>3. x \in Dsts /\ x[1] \in Consumers /\ x = <<x[1], x[2]>> /\ x[2] \in Nat
  BY FromIs, DstsType
<1>4. \/ h.dst \in dst_finished /\ UNCHANGED queueVars
      \/ h.dst \notin dst_finished /\ SendClose(h.dst[1], h.dst[2], h.item)
      \/ h.dst \notin dst_finished /\ SendItem(h.dst[1], h.dst[2], h.item)
      \/ h.item.kind = "empty" /\ UNCHANGED queueVars
  <2>1. \/ (<<h.dst[1], h.dst[2]>> \in dst_finished \/ NotNeeded(u, h.item)) /\ UNCHANGED queueVars
        \/ /\ <<h.dst[1], h.dst[2]>> \notin dst_finished
           /\ \/ SendClose(h.dst[1], h.dst[2], h.item) \/ SendItem(h.dst[1], h.dst[2], h.item)
              \/ SendNothing(h.dst[1], h.item)
    BY DEF Send
  <2>2. /\ SendNothing(h.dst[1], h.item) => h.item.kind = "empty" /\ UNCHANGED queueVars
        /\ NotNeeded(u, h.item) => h.item.kind = "empty"
    BY DEF SendNothing, NotNeeded, Discarded, Empty
  <2> HIDE DEF h
  <2> QED BY <1>2, <2>1, <2>2
<1>5. EofToSend(u, x) => EofToSend(u, x)' \/ (h.dst = x /\ h.item.kind = "eof")
  <2>1. \A i \in DOMAIN todo[u] : i = 1 \/ (i - 1 \in DOMAIN todo'[u] /\ todo[u][i] = todo'[u][i - 1])
    BY <1>1, TodoHead
  <2>2. todo[u][1] = h
    BY <1>1, TodoHead
  <2> QED BY <2>1, <2>2 DEF EofToSend
<1>6. UNCHANGED queueVars => SameEnd(x) /\ SameQueue(x)
  BY DEF SameEnd, SameQueue, queueVars
<1>7. h \notin TodoData(x) => InTodo(u, x)' = InTodo(u, x)
  BY <1>1, NotPicked
<1>8. CASE h.dst # x
  <2>1. h \notin TodoData(x)
    BY <1>8 DEF TodoData
  <2>2. SameEnd(x)
    <3>1. CASE SendClose(h.dst[1], h.dst[2], h.item)
      <4>1. /\ send_finished' = [send_finished EXCEPT ![h.dst[1]] = @ \cup {h.dst[2]}]
            /\ dst_finished' = dst_finished \cup {h.dst} /\ send_finished \in [Consumers -> SUBSET Nat]
        BY <1>2, <3>1 DEF SendClose, Types, FlagsOK
      <4>2. h.dst[1] # x[1] \/ h.dst[2] # x[2]
        BY <1>2, <1>3, <1>8
      <4> HIDE DEF h
      <4> QED BY <1>2, <1>3, <1>8, <4>1, <4>2 DEF SameEnd
    <3>2. CASE SendItem(h.dst[1], h.dst[2], h.item)
      BY <3>2, SMTT(20) DEF SendItem, SameEnd
    <3> QED BY <1>4, <1>6, <3>1, <3>2
  <2>3. SameQueue(x)
    <3>1. CASE SendItem(h.dst[1], h.dst[2], h.item)
      <4> DEFINE e == [port |-> h.dst[2], item |-> h.item]
      <4>1. queue' = [queue EXCEPT ![h.dst[1]] = Append(queue[h.dst[1]], e)]
        BY <3>1 DEF SendItem
      <4>2. CASE h.dst[1] = x[1]
        <5>1. e \in Neutral(x)
          BY <1>2, <1>3, <1>8, <4>2 DEF Neutral, Entry, QueueData, EofEntries
        <5>2. queue'[x[1]] = Append(queue[x[1]], e)
          BY <1>3, <4>1, <4>2 DEF Types, QueueOK
        <5> QED BY <5>1, <5>2 DEF SameQueue
      <4>3. CASE h.dst[1] # x[1]
        BY <1>3, <4>1, <4>3 DEF SameQueue, Types, QueueOK
      <4> QED BY <4>2, <4>3, SMTT(20)
    <3>2. CASE SendClose(h.dst[1], h.dst[2], h.item)
      BY <3>2 DEF SendClose, SameQueue
    <3> QED BY <1>4, <1>6, <3>1, <3>2
  <2> QED BY <1>5, <1>7, <1>8, <2>1, <2>2, <2>3, SendNeutral
<1>9. CASE h.dst = x
  <2>1. CASE x \in dst_finished
    <3>1. UNCHANGED queueVars \/ h.item.kind = "empty"
      BY <1>4, <1>9, <2>1
    <3>2. UNCHANGED queueVars
      BY <1>4, <1>9, <2>1
    <3>3. InTodo(u, x) = <<>> /\ (x[1] \in Filters => Over(x[1]) \/ EofQueued(x))
      BY <2>1 DEF FlowAt, ClosedWhenOver, EofFirst
    <3>4. InTodo(u, x)' = InTodo(u, x)
      BY <1>1, <3>3, NoneLeft
    <3> QED BY <1>6, <3>2, <3>3, <3>4, SendNeutral
  <2>2. CASE x \notin dst_finished /\ SendClose(x[1], x[2], h.item)
    BY <1>9, <2>2, SendCloses
  <2>3. CASE x \notin dst_finished /\ SendItem(x[1], x[2], h.item)
    <3>1. CASE h.item.kind = "data"
      BY <1>9, <2>3, <3>1, SendData
    <3>2. CASE h.item.kind \in {"eof", "empty"}
      BY <1>9, <2>3, <3>2, SendEof
    <3>3. CASE h.item.kind \notin {"data", "eof", "empty"}
      <4>1. h \notin TodoData(x)
        BY <3>3 DEF TodoData
      <4>2. SameEnd(x)
        BY <2>3 DEF SendItem, SameEnd
      <4>3. [port |-> x[2], item |-> h.item] \in Neutral(x)
        BY <1>2, <1>3, <3>3 DEF Neutral, Entry, QueueData, EofEntries
      <4>4. queue'[x[1]] = Append(queue[x[1]], [port |-> x[2], item |-> h.item])
        BY <1>3, <2>3 DEF SendItem, Types, QueueOK
      <4>5. SameQueue(x)
        BY <4>3, <4>4 DEF SameQueue
      <4> QED BY <1>5, <1>7, <3>3, <4>1, <4>2, <4>5, SendNeutral
    <3> QED BY <3>1, <3>2, <3>3
  <2>4. CASE h.item.kind = "empty" /\ UNCHANGED queueVars
    <3>1. h \notin TodoData(x)
      BY <2>4 DEF TodoData
    <3> QED BY <1>5, <1>6, <1>7, <2>4, <3>1, SendNeutral
  <2> QED BY <1>4, <1>9, <2>1, <2>2, <2>3, <2>4
<1> QED BY <1>8, <1>9

FlowsFrom(y, u, m) == \A x \in OnWay(y) : \A s : From(u, s, x) => FlowAt(u, s, x, m)
FlowsInto(y, u, m) == \A x \in OnWay(y) : \A t, s : x[1] = u /\ From(t, s, x) => FlowAt(t, s, x, m)

LEMMA FlowForIs ==
  ASSUME NEW y, NEW n, FlowFor(y, n), NEW x \in OnWay(y), NEW t, NEW s, From(t, s, x)
  PROVE  FlowAt(t, s, x, n)
BY FromIs DEF FlowFor

LEMMA FlowSend ==
  ASSUME Types, HistoryOK, OneWay, NEW u \in Threads, Send(u),
         NEW y \in MuxDsts, NEW n \in [Dsts -> Nat], FlowFor(y, n)
  PROVE  FlowFor(y, n)'
<1>1. ThreadNext(u)
  BY DEF ThreadNext
<1>2. FlowsFrom(y, u, n)'
  BY FlowForIs, SendGiver DEF FlowsFrom
<1>3. FlowsInto(y, u, n)'
  <2> SUFFICES ASSUME NEW x \in OnWay(y), NEW t, NEW s, x[1] = u, From(t, s, x) PROVE FlowAt(t, s, x, n)'
    BY DEF FlowsInto
  <2>1. t # u /\ t \in Threads /\ x \in Dsts /\ s \in DOMAIN Outs[t]
    BY FromIs, NotToItself
  <2>2. x \notin DstsFrom(u)
    BY <2>1, FromOne
  <2>3. SameEnd(x) /\ SameQueue(x)
    BY <1>1, <2>1, <2>2, SameEndElse, SameQueueElse
  <2>4. SameGiver(t) /\ (t \in Demuxers => nb_read'[t][s] = nb_read[t][s])
    BY <1>1, <2>1, OthersSame
  <2>5. SameTaker(x[1])
    BY Zenon DEF SameTaker, Send, SendClose, SendItem, SendNothing, queueVars
  <2> QED BY <2>3, <2>4, <2>5, FlowForIs, FlowOthers
<1>4. y[1] # u
  <2>1. u \in Producers
    BY SendHead DEF Send
  <2> QED BY <2>1, Kinds DEF MuxDsts, Producers, Consumers
<1> QED BY <1>1, <1>2, <1>3, <1>4, FlowSplit DEF FlowsFrom, FlowsInto

(* What a thread leaves alone where it sends to, and where it receives     *)
(* from, when it does not send.                                            *)
LEMMA GiverSame ==
  ASSUME Types, HistoryOK, OneWay, NEW u \in Threads, ThreadNext(u) \/ task_fails(u), ~Send(u), ~demux_flush_eof(u),
         NEW s, NEW x, From(u, s, x)
  PROVE  SameTaker(x[1]) /\ SameEnd(x) /\ SameQueue(x)
<1>1. x[1] # u /\ x \in Dsts /\ x[1] \in Consumers
  BY FromIs, NotToItself
<1>2. SameTaker(x[1])
  BY <1>1, OthersSame
<1> QED BY <1>1, <1>2, SameEndElse, SameQueueElse

LEMMA TakerSame ==
  ASSUME Types, HistoryOK, OneWay, NEW u \in Threads, ThreadNext(u) \/ task_fails(u), NEW n, NEW m,
         \A z \in Dsts : z[1] # u => m[z] = n[z],
         NEW t, NEW s, NEW x, x[1] = u, From(t, s, x)
  PROVE  SameGiver(t) /\ SameEnd(x) /\ Whole(t, s, m)' = Whole(t, s, n)
<1>1. t # u /\ t \in Threads /\ t \in Producers /\ x \in Dsts /\ s \in DOMAIN Outs[t]
  BY FromIs, NotToItself
<1>2. x \notin DstsFrom(u)
  BY <1>1, FromOne
<1>3. SameGiver(t) /\ (t \in Demuxers => nb_read'[t][s] = nb_read[t][s])
  BY <1>1, OthersSame
<1>4. t \notin Demuxers => m[InOf(t)] = n[InOf(t)]
  <2>1. t \notin Demuxers => t \in Codecs
    BY <1>1 DEF Producers, Codecs
  <2> QED BY <1>1, <2>1, InOfIs
<1> QED BY <1>1, <1>2, <1>3, <1>4, SameEndElse DEF Whole

(* Nothing changes at u itself but what has not to do with the flow.       *)
LEMMA GivesSame ==
  ASSUME Types, HistoryOK, OneWay, NEW u \in Threads, ThreadNext(u) \/ task_fails(u), ~Send(u), ~demux_flush_eof(u),
         NEW y \in MuxDsts, NEW n, FlowFor(y, n), SameGiver(u), u \in Demuxers => nb_read'[u] = nb_read[u]
  PROVE  FlowsFrom(y, u, n)'
<1> SUFFICES ASSUME NEW x \in OnWay(y), NEW s, From(u, s, x) PROVE FlowAt(u, s, x, n)'
  BY DEF FlowsFrom
<1>1. SameTaker(x[1]) /\ SameEnd(x) /\ SameQueue(x)
  BY GiverSame
<1> QED BY <1>1, FlowForIs, FlowOthers

(* The end of a thread, and a queue that is emptied.                       *)
LEMMA FlowCleanup ==
  ASSUME Types, HistoryOK, OneWay, NEW u \in Threads, task_cleanup(u),
         NEW y \in MuxDsts, NEW n \in [Dsts -> Nat], FlowFor(y, n)
  PROVE  FlowFor(y, n)'
<1>1. ThreadNext(u) /\ ~Send(u) /\ ~demux_flush_eof(u)
  BY DEF ThreadNext, task_cleanup, Send, demux_flush_eof
<1>2. /\ pc[u] = "draining" /\ todo[u] = <<>> /\ pc'[u] = "cleanup" /\ UNCHANGED <<queue, held, eof_in, nb_read, muxed>>
      /\ u \in Producers => todo'[u] = Sends(<<Close>>, DstsOf(u))
      /\ u \in Consumers => recv_finished'[u] = Ports[u]
  BY DEF task_cleanup, Types, PcOK, TodoOK, FlagsOK, Set, dataVars, historyVars
<1>3. FlowsFrom(y, u, n)'
  <2> SUFFICES ASSUME NEW x \in OnWay(y), NEW s, From(u, s, x) PROVE FlowAt(u, s, x, n)'
    BY DEF FlowsFrom
  <2>1. u \in Producers /\ DstsOf(u) \in Seq(Dsts)
    BY FromIs, OutputsType
  <2>2. FlowAt(u, s, x, n)
    BY FlowForIs
  <2>3. SameTaker(x[1]) /\ SameEnd(x) /\ SameQueue(x)
    BY <1>1, GiverSame
  <2>4. InTodo(u, x) = <<>> /\ Over(u) /\ Over(u)' /\ Held(u)' = Held(u) /\ Held(u) = <<>>
    BY <1>2, <2>2, PickedEmpty DEF InTodo, Over, Held, FlowAt, LastToSend
  <2>5. <<Close>> \in Seq(ItemType)
    BY ItemsType
  <2>6. \A e \in Range(todo'[u]) : e.item = Close
    <3> SUFFICES ASSUME NEW e \in Range(Sends(<<Close>>, DstsOf(u))) PROVE e.item = Close
      BY <1>2, <2>1
    <3>1. Sends(<<Close>>, DstsOf(u)) = [j \in DOMAIN DstsOf(u) |-> [dst |-> DstsOf(u)[j], item |-> Close]]
      BY <2>1, ItemsType, SendsOne
    <3> QED BY <3>1 DEF Range
  <2>7. InTodo(u, x)' = <<>>
    <3>1. \A i \in DOMAIN <<Close>> : <<Close>>[i].kind # "data"
      BY DEF Close
    <3>2. Picked(Sends(<<Close>>, DstsOf(u)), TodoData(x)) = <<>>
      BY <2>1, <2>5, <3>1, PickedOthers
    <3> QED BY <1>2, <2>1, <3>2 DEF InTodo
  <2>8. \A i \in DOMAIN todo'[u] : todo'[u][i] \notin TodoData(x)
    BY <2>6 DEF Range, TodoData, Close
  <2>9. LastToSend(u, x)'
    BY <1>2, <2>4, <2>8 DEF LastToSend
  <2>10. Whole(u, s, n)' = Whole(u, s, n) /\ Coming(u, x)' = Coming(u, x)
    BY <1>2, <2>4, <2>7 DEF Whole, Coming
  <2>11. x[1] \in Filters => Over(x[1]) \/ EofQueued(x)
    BY <1>2, <2>2 DEF FlowAt, EofFirst, EofToSend
  <2>12. pc'[u] # "draining"
    BY <1>2
  <2> QED BY <2>2, <2>3, <2>4, <2>7, <2>9, <2>10, <2>11, <2>12, FlowGiven
<1>4. FlowsInto(y, u, n)'
  <2> SUFFICES ASSUME NEW x \in OnWay(y), NEW t, NEW s, x[1] = u, From(t, s, x) PROVE FlowAt(t, s, x, n)'
    BY DEF FlowsInto
  <2>1. SameGiver(t) /\ SameEnd(x) /\ Whole(t, s, n)' = Whole(t, s, n)
    BY <1>1, TakerSame
  <2>2. Over(u) /\ Over(u)'
    BY <1>2 DEF Over
  <2>3. /\ InQueue(x)' = InQueue(x) /\ (EofQueued(x)' <=> EofQueued(x)) /\ (NoDataAfterEof(x)' <=> NoDataAfterEof(x))
    BY <1>2 DEF InQueue, EofQueued, NoDataAfterEof
  <2>4. InQueue(x) \in Seq(Nat) /\ FlowAt(t, s, x, n)
    BY FlowTypes, FlowForIs
  <2>5. x[1] \in Filters => NoDataAfterEof(x)
    BY <2>4 DEF FlowAt, EofFirst
  <2> QED BY <2>1, <2>2, <2>3, <2>4, <2>5, FlowTaken
<1>5. muxed'[y[1]][y[2]] = Upto(0, n[y])
  BY <1>2 DEF FlowFor
<1> QED BY <1>1, <1>3, <1>4, <1>5, FlowSplit DEF FlowsFrom, FlowsInto

(* Failing disturbs.                                                       *)
LEMMA FlowFails ==
  ASSUME Types, HistoryOK, OneWay, NEW u \in Threads, task_fails(u),
         NEW y \in MuxDsts, NEW n, FlowFor(y, n), Undisturbed(y)'
  PROVE  FlowFor(y, n)'
<1>1. u \in failed'
  BY DEF task_fails
<1>2. u \notin Path(y) /\ u # y[1]
  BY <1>1 DEF Undisturbed, Disturbed
<1> QED BY <1>2, FlowUnseen

(* Nothing of x is queued when nothing that is live is.                    *)
LEMMA NothingLive ==
  ASSUME Types, NEW t, NEW x \in Dsts, ClosedWhenOver(t, x), Live(x[1]) = {}
  PROVE  /\ InQueue(x) = <<>>
         /\ x[2] \notin recv_finished[x[1]] => ~EofQueued(x)
<1>1. x[1] \in Consumers
  BY DstsType
<1>2. PICK q \in Seq(Entry) : q = queue[x[1]]
  BY <1>1 DEF Types, QueueOK
<1>3. CASE x[2] \in recv_finished[x[1]]
  BY <1>3 DEF ClosedWhenOver, Drained
<1>4. CASE x[2] \notin recv_finished[x[1]]
  <2>1. \A i \in DOMAIN q : q[i].port # x[2]
    BY <1>2, <1>4 DEF Live
  <2>2. \A i \in DOMAIN q : q[i] \notin QueueData(x[2]) /\ q[i] \notin EofEntries(x[2])
    BY <2>1 DEF QueueData, EofEntries
  <2>3. Picked(q, QueueData(x[2])) = <<>>
    BY <2>2, DataNumbered, PickedNone
  <2> QED BY <1>2, <2>2, <2>3 DEF InQueue, EofQueued
<1> QED BY <1>3, <1>4

LEMMA EmptiedFlow ==
  ASSUME Types, NEW c \in Consumers, queue' = Set(queue, c, <<>>), NEW x, x[1] = c
  PROVE  InQueue(x)' = <<>> /\ ~EofQueued(x)' /\ NoDataAfterEof(x)' /\ InQueue(x)' \in Seq(Nat)
<1>1. queue'[x[1]] = <<>>
  BY EmptiedType
<1>2. DOMAIN queue'[x[1]] = {}
  BY <1>1
<1>3. InQueue(x)' = <<>>
  BY <1>1, PickedEmpty DEF InQueue
<1> QED BY <1>2, <1>3 DEF EofQueued, NoDataAfterEof

LEMMA FlowDrop ==
  ASSUME Types, HistoryOK, OneWay, NEW u \in Consumers, tq_drop(u),
         NEW y \in MuxDsts, NEW n \in [Dsts -> Nat], FlowFor(y, n)
  PROVE  FlowFor(y, n)'
<1>1. u \in Threads /\ ThreadNext(u) /\ ~Send(u) /\ ~demux_flush_eof(u)
  BY KindsOf DEF ThreadNext, tq_drop, Idle, Send, demux_flush_eof
<1>2. /\ UNCHANGED <<pc, todo, recv_finished, held, eof_in, nb_read, muxed>>
      /\ Live(u) = {} /\ queue' = Set(queue, u, <<>>)
  BY DEF tq_drop, dataVars, historyVars
<1>3. FlowsFrom(y, u, n)'
  BY <1>1, <1>2, GivesSame DEF SameGiver, SameAt
<1>4. FlowsInto(y, u, n)'
  <2> SUFFICES ASSUME NEW x \in OnWay(y), NEW t, NEW s, x[1] = u, From(t, s, x) PROVE FlowAt(t, s, x, n)'
    BY DEF FlowsInto
  <2>1. SameGiver(t) /\ SameEnd(x) /\ Whole(t, s, n)' = Whole(t, s, n)
    BY <1>1, TakerSame
  <2>2. FlowAt(t, s, x, n) /\ x \in Dsts /\ ClosedWhenOver(t, x)
    BY FromIs, FlowForIs DEF FlowAt
  <2>3. InQueue(x) = <<>> /\ (x[2] \notin recv_finished[x[1]] => ~EofQueued(x))
    BY <1>2, <2>2, NothingLive
  <2>4. InQueue(x)' = <<>> /\ ~EofQueued(x)' /\ NoDataAfterEof(x)' /\ InQueue(x)' \in Seq(Nat)
    BY <1>2, EmptiedFlow
  <2>5. (Over(x[1])' <=> Over(x[1])) /\ recv_finished'[x[1]] = recv_finished[x[1]]
    BY <1>2 DEF Over
  <2>6. x[1] \in Filters => (x[2] \in recv_finished[x[1]] => Over(x[1]))
    BY <2>2 DEF FlowAt, EofFirst
  <2> QED BY <2>1, <2>2, <2>3, <2>4, <2>5, <2>6, FlowTaken
<1>5. muxed'[y[1]][y[2]] = Upto(0, n[y])
  BY <1>2 DEF FlowFor
<1> QED BY <1>1, <1>3, <1>4, <1>5, FlowSplit DEF FlowsFrom, FlowsInto

(* A thread has nothing more to send for x than before.                    *)
LEMMA PutsOut ==
  ASSUME Types, HistoryOK, OneWay, NEW u \in Threads, ThreadNext(u), ~Send(u), ~demux_flush_eof(u),
         NEW s, NEW x, From(u, s, x), NEW n \in [Dsts -> Nat], NEW m, m[x] = n[x],
         FlowAt(u, s, x, n), InTodo(u, x) = <<>>,
         \/ Whole(u, s, m)' = Whole(u, s, n) /\ Coming(u, x)' = Coming(u, x)
         \/ Whole(u, s, m)' = Whole(u, s, n) + 1 /\ Coming(u, x)' = Coming(u, x) \o <<Whole(u, s, n) + 1>>,
         LastToSend(u, x)',
         Over(u) => Over(u)' /\ InTodo(u, x)' = <<>>,
         x[1] \in Filters /\ pc'[u] = "draining" => EofToSend(u, x)',
         pc'[u] # "cleanup"
  PROVE  FlowAt(u, s, x, m)'
<1>1. SameTaker(x[1]) /\ SameEnd(x) /\ SameQueue(x)
  BY GiverSame
<1> QED BY <1>1, FlowGiven

(* A demuxer.                                                              *)
NoEnd(t, x) == NoneEnds(todo[t], x)

LEMMA DemuxerIs ==
  ASSUME OneWay, NEW u \in Demuxers, NEW s, NEW x, From(u, s, x)
  PROVE  /\ x[1] \notin Filters /\ Held(u) = <<>> /\ u \notin Codecs /\ u \notin Filters /\ u \notin Consumers
         /\ Over(u) <=> pc[u] \in {"draining", "cleanup"}
         /\ Held(u)' = <<>> /\ (Over(u)' <=> pc'[u] \in {"draining", "cleanup"})
<1>1. u \notin Codecs /\ u \notin Filters /\ u \notin Consumers /\ u \notin Decs
  BY Kinds, KindsOf DEF Codecs, Consumers
<1>2. x[1] \notin Filters
  BY <1>1, NotToItself
<1> QED BY <1>1, <1>2 DEF Held, Over

LEMMA DemuxGives ==
  ASSUME Types, HistoryOK, OneWay, NEW u \in Demuxers, DemuxNext(u), ~Send(u), ~demux_flush_eof(u),
         NEW s, NEW x, From(u, s, x), NEW n \in [Dsts -> Nat],
         FlowAt(u, s, x, n), pc[u] \in {"receiving", "flushing", "waiting"},
         InTodo(u, x) = <<>>, pc'[u] # "cleanup", NoEnd(u, x)',
         \/ nb_read' = nb_read /\ InTodo(u, x)' = <<>>
         \/ /\ nb_read'[u][s] = nb_read[u][s] + 1 /\ InTodo(u, x)' = <<nb_read[u][s] + 1>>
            /\ pc'[u] \notin {"flushing", "waiting"}
  PROVE  FlowAt(u, s, x, n)'
<1>1. u \in Threads /\ ThreadNext(u)
  BY KindsOf DEF ThreadNext
<1>2. /\ x[1] \notin Filters /\ Held(u) = <<>> /\ Held(u)' = <<>> /\ ~Over(u)
  BY DemuxerIs
<1>3. /\ InTodo(u, x) \in Seq(Nat) /\ nb_read[u][s] \in Nat /\ <<>> \o <<>> = <<>>
      /\ \A k \in Nat : <<k>> \o <<>> = <<k>> /\ <<>> \o <<k>> = <<k>>
  <2>1. InTodo(u, x) \in Seq(Nat) /\ s \in DOMAIN Outs[u]
    BY FlowTypes, FromIs
  <2>2. nb_read[u][s] \in Nat
    BY <2>1 DEF Types, DataOK
  <2>3. \A k \in Nat : <<k>> \o <<>> = <<k>> /\ <<>> \o <<k>> = <<k>>
    OBVIOUS
  <2>4. <<>> \o <<>> = <<>>
    OBVIOUS
  <2> QED BY <2>1, <2>2, <2>3, <2>4
<1>4. \/ Whole(u, s, n)' = Whole(u, s, n) /\ Coming(u, x)' = Coming(u, x)
      \/ Whole(u, s, n)' = Whole(u, s, n) + 1 /\ Coming(u, x)' = Coming(u, x) \o <<Whole(u, s, n) + 1>>
  <2>1. Whole(u, s, n) = nb_read[u][s] /\ Whole(u, s, n)' = nb_read'[u][s]
    BY DEF Whole
  <2>2. Coming(u, x) = <<>>
    BY <1>2, <1>3 DEF Coming
  <2>3. CASE nb_read' = nb_read /\ InTodo(u, x)' = <<>>
    BY <1>2, <2>1, <2>3 DEF Coming
  <2>4. CASE nb_read'[u][s] = nb_read[u][s] + 1 /\ InTodo(u, x)' = <<nb_read[u][s] + 1>>
    <3>1. nb_read[u][s] + 1 \in Nat
      BY <1>3
    <3>2. Coming(u, x)' = <<nb_read[u][s] + 1>> \o <<>>
      BY <1>2, <2>4, Zenon DEF Coming
    <3>3. Coming(u, x)' = <<>> \o <<nb_read[u][s] + 1>>
      BY <1>3, <3>1, <3>2
    <3> QED BY <2>1, <2>2, <2>4, <3>3, Zenon
  <2> QED BY <2>3, <2>4
<1>5. LastToSend(u, x)'
  <2>1. pc'[u] \in {"flushing", "waiting"} => InTodo(u, x)' = <<>>
    OBVIOUS
  <2> QED BY <1>2, <2>1 DEF LastToSend, NoEnd, NoneEnds
<1> QED BY <1>1, <1>2, <1>4, <1>5, PutsOut

LEMMA NotOverYet ==
  ASSUME OneWay, NEW u \in Demuxers, NEW s, NEW x, From(u, s, x), NEW n, FlowAt(u, s, x, n),
         pc[u] \in {"receiving", "flushing", "waiting"}
  PROVE  NoEnd(u, x) /\ x \notin dst_finished /\ x[2] \notin recv_finished[x[1]]
         /\ (pc[u] # "receiving" => InTodo(u, x) = <<>>)
<1>1. ~Over(u)
  BY DemuxerIs
<1> QED BY <1>1 DEF FlowAt, LastToSend, ClosedWhenOver, Drained, NoEnd, NoneEnds

LEMMA EmptyTodo ==
  ASSUME NEW t, NEW x
  PROVE  /\ todo[t] = <<>> => InTodo(t, x) = <<>> /\ NoEnd(t, x)
         /\ todo'[t] = <<>> => InTodo(t, x)' = <<>> /\ NoEnd(t, x)'
BY PickedEmpty DEF InTodo, NoEnd, NoneEnds

LEMMA DemuxRead ==
  ASSUME Types, HistoryOK, OneWay, NEW u \in Demuxers, NEW r \in DOMAIN Outs[u], demux_read(u, r),
         NEW s, NEW x, From(u, s, x), NEW n \in [Dsts -> Nat], FlowAt(u, s, x, n)
  PROVE  FlowAt(u, s, x, n)'
<1>1. DemuxNext(u) /\ ~Send(u) /\ ~demux_flush_eof(u)
  BY DEF DemuxNext, demux_read, Idle, Send, demux_flush_eof
<1>2. /\ pc[u] = "receiving" /\ todo[u] = <<>> /\ pc'[u] = "receiving"
      /\ nb_read' = [nb_read EXCEPT ![u][r] = nb_read[u][r] + 1]
      /\ todo' = Set(todo, u, Sends(<<Data(nb_read'[u][r])>>, Outs[u][r]))
  BY DEF demux_read, Idle
<1>3. u \in Threads /\ u \in Producers /\ s \in DOMAIN Outs[u] /\ Outs[u][r] \in Seq(Dsts)
  BY KindsOf, FromIs, OutputsType
<1>4. nb_read'[u][r] = nb_read[u][r] + 1 /\ nb_read[u][r] \in Nat /\ (s # r => nb_read'[u][s] = nb_read[u][s])
      /\ nb_read'[u] \in [DOMAIN Outs[u] -> Nat]
  BY <1>2, <1>3 DEF Types, DataOK
<1>5. PICK k \in Nat : k = nb_read[u][r] + 1
  BY <1>4
<1>6. todo'[u] = Sends(<<Data(k)>>, Outs[u][r])
  BY <1>2, <1>3, <1>4, <1>5 DEF Set, Types, TodoOK
<1>7. PICK w : w = Sends(<<Data(k)>>, Outs[u][r])
  OBVIOUS
<1>8. w = [j \in DOMAIN Outs[u][r] |-> [dst |-> Outs[u][r][j], item |-> Data(k)]]
  BY <1>3, <1>7, ItemsType, SendsOne
<1>9. NoEnd(u, x)'
  BY <1>6, <1>7, <1>8 DEF NoEnd, NoneEnds, Data
<1>10. InTodo(u, x) = <<>>
  BY <1>2, EmptyTodo
<1>11. CASE s = r
  <2>1. Once(Outs[u][r], x)
    BY <1>11, FromOne
  <2>2. Picked(w, TodoData(x)) = <<k>>
    BY <1>3, <1>8, <2>1, PickedRow
  <2>3. InTodo(u, x)' = <<nb_read[u][s] + 1>>
    BY <1>5, <1>6, <1>7, <1>11, <2>2 DEF InTodo
  <2>4. nb_read'[u][s] = nb_read[u][s] + 1 /\ pc'[u] \notin {"flushing", "waiting"} /\ pc'[u] # "cleanup"
    BY <1>2, <1>4, <1>11
  <2> QED BY <1>1, <1>2, <1>9, <1>10, <2>3, <2>4, DemuxGives
<1>12. CASE s # r
  <2>1. Absent(Outs[u][r], x)
    BY <1>12, FromOne
  <2>2. \A j \in DOMAIN w : w[j] \notin TodoData(x)
    BY <1>8, <2>1 DEF TodoData, Absent
  <2>3. w \in Seq(Errand)
    BY <1>3, <1>8, ItemsType, RowType
  <2>4. Picked(w, TodoData(x)) = <<>>
    BY <2>2, <2>3, DataNumbered, PickedNone
  <2>5. InTodo(u, x)' = <<>>
    BY <1>6, <1>7, <2>4 DEF InTodo
  <2>6. SameTaker(x[1]) /\ SameEnd(x) /\ SameQueue(x)
    BY <1>1, <1>3, GiverSame DEF ThreadNext
  <2>7. Whole(u, s, n)' = Whole(u, s, n)
    BY <1>4, <1>12 DEF Whole
  <2>8. Held(u) = <<>> /\ Held(u)' = <<>> /\ ~Over(u) /\ ~Over(u)' /\ x[1] \notin Filters
    BY <1>2, DemuxerIs
  <2>9. Coming(u, x)' = Coming(u, x)
    BY <1>10, <2>5, <2>8, SMTT(20) DEF Coming
  <2>10. LastToSend(u, x)'
    BY <1>2, <1>9, <2>5, <2>8 DEF LastToSend, NoEnd, NoneEnds
  <2> QED BY <1>10, <2>5, <2>6, <2>7, <2>8, <2>9, <2>10, FlowGiven
<1> QED BY <1>11, <1>12

(* A demuxer that goes on or ends without a packet.                        *)
LEMMA DemuxOther ==
  ASSUME Types, HistoryOK, OneWay, WaitsInv, NEW u \in Demuxers, DemuxNext(u), ~Send(u),
         demux_ends(u) \/ demux_loop(u) \/ demux_flush(u) \/ demux_end_ts(u) \/ seek_to_start(u),
         NEW s, NEW x, From(u, s, x), NEW n \in [Dsts -> Nat], FlowAt(u, s, x, n)
  PROVE  FlowAt(u, s, x, n)'
<1>0. u \in Threads /\ u \in DOMAIN pc /\ u \in DOMAIN todo
  BY KindsOf DEF Types, PcOK, TodoOK
<1>1. nb_read' = nb_read
  BY Zenon DEF demux_ends, demux_loop, demux_flush, demux_end_ts, seek_to_start, dataVars
<1>2. pc[u] \in {"receiving", "flushing", "waiting"} /\ (pc[u] = "receiving" => todo[u] = <<>>)
  BY Zenon DEF demux_ends, demux_loop, demux_flush, demux_end_ts, seek_to_start, Idle
<1>3. NoEnd(u, x) /\ InTodo(u, x) = <<>> /\ x[2] \notin recv_finished[x[1]]
  BY <1>2, NotOverYet, EmptyTodo, SMTT(20)
<1>4. pc'[u] \in {"receiving", "flushing", "waiting", "draining"}
  BY <1>0, <1>2, SMTT(20) DEF demux_ends, demux_loop, demux_flush, demux_end_ts, seek_to_start, Ends, Set
<1>5. \/ todo'[u] = <<>> \/ todo'[u] = todo[u] \/ (todo[u] # <<>> /\ todo'[u] = Tail(todo[u]))
      \/ todo'[u] = Flushes(u)
  <2>1. pc[u] = "waiting" => todo[u] # <<>>
    BY DEF WaitsInv
  <2> QED BY <1>0, <2>1 DEF demux_ends, demux_loop, demux_flush, demux_end_ts, seek_to_start, Ends, Set
<1>6. NoEnd(u, x)' /\ InTodo(u, x)' = <<>>
  <2>1. CASE todo'[u] = <<>>
    BY <2>1, EmptyTodo
  <2>2. CASE todo'[u] = todo[u]
    BY <1>3, <2>2 DEF NoEnd, NoneEnds, InTodo
  <2>3. CASE todo[u] # <<>> /\ todo'[u] = Tail(todo[u])
    <3>1. InTodo(u, x)' = <<>>
      BY <1>0, <1>3, <2>3, NoneLeft
    <3>2. \A i \in DOMAIN todo'[u] : i + 1 \in DOMAIN todo[u] /\ todo'[u][i] = todo[u][i + 1]
      BY <1>0, <2>3, TodoHead
    <3> QED BY <1>3, <3>1, <3>2 DEF NoEnd, NoneEnds
  <2>4. CASE todo'[u] = Flushes(u)
    <3>1. PICK w \in Seq(Errand) : w = Flushes(u)
      BY FlushesType DEF MaySend
    <3>2. \A i \in DOMAIN w : w[i].item = Flush
      BY <3>1, FlushesType DEF Range
    <3>3. \A i \in DOMAIN w : w[i] \notin TodoData(x)
      BY <3>2 DEF TodoData, Flush
    <3>4. Picked(w, TodoData(x)) = <<>>
      BY <3>3, DataNumbered, PickedNone, SMTT(20)
    <3> QED BY <2>4, <3>1, <3>2, <3>4 DEF NoEnd, NoneEnds, InTodo, Flush
  <2> QED BY <1>5, <2>1, <2>2, <2>3, <2>4
<1>7. ~demux_flush_eof(u) \/ (demux_flush(u) /\ demux_flush_eof(u)) \/ (demux_ends(u) /\ demux_flush_eof(u))
  BY DEF demux_loop, demux_end_ts, seek_to_start, demux_flush_eof, Idle
<1>8. ~demux_flush_eof(u)
  BY <1>7, Zenon DEF demux_flush, demux_flush_eof, demux_ends, Idle
<1> QED BY <1>1, <1>2, <1>3, <1>4, <1>6, <1>8, DemuxGives

LEMMA DemuxFlushEof ==
  ASSUME Types, HistoryOK, OneWay, NEW u \in Demuxers, demux_flush_eof(u),
         NEW s, NEW x, From(u, s, x), NEW n \in [Dsts -> Nat], FlowAt(u, s, x, n)
  PROVE  FlowAt(u, s, x, n)'
<1> DEFINE c == Head(todo[u]).dst[1]
           p == Head(todo[u]).dst[2]
<1>0. u \in Threads /\ todo[u] # <<>> /\ x \in Dsts /\ x = <<x[1], x[2]>>
  BY KindsOf, FromIs DEF demux_flush_eof
<1>1. c \in Consumers /\ p \in Nat
  BY <1>0, SendHead
<1>2. /\ pc[u] = "flushing" /\ p \in recv_finished[c] /\ send_finished' = [send_finished EXCEPT ![c] = @ \cup {p}]
      /\ UNCHANGED <<queue, recv_finished, dst_finished, nb_read, eof_in>>
      /\ Ends(u, <<>>)
  BY DEF demux_flush_eof, dataVars
<1>3. pc'[u] = "draining" /\ todo'[u] = <<>> /\ \A t \in Threads \ {u} : pc'[t] = pc[t]
  BY <1>0, <1>2, EmptyErrands, EndsType
<1>4. x[2] \notin recv_finished[x[1]] /\ InTodo(u, x) = <<>>
  BY <1>2, NotOverYet
<1>5. c # x[1] \/ p # x[2]
  BY <1>2, <1>4
<1>6. SameEnd(x)
  BY <1>0, <1>1, <1>2, <1>5, DstsType DEF SameEnd, Types, FlagsOK
<1>7. SameQueue(x)
  BY <1>2 DEF SameQueue
<1>8. SameTaker(x[1])
  <2>1. x[1] \in Threads /\ x[1] # u
    BY FromIs, NotToItself
  <2> QED BY <1>2, <1>3, <2>1 DEF SameTaker
<1>9. Held(u) = <<>> /\ Held(u)' = <<>> /\ ~Over(u) /\ Over(u)' /\ x[1] \notin Filters
  BY <1>2, <1>3, DemuxerIs
<1>10. InTodo(u, x)' = <<>> /\ NoEnd(u, x)'
  BY <1>3, EmptyTodo
<1>11. Whole(u, s, n)' = Whole(u, s, n) /\ Coming(u, x)' = Coming(u, x)
  BY <1>2, <1>4, <1>9, <1>10 DEF Whole, Coming
<1>12. LastToSend(u, x)'
  BY <1>3, <1>9, <1>10 DEF LastToSend, NoEnd, NoneEnds
<1> QED BY <1>4, <1>6, <1>7, <1>8, <1>9, <1>10, <1>11, <1>12, FlowGiven

LEMMA FlowDemux ==
  ASSUME Types, HistoryOK, OneWay, WaitsInv, NEW u \in Demuxers, DemuxNext(u), ~Send(u),
         NEW y \in MuxDsts, NEW n \in [Dsts -> Nat], FlowFor(y, n)
  PROVE  FlowFor(y, n)'
<1>1. u \in Threads /\ ThreadNext(u) /\ u \notin Consumers
  BY KindsOf DEF ThreadNext
<1>2. FlowsFrom(y, u, n)'
  <2> SUFFICES ASSUME NEW x \in OnWay(y), NEW s, From(u, s, x) PROVE FlowAt(u, s, x, n)'
    BY DEF FlowsFrom
  <2>1. FlowAt(u, s, x, n)
    BY FlowForIs
  <2>2. CASE \E r \in DOMAIN Outs[u] : demux_read(u, r)
    BY <2>1, <2>2, DemuxRead
  <2>3. CASE demux_flush_eof(u)
    BY <2>1, <2>3, DemuxFlushEof
  <2>4. CASE demux_ends(u) \/ demux_loop(u) \/ demux_flush(u) \/ demux_end_ts(u) \/ seek_to_start(u)
    BY <2>1, <2>4, DemuxOther
  <2> QED BY <2>2, <2>3, <2>4 DEF DemuxNext
<1>3. FlowsInto(y, u, n)'
  BY <1>1, FromIs DEF FlowsInto
<1>4. y[1] # u
  BY <1>1 DEF MuxDsts, Consumers
<1> QED BY <1>1, <1>2, <1>3, <1>4, FlowSplit DEF FlowsFrom, FlowsInto

(* A codec or filtergraph.  It has one input, ...                          *)
LEMMA InFlow ==
  ASSUME OneWay, NEW u \in Codecs, NEW y, u \in Path(y), NEW n, FlowFor(y, n)
  PROVE  /\ InOf(u) \in OnWay(y) /\ InOf(u) \in Dsts /\ InOf(u)[1] = u
         /\ \E t, s : From(t, s, InOf(u)) /\ FlowAt(t, s, InOf(u), n)
<1>1. InOf(u) \in Dsts /\ InOf(u)[1] = u
  BY InOfIs
<1>2. InOf(u) \in OnWay(y)
  BY <1>1 DEF OnWay
<1>3. PICK t : InOf(u) \in DstsFrom(t)
  BY <1>1 DEF OneWay
<1>4. PICK s : From(t, s, InOf(u))
  BY <1>3, FromSome
<1> QED BY <1>1, <1>2, <1>4, FlowForIs

(* ... on which it receives the next number, ...                           *)
LEMMA CodecGets ==
  ASSUME Types, OneWay, NEW u \in Codecs, Receives(u, "data"), NEW t, NEW s, From(t, s, InOf(u)),
         NEW n \in [Dsts -> Nat], FlowAt(t, s, InOf(u), n)
  PROVE  /\ InQueue(InOf(u)) = <<Got(u).item.num>> \o InQueue(InOf(u))' /\ InQueue(InOf(u))' \in Seq(Nat)
         /\ Got(u).item.num \in Nat /\ Got(u).item.num = n[InOf(u)] + 1 /\ n[InOf(u)] \in Nat
         /\ ~Over(u) /\ InOf(u)[2] \notin recv_finished[u]
<1>1. PICK z \in Dsts : z = InOf(u) /\ z[1] = u
  BY InOfIs
<1>2. u \in Consumers
  BY KindsOf
<1>3. Got(u).port \in Ports[u]
  BY <1>2, ReceivesType
<1>4. Got(u).port = z[2]
  <2>1. <<u, Got(u).port>> \in Dsts
    BY <1>2, <1>3, PortsType
  <2>2. <<u, Got(u).port>> = z
    BY <1>1, <2>1, InOfIs
  <2> QED BY <2>2
<1>5. From(t, s, z) /\ FlowAt(t, s, z, n) /\ ClosedWhenOver(t, z) /\ Flows(t, s, z, n)
  BY <1>1 DEF FlowAt
<1>6. /\ InQueue(z)' \in Seq(Nat) /\ Got(u).item.num \in Nat
      /\ InQueue(z) = <<Got(u).item.num>> \o InQueue(z)'
  <2>1. Receives(z[1], "data")
    BY <1>1
  <2>2. /\ InQueue(z)' \in Seq(Nat) /\ Got(z[1]).item.num \in Nat
        /\ IF Got(z[1]).port = z[2] /\ "data" = "data"
           THEN InQueue(z) = <<Got(z[1]).item.num>> \o InQueue(z)'
           ELSE InQueue(z)' = InQueue(z)
    BY <1>5, <2>1, TakenFrom
  <2> QED BY <1>1, <1>4, <2>2
<1>7. PICK k \in Nat : k = Got(u).item.num
  BY <1>6
<1>8. InQueue(z) = <<k>> \o InQueue(z)'
  BY <1>6, <1>7
<1>9. k = n[z] + 1
  BY <1>5, <1>6, <1>8, NumberTaken
<1>10. InQueue(z) # <<>>
  <2>1. \A q \in Seq(Nat) : <<k>> \o q # <<>>
    <3> SUFFICES ASSUME NEW q \in Seq(Nat) PROVE <<k>> \o q # <<>>
      OBVIOUS
    <3>1. Len(<<k>> \o q) = 1 + Len(q) /\ Len(q) \in Nat
      OBVIOUS
    <3> QED BY <3>1
  <2> QED BY <1>6, <1>8, <2>1, Zenon
<1>11. ~Over(u) /\ z[2] \notin recv_finished[u]
  BY <1>1, <1>5, <1>10 DEF ClosedWhenOver, Drained
<1>12. n[z] \in Nat
  OBVIOUS
<1> QED BY <1>1, <1>6, <1>7, <1>9, <1>11, <1>12

LEMMA AppendIs == \A q \in Seq(Nat) : \A k \in Nat : Append(q, k) = q \o <<k>>
OBVIOUS

LEMMA FramesSent ==
  ASSUME NEW nums \in Seq(Nat), NEW dsts \in Seq(Dsts)
  PROVE  \A i \in DOMAIN Sends(Frames(nums), dsts) : Sends(Frames(nums), dsts)[i].item.kind = "data"
<1>0. PICK f \in Seq(ItemType) : f = Frames(nums)
  BY FramesType
<1>1. f = Frames(nums) /\ \A i \in DOMAIN f : f[i].kind = "data"
  BY <1>0 DEF Frames, Data
<1>2. \A e \in Range(Sends(f, dsts)) : \E i \in DOMAIN f, j \in DOMAIN dsts : e = [dst |-> dsts[j], item |-> f[i]]
  BY SendsType
<1>3. \A e \in Range(Sends(f, dsts)) : e.item.kind = "data"
  BY <1>1, <1>2
<1> QED BY <1>1, <1>3 DEF Range

(* ... puts out what it had and the new frame, but for what it keeps, ...  *)
LEMMA ProcessGives ==
  ASSUME Types, HistoryOK, OneWay, NEW u \in Codecs, ThreadNext(u), Idle(u), Receives(u, "data"),
         held'[u] = Keep(u, Got(u).item.num),
         pc'[u] = pc[u], u \in Filters => eof_in'[u] = eof_in[u],
         NEW t, NEW r, From(t, r, InOf(u)), NEW n \in [Dsts -> Nat], FlowAt(t, r, InOf(u), n),
         NEW m, m[InOf(u)] = n[InOf(u)] + 1, \A z \in Dsts : z[1] # u => m[z] = n[z],
         NEW s, NEW x, From(u, s, x), FlowAt(u, s, x, n), InTodo(u, x)' = Out(u, Got(u).item.num), NoEnd(u, x)'
  PROVE  FlowAt(u, s, x, m)'
<1>1. u \in Threads /\ u \in Producers /\ u \notin Demuxers
  BY KindsOf, FromIs
<1>2. m[x] = n[x]
  BY FromIs, NotToItself
<1>3. ~Send(u) /\ ~demux_flush_eof(u) /\ pc[u] = "receiving" /\ todo[u] = <<>>
  BY DEF Idle, Send, demux_flush_eof
<1>4. PICK k \in Nat : k = Got(u).item.num /\ k = n[InOf(u)] + 1 /\ n[InOf(u)] \in Nat
  BY CodecGets
<1>5. ~Over(u)
  BY CodecGets
<1>6. InTodo(u, x) = <<>> /\ NoEnd(u, x)
  BY <1>3, EmptyTodo
<1>7. /\ held'[u] = Keep(u, k)
      /\ Out(u, k) \in Seq(Nat) /\ Keep(u, k) \in Seq(Nat) /\ Append(held[u], k) = Out(u, k) \o Keep(u, k)
  BY <1>4, OutAndKeep
<1>9. InTodo(u, x)' = Out(u, k)
  BY <1>4
<1>10. Coming(u, x)' = Coming(u, x) \o <<k>>
  <2>1. Coming(u, x)' = Append(held[u], k)
    BY <1>7, <1>9, Zenon DEF Coming, Held
  <2>2. held[u] \in Seq(Nat)
    BY DEF Types, DataOK
  <2>3. Coming(u, x) = held[u]
    BY <1>6, <2>2 DEF Coming, Held
  <2>4. Append(held[u], k) = held[u] \o <<k>>
    BY <2>2, AppendIs, Zenon
  <2> QED BY <2>1, <2>3, <2>4, Zenon
<1>11. Whole(u, s, m)' = Whole(u, s, n) + 1 /\ k = Whole(u, s, n) + 1
  BY <1>1, <1>4 DEF Whole
<1>12. ~Over(u)' /\ pc'[u] = "receiving"
  BY <1>3, <1>5 DEF Over
<1>13. LastToSend(u, x)'
  BY <1>12 DEF LastToSend, NoEnd, NoneEnds
<1>14. Coming(u, x)' = Coming(u, x) \o <<Whole(u, s, n) + 1>>
  BY <1>10, <1>11
<1>15. \/ Whole(u, s, m)' = Whole(u, s, n) /\ Coming(u, x)' = Coming(u, x)
       \/ Whole(u, s, m)' = Whole(u, s, n) + 1 /\ Coming(u, x)' = Coming(u, x) \o <<Whole(u, s, n) + 1>>
  BY <1>11, <1>14, Zenon
<1>16. (Over(u) => Over(u)' /\ InTodo(u, x)' = <<>>) /\ pc'[u] # "cleanup"
       /\ (x[1] \in Filters /\ pc'[u] = "draining" => EofToSend(u, x)')
  BY <1>5, <1>12
<1> QED BY <1>1, <1>2, <1>3, <1>6, <1>13, <1>15, <1>16, PutsOut

(* ... and at last all that it held back, and then the end of the stream.  *)
LEMMA FlushGives ==
  ASSUME Types, HistoryOK, OneWay, NEW u \in Codecs, ThreadNext(u), Idle(u), pc'[u] \in {"receiving", "draining"},
         held'[u] = <<>>, Over(u) => Over(u)',
         NEW s, NEW x, From(u, s, x), NEW n \in [Dsts -> Nat], FlowAt(u, s, x, n),
         InTodo(u, x)' = held[u], EndsLast(todo'[u], x), NoEnd(u, x)' \/ Over(u)',
         u \in Decs => \A i \in DOMAIN todo'[u] : todo'[u][i].item.kind # "close",
         x[1] \in Filters /\ pc'[u] = "draining" => EofToSend(u, x)'
  PROVE  FlowAt(u, s, x, n)'
<1>1. u \in Threads /\ u \in Producers /\ u \notin Demuxers
  BY KindsOf, FromIs
<1>2. ~Send(u) /\ ~demux_flush_eof(u) /\ pc[u] = "receiving" /\ todo[u] = <<>>
  BY DEF Idle, Send, demux_flush_eof
<1>3. InTodo(u, x) = <<>>
  BY <1>2, EmptyTodo
<1>4. PICK h \in Seq(Nat) : h = held[u]
  BY DEF Types, DataOK
<1>5. Coming(u, x) = h /\ Coming(u, x)' = h /\ Held(u) = h /\ Held(u)' = <<>>
  <2>1. <<>> \o h = h /\ h \o <<>> = h
    BY ConcatEmptySeq
  <2>2. Held(u) = h /\ Held(u)' = <<>>
    BY <1>4 DEF Held
  <2>3. InTodo(u, x)' = h
    BY <1>4
  <2> QED BY <1>3, <2>1, <2>2, <2>3, Zenon DEF Coming
<1>6. Whole(u, s, n)' = Whole(u, s, n)
  BY <1>1 DEF Whole
<1>7. LastToSend(u, x)'
  <2>1. pc'[u] \notin {"flushing", "waiting"}
    OBVIOUS
  <2>2. ASSUME NEW i \in DOMAIN todo'[u], todo'[u][i].dst = x, todo'[u][i].item.kind \in {"close", "eof", "empty"}
        PROVE  /\ Over(u)' /\ (u \in Decs /\ todo'[u][i].item.kind = "close" => pc'[u] = "cleanup")
               /\ \A j \in DOMAIN todo'[u] : j > i => todo'[u][j] \notin TodoData(x)
    <3>1. Over(u)'
      BY <2>2 DEF NoEnd, NoneEnds
    <3> QED BY <2>2, <3>1 DEF EndsLast
  <2> QED BY <1>5, <2>1, <2>2 DEF LastToSend
<1>8. Over(u) => Over(u)' /\ InTodo(u, x)' = <<>>
  BY <1>4, <1>5 DEF FlowAt, LastToSend
<1>9. \/ Whole(u, s, n)' = Whole(u, s, n) /\ Coming(u, x)' = Coming(u, x)
      \/ Whole(u, s, n)' = Whole(u, s, n) + 1 /\ Coming(u, x)' = Coming(u, x) \o <<Whole(u, s, n) + 1>>
  BY <1>5, <1>6
<1>10. pc'[u] # "cleanup"
  OBVIOUS
<1> QED BY <1>1, <1>2, <1>3, <1>7, <1>8, <1>9, <1>10, PutsOut

(* A decoder or encoder sends the frames to all its destinations.          *)
LEMMA CodecGives ==
  ASSUME NEW u \in Producers, NEW s, NEW x, From(u, s, x), NEW nums \in Seq(Nat), NEW rest \in Seq(Errand),
         \A i \in DOMAIN rest : rest[i].item.kind # "data",
         todo'[u] = Sends(Frames(nums), DstsOf(u)) \o rest
  PROVE  /\ InTodo(u, x)' = nums /\ EndsLast(todo'[u], x) /\ (rest = <<>> => NoEnd(u, x)')
         /\ \A i \in DOMAIN todo'[u] : todo'[u][i].item.kind = "data" \/ todo'[u][i] \in Range(rest)
         /\ \A e \in Range(rest) : e \in Range(todo'[u])
<1>1. DstsOf(u) \in Seq(Dsts)
  BY OutputsType
<1>2. PICK a \in Seq(Errand) : a = Sends(Frames(nums), DstsOf(u))
  BY <1>1, FramesType, SendsType
<1>3. \A i \in DOMAIN a : a[i].item.kind = "data"
  BY <1>1, <1>2, FramesSent
<1>4. Picked(a, TodoData(x)) = nums
  BY <1>1, <1>2, PickedSends, FromOne
<1>5. NoneFor(rest, x) /\ NoneEnds(a, x)
  BY <1>3 DEF NoneFor, NoneEnds, TodoData
<1>6. Picked(rest, TodoData(x)) = <<>>
  BY <1>5, DataNumbered, PickedNone DEF NoneFor
<1>7. PICK b \in Seq(Errand) : b = a \o rest
  <2>1. a \o rest \in Seq(Errand)
    OBVIOUS
  <2> QED BY <2>1, Zenon
<1>8. todo'[u] = b
  BY <1>2, <1>7
<1>9. InTodo(u, x)' = nums
  <2>1. Picked(a \o rest, TodoData(x)) = Picked(a, TodoData(x)) \o Picked(rest, TodoData(x))
    BY PickedErrands
  <2>2. nums \o <<>> = nums
    BY ConcatEmptySeq
  <2> QED BY <1>4, <1>6, <1>7, <1>8, <2>1, <2>2, Zenon DEF InTodo
<1>10. EndsLast(b, x)
  <2>1. EndsLast(a, x) /\ EndsLast(rest, x)
    BY <1>5 DEF EndsLast, NoneEnds, NoneFor
  <2> QED BY <1>5, <1>7, <2>1, EndsLastBoth
<1>11. rest = <<>> => b = a
  <2>1. a \o <<>> = a
    BY ConcatEmptySeq
  <2> QED BY <1>7, <2>1
<1>12. Range(b) = Range(a) \cup Range(rest)
  BY <1>7, RangeJoin
<1>13. \A i \in DOMAIN b : b[i].item.kind = "data" \/ b[i] \in Range(rest)
  BY <1>3, <1>12 DEF Range
<1>14. rest = <<>> => NoEnd(u, x)'
  BY <1>5, <1>8, <1>11 DEF NoEnd
<1> QED BY <1>8, <1>9, <1>10, <1>12, <1>13, <1>14

(* What receiving does to the order of data and EOF in a queue.            *)
LEMMA TakenEof ==
  ASSUME Types, NEW x \in Dsts, NEW kind, Receives(x[1], kind), NoDataAfterEof(x)
  PROVE  /\ NoDataAfterEof(x)' /\ (EofQueued(x)' => EofQueued(x))
         /\ x[2] \notin recv_finished[x[1]] /\ kind \notin {"eof", "empty"} => (EofQueued(x) => EofQueued(x)')
         /\ kind \in {"eof", "empty"} /\ Got(x[1]).port = x[2] => EofQueued(x) /\ InQueue(x)' = <<>>
<1> DEFINE c == x[1]
<1>1. c \in Consumers /\ x[2] \in Nat
  BY DstsType
<1>2. PICK q \in Seq(Entry) : q = queue[c]
  BY <1>1 DEF Types, QueueOK
<1>3. PICK l \in 1 .. Len(q) : l = FirstLive(c)
  BY <1>1, <1>2, ReceivesType
<1>4. PICK e \in Entry : e = Got(c) /\ e = q[l]
  BY <1>1, <1>2, <1>3, ReceivesType DEF Got
<1>5. e.item.kind = kind /\ e.item.num \in Nat /\ queue'[c] = SubSeq(q, l + 1, Len(q))
  <2>1. Receives(c, kind)
    OBVIOUS
  <2>2. /\ Got(c).item.num \in Nat /\ Got(c).item.kind = kind
        /\ queue'[c] = SubSeq(queue[c], FirstLive(c) + 1, Len(queue[c]))
    BY <1>1, <2>1, ReceivesType
  <2>3. queue'[c] = SubSeq(q, l + 1, Len(q))
    BY <1>2, <1>3, <2>2, Zenon
  <2> QED BY <1>4, <2>2, <2>3, Zenon
<1>6. \A i \in DOMAIN q : q[i].port \notin recv_finished[c] => l <= i
  <2>1. Live(c) # {}
    BY DEF Receives
  <2> QED BY <1>1, <1>2, <1>3, <2>1, FirstLiveIs DEF Live
<1>7. Len(q) \in Nat /\ l \in 0 .. Len(q) /\ DOMAIN q = 1 .. Len(q)
  OBVIOUS
<1>8. PICK r \in Seq(Entry) : r = queue'[c]
  <2>1. SubSeq(q, l + 1, Len(q)) \in Seq(Entry)
    BY <1>7, SplitSeq
  <2> QED BY <1>5, <2>1
<1>9. Len(r) = Len(q) - l /\ \A i \in 1 .. Len(q) - l : r[i] = q[l + i]
  <2>1. /\ Len(SubSeq(q, l + 1, Len(q))) = Len(q) - l
        /\ \A i \in 1 .. Len(q) - l : SubSeq(q, l + 1, Len(q))[i] = q[l + i]
    BY <1>7, SplitSeq, Zenon
  <2> QED BY <1>5, <1>8, <2>1, Zenon
<1>10. DOMAIN r = 1 .. Len(q) - l /\ \A i \in 1 .. Len(q) - l : l + i \in DOMAIN q /\ r[i] = q[l + i]
  BY <1>7, <1>9
<1>11. \A i, j \in DOMAIN q : j > i /\ q[i] \in EofEntries(x[2]) => q[j] \notin QueueData(x[2])
  BY <1>2 DEF NoDataAfterEof
<1>12. NoDataAfterEof(x)'
  <2>1. ASSUME NEW i \in DOMAIN r, NEW j \in DOMAIN r, j > i, r[i] \in EofEntries(x[2])
        PROVE  r[j] \notin QueueData(x[2])
    <3>1. l + j > l + i /\ l + i \in DOMAIN q /\ l + j \in DOMAIN q /\ r[i] = q[l + i] /\ r[j] = q[l + j]
      BY <1>7, <1>10, <2>1
    <3> QED BY <1>11, <2>1, <3>1
  <2> QED BY <1>8, <2>1 DEF NoDataAfterEof
<1>13. EofQueued(x)' => EofQueued(x)
  <2>1. (\E i \in DOMAIN r : r[i] \in EofEntries(x[2])) => \E i \in DOMAIN q : q[i] \in EofEntries(x[2])
    BY <1>10
  <2> QED BY <1>2, <1>8, <2>1 DEF EofQueued
<1>14. ASSUME x[2] \notin recv_finished[c], kind \notin {"eof", "empty"}, EofQueued(x) PROVE EofQueued(x)'
  <2>1. PICK i \in DOMAIN q : q[i] \in EofEntries(x[2])
    BY <1>2, <1>14 DEF EofQueued
  <2>2. q[i].port = x[2] /\ q[i].item.kind \in {"eof", "empty"}
    BY <2>1 DEF EofEntries
  <2>3. l <= i /\ i # l
    BY <1>4, <1>5, <1>6, <1>14, <2>2
  <2>4. i - l \in 1 .. Len(q) - l /\ l + (i - l) = i
    BY <1>7, <2>3
  <2>5. i - l \in DOMAIN r /\ r[i - l] = q[i]
    BY <1>10, <2>4
  <2> QED BY <1>8, <2>1, <2>5 DEF EofQueued
<1>15. ASSUME kind \in {"eof", "empty"}, Got(c).port = x[2] PROVE EofQueued(x) /\ InQueue(x)' = <<>>
  <2>1. q[l] \in EofEntries(x[2]) /\ l \in DOMAIN q
    BY <1>4, <1>5, <1>15 DEF EofEntries, Entry, ItemType
  <2>2. \A i \in DOMAIN r : r[i] \notin QueueData(x[2])
    <3> SUFFICES ASSUME NEW i \in DOMAIN r PROVE r[i] \notin QueueData(x[2])
      OBVIOUS
    <3>1. l + i > l /\ l + i \in DOMAIN q /\ r[i] = q[l + i]
      BY <1>7, <1>10
    <3> QED BY <1>11, <2>1, <3>1
  <2>3. Picked(r, QueueData(x[2])) = <<>>
    BY <2>2, DataNumbered, PickedNone
  <2> QED BY <1>2, <1>8, <2>1, <2>3 DEF EofQueued, InQueue
<1> QED BY <1>12, <1>13, <1>14, <1>15

LEMMA TakenData ==
  ASSUME Types, NEW x \in Dsts, Receives(x[1], "data"), NoDataAfterEof(x)
  PROVE  /\ NoDataAfterEof(x)' /\ (EofQueued(x)' => EofQueued(x))
         /\ x[2] \notin recv_finished[x[1]] => (EofQueued(x) => EofQueued(x)')
<1>1. PICK kind : kind = "data"
  OBVIOUS
<1>2. Receives(x[1], kind) /\ kind \notin {"eof", "empty"}
  BY <1>1
<1> QED BY <1>2, TakenEof

(* Where a thread receives: the next frame or packet, ...                  *)
SameState(u) == /\ pc'[u] = pc[u] /\ recv_finished'[u] = recv_finished[u]
                /\ (u \in Filters => eof_in'[u] = eof_in[u])

LEMMA TakesData ==
  ASSUME Types, HistoryOK, OneWay, NEW u \in Threads, ThreadNext(u), Receives(u, "data"), SameState(u),
         NEW n \in [Dsts -> Nat], NEW m, \A z \in Dsts : z[1] # u => m[z] = n[z],
         NEW t, NEW s, NEW x, x[1] = u, From(t, s, x), FlowAt(t, s, x, n), m[x] = n[x] + 1, Got(u).port = x[2]
  PROVE  FlowAt(t, s, x, m)'
<1>1. SameGiver(t) /\ SameEnd(x) /\ Whole(t, s, m)' = Whole(t, s, n)
  BY TakerSame
<1>2. x \in Dsts /\ ClosedWhenOver(t, x)
  BY FromIs DEF FlowAt
<1>3. /\ InQueue(x)' \in Seq(Nat) /\ Got(u).item.num \in Nat
      /\ InQueue(x) = <<Got(u).item.num>> \o InQueue(x)'
  <2>1. Receives(x[1], "data")
    OBVIOUS
  <2> QED BY <1>2, <2>1, TakenFrom
<1>4. (Over(u)' <=> Over(u)) /\ recv_finished'[u] = recv_finished[u]
  BY DEF SameState, Over
<1>5. u \in Filters =>
        /\ NoDataAfterEof(x)' /\ (EofQueued(x)' => EofQueued(x))
        /\ EofQueued(x) => Over(x[1])' \/ EofQueued(x)'
        /\ x[2] \in recv_finished'[x[1]] => Over(x[1])'
  <2> SUFFICES ASSUME u \in Filters
               PROVE  /\ NoDataAfterEof(x)' /\ (EofQueued(x)' => EofQueued(x))
                      /\ EofQueued(x) => Over(x[1])' \/ EofQueued(x)'
                      /\ x[2] \in recv_finished'[x[1]] => Over(x[1])'
    OBVIOUS
  <2>1. EofFirst(t, x)
    BY DEF FlowAt
  <2>2. /\ NoDataAfterEof(x)' /\ (EofQueued(x)' => EofQueued(x))
        /\ x[2] \notin recv_finished[x[1]] => (EofQueued(x) => EofQueued(x)')
    <3>1. Receives(x[1], "data") /\ NoDataAfterEof(x)
      BY <2>1 DEF EofFirst
    <3> QED BY <1>2, <3>1, TakenData
  <2>3. x[2] \in recv_finished[x[1]] => Over(x[1])
    BY <2>1 DEF EofFirst
  <2> QED BY <1>4, <2>2, <2>3
<1>6. \E k \in Nat : InQueue(x) = <<k>> \o InQueue(x)'
  BY <1>3
<1> QED BY <1>1, <1>3, <1>4, <1>5, <1>6, FlowTaken

(* ... something else, or for another stream, ...                          *)
LEMMA TakesOther ==
  ASSUME Types, HistoryOK, OneWay, NEW u \in Threads \ Filters, ThreadNext(u), NEW kind, Receives(u, kind),
         NEW n \in [Dsts -> Nat],
         NEW t, NEW s, NEW x, x[1] = u, From(t, s, x), FlowAt(t, s, x, n), Got(u).port # x[2] \/ kind # "data",
         pc'[u] = pc[u], x[2] \in recv_finished'[u] => x[2] \in recv_finished[u]
  PROVE  FlowAt(t, s, x, n)'
<1>1. SameGiver(t) /\ SameEnd(x) /\ Whole(t, s, n)' = Whole(t, s, n)
  BY TakerSame
<1>2. x \in Dsts /\ ClosedWhenOver(t, x)
  BY FromIs DEF FlowAt
<1>3. InQueue(x)' \in Seq(Nat) /\ InQueue(x)' = InQueue(x)
  <2>1. Receives(x[1], kind) /\ ~(Got(x[1]).port = x[2] /\ kind = "data")
    OBVIOUS
  <2> QED BY <1>2, <2>1, TakenFrom
<1>4. Over(u)' <=> Over(u)
  BY DEF Over
<1> QED BY <1>1, <1>3, <1>4, FlowTaken

(* ... a frame without data, ...                                           *)
LEMMA TakesEofFrame ==
  ASSUME Types, HistoryOK, OneWay, NEW u \in Filters, ThreadNext(u), NEW kind \in {"eof", "empty"}, Receives(u, kind),
         recv_finished'[u] = recv_finished[u], Over(u)', NEW n \in [Dsts -> Nat],
         NEW t, NEW s, NEW x, x[1] = u, From(t, s, x), FlowAt(t, s, x, n), Got(u).port = x[2]
  PROVE  FlowAt(t, s, x, n)'
<1>1. SameGiver(t) /\ SameEnd(x) /\ Whole(t, s, n)' = Whole(t, s, n)
  BY KindsOf, TakerSame
<1>2. x \in Dsts /\ ClosedWhenOver(t, x) /\ EofFirst(t, x) /\ NoDataAfterEof(x)
  BY FromIs DEF FlowAt, EofFirst
<1>3. InQueue(x)' \in Seq(Nat) /\ InQueue(x)' = InQueue(x)
  <2>1. Receives(x[1], kind) /\ kind # "data"
    OBVIOUS
  <2> QED BY <1>2, <2>1, TakenFrom
<1>4. NoDataAfterEof(x)' /\ (EofQueued(x)' => EofQueued(x)) /\ EofQueued(x) /\ InQueue(x)' = <<>>
  <2>1. Receives(x[1], kind) /\ Got(x[1]).port = x[2]
    OBVIOUS
  <2> QED BY <1>2, <2>1, TakenEof
<1>5. Over(t) /\ InTodo(t, x) = <<>>
  BY <1>2, <1>4 DEF EofFirst
<1> QED BY <1>1, <1>3, <1>4, <1>5, FlowTaken

(* ... the EOF of a stream, ...                                            *)
LEMMA TakesEnd ==
  ASSUME Types, HistoryOK, OneWay, NEW u \in Consumers, ThreadNext(u), ReceivesEof(u),
         Over(u) => Over(u)', NEW n \in [Dsts -> Nat],
         NEW t, NEW s, NEW x, x[1] = u, From(t, s, x), FlowAt(t, s, x, n),
         Over(u)' => Over(u) \/ FirstEof(u) = x[2], u \in Filters => FirstEof(u) = x[2]
  PROVE  FlowAt(t, s, x, n)'
<1>1. SameGiver(t) /\ SameEnd(x) /\ Whole(t, s, n)' = Whole(t, s, n)
  BY KindsOf, TakerSame
<1>2. x \in Dsts /\ ClosedWhenOver(t, x)
  BY FromIs DEF FlowAt
<1>3. /\ Live(x[1]) = {} /\ FirstEof(u) \in send_finished[u] /\ FirstEof(u) \notin recv_finished[u]
      /\ recv_finished'[u] = recv_finished[u] \cup {FirstEof(u)} /\ queue' = Set(queue, u, <<>>)
  BY ReceivesEofType DEF ReceivesEof
<1>4. InQueue(x) = <<>> /\ (x[2] \notin recv_finished[x[1]] => ~EofQueued(x))
  BY <1>2, <1>3, NothingLive
<1>5. InQueue(x)' = <<>> /\ ~EofQueued(x)' /\ NoDataAfterEof(x)' /\ InQueue(x)' \in Seq(Nat)
  BY <1>3, EmptiedFlow
<1>6. FirstEof(u) = x[2] => x \in dst_finished /\ Over(t) /\ InTodo(t, x) = <<>>
  BY <1>2, <1>3 DEF ClosedWhenOver
<1>7. u \in Filters =>
        /\ NoDataAfterEof(x)' /\ (EofQueued(x)' => EofQueued(x))
        /\ EofQueued(x) => Over(x[1])' \/ EofQueued(x)'
        /\ x[2] \in recv_finished'[x[1]] => Over(x[1])'
  <2> SUFFICES ASSUME u \in Filters
               PROVE  /\ NoDataAfterEof(x)' /\ (EofQueued(x)' => EofQueued(x))
                      /\ EofQueued(x) => Over(x[1])' \/ EofQueued(x)'
                      /\ x[2] \in recv_finished'[x[1]] => Over(x[1])'
    OBVIOUS
  <2>1. x[2] \notin recv_finished[u] /\ ~EofQueued(x) /\ EofFirst(t, x)
    BY <1>3, <1>4 DEF FlowAt
  <2>2. Over(u)
    BY <1>6, <2>1 DEF EofFirst
  <2> QED BY <1>5, <2>1, <2>2
<1>8. x[2] \in recv_finished'[x[1]] \/ Over(x[1])' =>
        \/ x[2] \in recv_finished[x[1]] \/ Over(x[1])
        \/ Over(t) /\ InQueue(x)' = <<>> /\ InTodo(t, x) = <<>>
  BY <1>3, <1>5, <1>6
<1> QED BY <1>1, <1>4, <1>5, <1>7, <1>8, FlowTaken

(* ... or nothing.                                                         *)
LEMMA TakesNothing ==
  ASSUME Types, HistoryOK, OneWay, NEW u \in Threads, ThreadNext(u), queue'[u] = queue[u],
         recv_finished'[u] = recv_finished[u], Over(u) => Over(u)', NEW n \in [Dsts -> Nat],
         NEW t, NEW s, NEW x, x[1] = u, From(t, s, x), FlowAt(t, s, x, n),
         Over(u)' => Over(u) \/ x[2] \in recv_finished[u]
  PROVE  FlowAt(t, s, x, n)'
<1>1. SameGiver(t) /\ SameEnd(x) /\ Whole(t, s, n)' = Whole(t, s, n)
  BY TakerSame
<1>2. /\ InQueue(x)' = InQueue(x) /\ (EofQueued(x)' <=> EofQueued(x)) /\ (NoDataAfterEof(x)' <=> NoDataAfterEof(x))
  BY DEF InQueue, EofQueued, NoDataAfterEof
<1>3. InQueue(x) \in Seq(Nat)
  BY FlowTypes
<1>4. u \in Filters => NoDataAfterEof(x) /\ (x[2] \in recv_finished[u] => Over(u))
  BY DEF FlowAt, EofFirst
<1> QED BY <1>1, <1>2, <1>3, <1>4, FlowTaken

-----------------------------------------------------------------------------
(* A codec or filtergraph on the way, what it sends and what it receives.  *)
LEMMA CodecSplit ==
  ASSUME Types, HistoryOK, OneWay, NEW u \in Codecs, ThreadNext(u), NEW y \in MuxDsts, NEW n, FlowFor(y, n),
         NEW m, \A z \in Dsts : z[1] # u => m[z] = n[z], FlowsFrom(y, u, m)', FlowsInto(y, u, m)'
  PROVE  FlowFor(y, m)'
<1>1. u \in Threads /\ y[1] # u
  BY Kinds, KindsOf DEF MuxDsts, Codecs, Consumers
<1> QED BY <1>1, FlowSplit DEF FlowsFrom, FlowsInto

LEMMA CodecPort ==
  ASSUME Types, OneWay, NEW u \in Codecs
  PROVE  /\ \A kind : Receives(u, kind) => Got(u).port = InOf(u)[2]
         /\ ReceivesEof(u) /\ FlagsOK => FirstEof(u) = InOf(u)[2]
         /\ Ports[u] = {InOf(u)[2]}
<1>1. u \in Consumers
  BY KindsOf
<1>2. \A p \in Ports[u] : p = InOf(u)[2]
  <2> SUFFICES ASSUME NEW p \in Ports[u] PROVE p = InOf(u)[2]
    OBVIOUS
  <2>1. <<u, p>> \in Dsts
    BY <1>1, PortsType
  <2>2. <<u, p>> = InOf(u)
    BY <2>1, InOfIs
  <2>3. <<u, p>>[2] = p
    OBVIOUS
  <2> QED BY <2>2, <2>3
<1>3. InOf(u)[2] \in Ports[u]
  BY <1>1, InOfIs, DstsType
<1>4. ASSUME ReceivesEof(u) PROVE FirstEof(u) \in Ports[u]
  <2>1. FirstEof(u) \in send_finished[u]
    BY <1>1, <1>4, ReceivesEofType
  <2> QED BY <1>1, <2>1 DEF Types, FlagsOK
<1>5. \A kind : Receives(u, kind) => Got(u).port \in Ports[u]
  BY <1>1, ReceivesType
<1> QED BY <1>2, <1>3, <1>4, <1>5

LEMMA DataFlows ==
  ASSUME Types, HistoryOK, OneWay, NEW u \in Codecs, ThreadNext(u), Idle(u), Receives(u, "data"),
         SameState(u), NEW y \in MuxDsts, u \in Path(y), NEW n \in [Dsts -> Nat], FlowFor(y, n),
         held'[u] = Keep(u, Got(u).item.num),
         \A x \in OnWay(y) : \A s : From(u, s, x) => InTodo(u, x)' = Out(u, Got(u).item.num) /\ NoEnd(u, x)'
  PROVE  \E m \in [Dsts -> Nat] : FlowFor(y, m)'
<1>1. PICK z \in Dsts : z = InOf(u) /\ z[1] = u /\ \A x \in Dsts : x[1] = u => x = z
  BY InOfIs
<1>2. PICK m : m = [n EXCEPT ![z] = n[z] + 1]
  OBVIOUS
<1>3. m \in [Dsts -> Nat] /\ m[z] = n[z] + 1 /\ \A x \in Dsts : x[1] # u => m[x] = n[x]
  BY <1>1, <1>2
<1>4. PICK t, r : From(t, r, InOf(u)) /\ FlowAt(t, r, InOf(u), n)
  BY InFlow
<1>5. FlowsFrom(y, u, m)'
  <2> SUFFICES ASSUME NEW x \in OnWay(y), NEW s, From(u, s, x) PROVE FlowAt(u, s, x, m)'
    BY DEF FlowsFrom
  <2>1. FlowAt(u, s, x, n)
    BY FlowForIs
  <2>2. m[InOf(u)] = n[InOf(u)] + 1
    BY <1>1, <1>3
  <2>3. pc'[u] = pc[u] /\ (u \in Filters => eof_in'[u] = eof_in[u])
    BY DEF SameState
  <2> QED BY <1>3, <1>4, <2>1, <2>2, <2>3, ProcessGives
<1>6. FlowsInto(y, u, m)'
  <2> SUFFICES ASSUME NEW x \in OnWay(y), NEW v, NEW s, x[1] = u, From(v, s, x) PROVE FlowAt(v, s, x, m)'
    BY DEF FlowsInto
  <2>1. FlowAt(v, s, x, n) /\ x \in Dsts
    BY FlowForIs, FromIs
  <2>2. x = z /\ Got(u).port = x[2]
    BY <1>1, <2>1, CodecPort
  <2>3. m[x] = n[x] + 1
    BY <1>3, <2>2
  <2>4. u \in Threads
    BY KindsOf
  <2> QED BY <1>3, <2>1, <2>2, <2>3, <2>4, TakesData
<1> QED BY <1>3, <1>5, <1>6, CodecSplit

(* A decoder or encoder processes a packet or frame.                       *)
LEMMA ProcessFlows ==
  ASSUME Types, HistoryOK, OneWay, NEW u \in Codecs, ThreadNext(u), Idle(u), Receives(u, "data"), Process(u),
         SameState(u), NEW y \in MuxDsts, u \in Path(y), NEW n \in [Dsts -> Nat], FlowFor(y, n)
  PROVE  \E m \in [Dsts -> Nat] : FlowFor(y, m)'
<1>1. u \in Threads /\ u \in Producers
  BY KindsOf
<1>2. PICK t, r : From(t, r, InOf(u)) /\ FlowAt(t, r, InOf(u), n)
  BY InFlow
<1>3. PICK k \in Nat : k = Got(u).item.num
  BY <1>2, CodecGets
<1>4. PICK o \in Seq(Nat) : o = Out(u, k)
  BY OutAndKeep
<1>5. todo'[u] = Sends(Frames(o), DstsOf(u)) /\ held'[u] = Keep(u, k)
  BY <1>1, <1>3, <1>4 DEF Process, Set, Types, TodoOK, DataOK
<1>6. PICK rest \in Seq(Errand) : rest = <<>>
  BY EmptyErrands DEF MaySend
<1>7. todo'[u] = Sends(Frames(o), DstsOf(u)) \o rest
  <2>1. Sends(Frames(o), DstsOf(u)) \in Seq(Errand)
    BY <1>1, FramesType, SendsToOutputs DEF MaySend
  <2> QED BY <1>5, <1>6, <2>1, ConcatEmptySeq
<1>8. \A i \in DOMAIN rest : rest[i].item.kind # "data"
  BY <1>6
<1>9. ASSUME NEW x, NEW s, From(u, s, x) PROVE InTodo(u, x)' = o /\ NoEnd(u, x)'
  BY <1>1, <1>6, <1>7, <1>8, <1>9, CodecGives
<1> QED BY <1>3, <1>4, <1>5, <1>9, DataFlows

(* decoder_thread(): nothing that is on the way of a stream is over before *)
(* what it receives is.                                                    *)
LEMMA NotDone ==
  ASSUME NEW u, NEW y \in Dsts, u \in Path(y), NEW n, FlowFor(y, n), AllOutputsDone(u)
  PROVE  Over(u)
<1>1. PICK s : \E x \in OnWay(y) : From(u, s, x)
  BY PathSends
<1>2. PICK x \in OnWay(y) : From(u, s, x)
  BY <1>1
<1>3. FlowAt(u, s, x, n)
  BY <1>2, FlowForIs
<1>4. x \in dst_finished
  BY <1>2, FromIs DEF AllOutputsDone, DstsFrom
<1> QED BY <1>3, <1>4 DEF FlowAt, ClosedWhenOver

LEMMA FlushedGives ==
  ASSUME Types, NEW u \in Codecs, u \in Producers, NEW s, NEW x, From(u, s, x), NEW rest \in Seq(Errand),
         \A i \in DOMAIN rest : rest[i].item.kind \notin {"data", "close"},
         todo'[u] = Flushed(u) \o rest
  PROVE  /\ InTodo(u, x)' = held[u] /\ EndsLast(todo'[u], x) /\ (rest = <<>> => NoEnd(u, x)')
         /\ \A i \in DOMAIN todo'[u] : todo'[u][i].item.kind # "close"
         /\ \A e \in Range(rest) : e \in Range(todo'[u])
<1>1. PICK h \in Seq(Nat) : h = held[u]
  BY DEF Types, DataOK
<1>2. todo'[u] = Sends(Frames(h), DstsOf(u)) \o rest /\ \A i \in DOMAIN rest : rest[i].item.kind # "data"
  BY <1>1 DEF Flushed
<1>3. /\ InTodo(u, x)' = h /\ EndsLast(todo'[u], x) /\ (rest = <<>> => NoEnd(u, x)')
      /\ \A i \in DOMAIN todo'[u] : todo'[u][i].item.kind = "data" \/ todo'[u][i] \in Range(rest)
      /\ \A e \in Range(rest) : e \in Range(todo'[u])
  BY <1>2, CodecGives
<1>4. \A e \in Range(rest) : e.item.kind # "close"
  BY DEF Range
<1> QED BY <1>1, <1>3, <1>4

LEMMA FlowDec ==
  ASSUME Types, HistoryOK, OneWay, NEW u \in Decs, DecNext(u),
         NEW y \in MuxDsts, NEW n \in [Dsts -> Nat], FlowFor(y, n)
  PROVE  \E m \in [Dsts -> Nat] : FlowFor(y, m)'
<1>1. u \in Threads /\ u \in Codecs /\ u \in Consumers /\ u \notin Filters /\ u \notin Demuxers /\ ThreadNext(u)
  BY Kinds, KindsOf DEF ThreadNext, Codecs, Consumers
<1>2. CASE u \notin Path(y)
  <2>1. u # y[1]
    BY Kinds DEF MuxDsts
  <2> QED BY <1>1, <1>2, <2>1, FlowUnseen
<1> SUFFICES ASSUME u \in Path(y) PROVE \E m \in [Dsts -> Nat] : FlowFor(y, m)'
  BY <1>2
<1>3. Idle(u)
  BY DEF DecNext, dec_end_ts, dec_packet, dec_flush, dec_eof, dec_exit, DecReceives
<1>4. pc[u] = "receiving" /\ todo[u] = <<>> /\ ~Send(u) /\ ~demux_flush_eof(u) /\ ~Over(u)
  BY <1>1, <1>3 DEF Idle, Send, demux_flush_eof, Over
<1>5. u \in Producers /\ y \in Dsts
  BY KindsOf DEF MuxDsts
<1>6. CASE dec_end_ts(u)
  <2>1. UNCHANGED <<pc, todo, queue, recv_finished, held, eof_in>>
    BY <1>6 DEF dec_end_ts, queueVars, dataVars
  <2>2. FlowsFrom(y, u, n)'
    BY <1>1, <1>4, <2>1, GivesSame DEF SameGiver, SameAt
  <2>3. FlowsInto(y, u, n)'
    <3> SUFFICES ASSUME NEW x \in OnWay(y), NEW t, NEW s, x[1] = u, From(t, s, x) PROVE FlowAt(t, s, x, n)'
      BY DEF FlowsInto
    <3>1. (Over(u) => Over(u)') /\ (Over(u)' => Over(u) \/ x[2] \in recv_finished[u]) /\ queue'[u] = queue[u]
          /\ recv_finished'[u] = recv_finished[u]
      BY <2>1 DEF Over
    <3> QED BY <1>1, <3>1, FlowForIs, TakesNothing
  <2> QED BY <1>1, <2>2, <2>3, CodecSplit
<1>7. CASE dec_packet(u)
  <2>1. Receives(u, "data") /\ Process(u) /\ SameState(u)
    BY <1>1, <1>7 DEF dec_packet, SameState
  <2> QED BY <1>1, <1>3, <2>1, ProcessFlows
<1>8. CASE dec_flush(u)
  <2>1. /\ Receives(u, "flush") /\ UNCHANGED <<pc, recv_finished>>
        /\ todo'[u] = Flushed(u) /\ held'[u] = <<>>
    BY <1>1, <1>8 DEF dec_flush, Set, Types, TodoOK, DataOK
  <2>2. FlowsFrom(y, u, n)'
    <3> SUFFICES ASSUME NEW x \in OnWay(y), NEW s, From(u, s, x) PROVE FlowAt(u, s, x, n)'
      BY DEF FlowsFrom
    <3>1. PICK rest \in Seq(Errand) : rest = <<>>
      BY EmptyErrands DEF MaySend
    <3>2. todo'[u] = Flushed(u) \o rest /\ \A i \in DOMAIN rest : rest[i].item.kind \notin {"data", "close"}
      <4>1. Flushed(u) \in Seq(Errand)
        BY <1>1, FlushedType DEF MaySend
      <4> QED BY <2>1, <3>1, <4>1, ConcatEmptySeq
    <3>3. /\ InTodo(u, x)' = held[u] /\ EndsLast(todo'[u], x) /\ NoEnd(u, x)'
          /\ \A i \in DOMAIN todo'[u] : todo'[u][i].item.kind # "close"
      BY <1>1, <1>5, <3>1, <3>2, FlushedGives
    <3>4. pc'[u] \in {"receiving", "draining"} /\ pc'[u] # "draining" /\ (Over(u) => Over(u)')
      BY <1>4, <2>1
    <3> QED BY <1>1, <1>3, <2>1, <3>3, <3>4, FlowForIs, FlushGives
  <2>3. FlowsInto(y, u, n)'
    <3> SUFFICES ASSUME NEW x \in OnWay(y), NEW t, NEW s, x[1] = u, From(t, s, x) PROVE FlowAt(t, s, x, n)'
      BY DEF FlowsInto
    <3>1. PICK kind : kind = "flush"
      OBVIOUS
    <3>2. Receives(u, kind) /\ kind # "data" /\ pc'[u] = pc[u] /\ u \in Threads \ Filters
          /\ (x[2] \in recv_finished'[u] => x[2] \in recv_finished[u])
      BY <1>1, <2>1, <3>1
    <3> QED BY <1>1, <3>2, FlowForIs, TakesOther
  <2> QED BY <1>1, <2>2, <2>3, CodecSplit
<1>9. CASE dec_eof(u)
  <2>1. /\ ReceivesEof(u) /\ pc'[u] = "draining"
        /\ todo'[u] = Flushed(u) \o Sends(<<EofFrame>>, DstsOf(u)) /\ held'[u] = <<>>
    BY <1>1, <1>9 DEF dec_eof, Ends, Set, Types, TodoOK, DataOK, PcOK
  <2>2. FlowsFrom(y, u, n)'
    <3> SUFFICES ASSUME NEW x \in OnWay(y), NEW s, From(u, s, x) PROVE FlowAt(u, s, x, n)'
      BY DEF FlowsFrom
    <3>0. DstsOf(u) \in Seq(Dsts) /\ EofFrame \in ItemType
      BY <1>5, OutputsType, ItemsType
    <3>1. PICK rest : rest = Sends(<<EofFrame>>, DstsOf(u))
      OBVIOUS
    <3>2. rest = [j \in DOMAIN DstsOf(u) |-> [dst |-> DstsOf(u)[j], item |-> EofFrame]]
      BY <3>0, <3>1, SendsOne
    <3>3. rest \in Seq(Errand)
      BY <3>0, <3>2, RowType
    <3>4. \A i \in DOMAIN rest : rest[i].item.kind \notin {"data", "close"}
      BY <3>2 DEF EofFrame
    <3>5. \E e \in Range(rest) : e.dst = x /\ e.item.kind = "eof"
      <4>1. x \in Range(DstsOf(u))
        BY FromIs DEF DstsFrom
      <4> QED BY <3>2, <4>1 DEF Range, EofFrame
    <3>6. pc'[u] \in {"receiving", "draining"} /\ Over(u)'
      BY <2>1 DEF Over
    <3>7. todo'[u] = Flushed(u) \o rest
      BY <2>1, <3>1
    <3> HIDE <3>2
    <3>8. /\ InTodo(u, x)' = held[u] /\ EndsLast(todo'[u], x)
          /\ \A i \in DOMAIN todo'[u] : todo'[u][i].item.kind # "close"
          /\ \A e \in Range(rest) : e \in Range(todo'[u])
      BY <1>1, <1>5, <3>3, <3>4, <3>7, FlushedGives
    <3>9. EofToSend(u, x)'
      BY <3>5, <3>8 DEF EofToSend, Range
    <3> QED BY <1>1, <1>3, <2>1, <3>6, <3>8, <3>9, FlowForIs, FlushGives
  <2>3. FlowsInto(y, u, n)'
    <3> SUFFICES ASSUME NEW x \in OnWay(y), NEW t, NEW s, x[1] = u, From(t, s, x) PROVE FlowAt(t, s, x, n)'
      BY DEF FlowsInto
    <3>1. FirstEof(u) = x[2]
      BY <1>1, <2>1, CodecPort, InOfIs, FromIs DEF Types
    <3>2. (Over(u) => Over(u)') /\ (Over(u)' => Over(u) \/ FirstEof(u) = x[2]) /\ (u \in Filters => FirstEof(u) = x[2])
      BY <1>4, <3>1
    <3> QED BY <1>1, <2>1, <3>2, FlowForIs, TakesEnd
  <2> QED BY <1>1, <2>2, <2>3, CodecSplit
<1>10. CASE dec_exit(u)
  BY <1>4, <1>5, <1>10, NotDone DEF dec_exit
<1> QED BY <1>6, <1>7, <1>8, <1>9, <1>10 DEF DecNext

(* filter_thread().                                                        *)
LEMMA CloseOutputIs == close_output \in Seq(ItemType) /\ \A i \in DOMAIN close_output : close_output[i].kind # "data"
BY ItemsType DEF close_output, Close, Empty

LEMMA NothingHeld ==
  ASSUME Types, NEW u \in Codecs, Over(u), NEW s, NEW x, From(u, s, x), NEW n, FlowAt(u, s, x, n)
  PROVE  held[u] = <<>>
BY DEF FlowAt, LastToSend, Held

(* What a filtergraph puts out for a frame, and at the end.                *)
LEMMA FilterPuts ==
  ASSUME NEW u \in Filters, NEW y \in MuxDsts, Fed(y), NEW nums \in Seq(Nat),
         NEW closing \in Seq(ItemType), \A i \in DOMAIN closing : closing[i].kind # "data",
         todo'[u] = FilterSends(u, nums, closing)
  PROVE  \A x \in OnWay(y) : \A s : From(u, s, x) =>
           InTodo(u, x)' = nums /\ EndsLast(todo'[u], x) /\ (closing = <<>> => NoEnd(u, x)')
<1> SUFFICES ASSUME NEW x \in OnWay(y), NEW s, From(u, s, x)
             PROVE  InTodo(u, x)' = nums /\ EndsLast(todo'[u], x) /\ (closing = <<>> => NoEnd(u, x)')
  OBVIOUS
<1>1. x \in DstsFrom(u) /\ x \notin NoFrames
  BY FedOnWay
<1>2. PICK w : w = FilterSends(u, nums, closing)
  OBVIOUS
<1>3. Picked(w, TodoData(x)) = nums /\ EndsLast(w, x) /\ (closing = <<>> => NoneEnds(w, x))
  BY <1>1, <1>2, FilterGives
<1>4. todo'[u] = w
  BY <1>2
<1> QED BY <1>3, <1>4 DEF InTodo, NoEnd

LEMMA AllClosedIsOver ==
  ASSUME Types, OneWay, NEW u \in Filters, AllClosed(u), NEW y, u \in Path(y), NEW n, FlowFor(y, n)
  PROVE  Over(u)
<1>1. u \in Codecs
  BY KindsOf
<1>2. InOf(u)[2] \in recv_finished[u] /\ InOf(u)[1] = u
  BY <1>1, CodecPort, InOfIs DEF AllClosed
<1>3. PICK t, s : From(t, s, InOf(u)) /\ FlowAt(t, s, InOf(u), n)
  BY <1>1, InFlow
<1> QED BY <1>2, <1>3 DEF FlowAt, EofFirst

LEMMA FilterEofFlow ==
  ASSUME Types, HistoryOK, OneWay, NEW u \in Filters, filter_eof_frame(u), NEW kind \in {"eof", "empty"},
         Receives(u, kind), NEW y \in MuxDsts, Fed(y), u \in Path(y), NEW n \in [Dsts -> Nat], FlowFor(y, n)
  PROVE  FlowFor(y, n)'
<1>1. u \in Threads /\ u \in Codecs /\ u \in Consumers /\ u \notin Decs /\ ThreadNext(u) /\ Idle(u)
  BY Kinds, KindsOf DEF ThreadNext, FilterNext, filter_eof_frame, FilterReceives
<1>2. Got(u).port = InOf(u)[2] /\ Ports[u] = {InOf(u)[2]}
  BY <1>1, CodecPort
<1>3. eof_in'[u] = Ports[u]
  <2>1. eof_in[u] \subseteq Ports[u] /\ DOMAIN eof_in = Filters
    BY DEF HistoryOK
  <2>2. eof_in'[u] = eof_in[u] \cup {Got(u).port}
    BY <2>1 DEF filter_eof_frame
  <2> QED BY <1>2, <2>1, <2>2
<1>4. Over(u)'
  BY <1>3 DEF Over
<1>5. PICK h \in Seq(Nat) : h = held[u]
  BY <1>1 DEF Types, DataOK
<1>6. PICK closing \in Seq(ItemType) : closing = close_output /\ \A i \in DOMAIN closing : closing[i].kind # "data"
  BY CloseOutputIs
<1>7. /\ pc'[u] = pc[u] /\ recv_finished' = recv_finished
      /\ todo' = Set(todo, u, FilterSends(u, h, closing)) /\ held' = Set(held, u, <<>>)
  BY <1>3, <1>5, <1>6 DEF filter_eof_frame
<1>8. todo'[u] = FilterSends(u, h, closing) /\ held'[u] = <<>>
  BY <1>1, <1>7 DEF Set, Types, TodoOK, DataOK
<1>9. pc[u] = "receiving"
  BY <1>1 DEF Idle
<1>10. FlowsFrom(y, u, n)'
  <2> SUFFICES ASSUME NEW x \in OnWay(y), NEW s, From(u, s, x) PROVE FlowAt(u, s, x, n)'
    BY DEF FlowsFrom
  <2>1. pc'[u] \in {"receiving", "draining"} /\ pc'[u] # "draining" /\ (Over(u) => Over(u)')
    BY <1>4, <1>7, <1>9
  <2>2. InTodo(u, x)' = held[u] /\ EndsLast(todo'[u], x)
    BY <1>5, <1>6, <1>8, FilterPuts
  <2> QED BY <1>1, <1>4, <1>8, <2>1, <2>2, FlowForIs, FlushGives
<1>11. FlowsInto(y, u, n)'
  <2> SUFFICES ASSUME NEW x \in OnWay(y), NEW t, NEW s, x[1] = u, From(t, s, x) PROVE FlowAt(t, s, x, n)'
    BY DEF FlowsInto
  <2>1. Got(u).port = x[2] /\ recv_finished'[u] = recv_finished[u]
    BY <1>1, <1>2, <1>7, InOfIs, FromIs
  <2> QED BY <1>1, <1>4, <2>1, FlowForIs, TakesEofFrame
<1> QED BY <1>1, <1>10, <1>11, CodecSplit

LEMMA FilterEnds ==
  ASSUME Types, HistoryOK, OneWay, NEW u \in Filters, filter_ends(u),
         NEW y \in MuxDsts, Fed(y), u \in Path(y), NEW n \in [Dsts -> Nat], FlowFor(y, n)
  PROVE  FlowFor(y, n)'
<1>1. /\ u \in Threads /\ u \in Codecs /\ u \in Consumers /\ u \in Producers /\ u \notin Decs /\ ThreadNext(u) /\ Idle(u)
      /\ y \in Dsts
  BY Kinds, KindsOf DEF ThreadNext, FilterNext, filter_ends, MuxDsts
<1>2. Over(u)
  <2>1. CASE AllClosed(u)
    BY <2>1, AllClosedIsOver
  <2>2. CASE AllOutputsDone(u)
    BY <1>1, <2>2, NotDone
  <2> QED BY <2>1, <2>2 DEF filter_ends
<1>3. PICK rest : Ends(u, rest) /\ (rest = <<>> \/ rest = FilterSends(u, <<>>, close_output))
  BY DEF filter_ends
<1>4. pc'[u] = "draining" /\ todo'[u] = rest /\ UNCHANGED <<queue, recv_finished, held>>
  BY <1>1, <1>3 DEF filter_ends, Ends, Set, Types, TodoOK, PcOK, queueVars, dataVars
<1>5. Over(u)'
  BY <1>4 DEF Over
<1>6. FlowsFrom(y, u, n)'
  <2> SUFFICES ASSUME NEW x \in OnWay(y), NEW s, From(u, s, x) PROVE FlowAt(u, s, x, n)'
    BY DEF FlowsFrom
  <2>1. FlowAt(u, s, x, n) /\ x[1] \notin Filters
    BY <1>1, FlowForIs, NotToItself
  <2>2. held[u] = <<>> /\ held'[u] = <<>>
    BY <1>1, <1>2, <1>4, <2>1, NothingHeld
  <2>3. InTodo(u, x)' = <<>> /\ EndsLast(todo'[u], x)
    <3>1. CASE rest = <<>>
      BY <1>4, <3>1, EmptyTodo DEF EndsLast
    <3>2. CASE rest = FilterSends(u, <<>>, close_output)
      <4>1. PICK nums \in Seq(Nat) : nums = <<>>
        <5>1. <<>> \in Seq(Nat)
          OBVIOUS
        <5> QED BY <5>1
      <4>2. todo'[u] = FilterSends(u, nums, close_output)
        BY <1>4, <3>2, <4>1
      <4> QED BY <4>1, <4>2, CloseOutputIs, FilterPuts
    <3> QED BY <1>3, <3>1, <3>2
  <2>4. pc'[u] \in {"receiving", "draining"} /\ (Over(u) => Over(u)')
    BY <1>4, <1>5
  <2> QED BY <1>1, <1>5, <2>1, <2>2, <2>3, <2>4, FlushGives
<1>7. FlowsInto(y, u, n)'
  <2> SUFFICES ASSUME NEW x \in OnWay(y), NEW t, NEW s, x[1] = u, From(t, s, x) PROVE FlowAt(t, s, x, n)'
    BY DEF FlowsInto
  <2>1. /\ queue'[u] = queue[u] /\ recv_finished'[u] = recv_finished[u] /\ (Over(u) => Over(u)')
        /\ Over(u)' => Over(u) \/ x[2] \in recv_finished[u]
    BY <1>2, <1>4, <1>5
  <2> QED BY <1>1, <2>1, FlowForIs, TakesNothing
<1> QED BY <1>1, <1>6, <1>7, CodecSplit

LEMMA FlowFilter ==
  ASSUME Types, HistoryOK, OneWay, NEW u \in Filters, FilterNext(u),
         NEW y \in MuxDsts, NEW n \in [Dsts -> Nat], FlowFor(y, n), Undisturbed(y)'
  PROVE  \E m \in [Dsts -> Nat] : FlowFor(y, m)'
<1>1. u \in Threads /\ u \in Codecs /\ u \in Consumers /\ u \notin Decs /\ u \notin Demuxers /\ ThreadNext(u)
  BY Kinds, KindsOf DEF ThreadNext, Codecs, Consumers
<1>2. CASE u \notin Path(y)
  <2>1. u # y[1]
    BY Kinds DEF MuxDsts
  <2> QED BY <1>1, <1>2, <2>1, FlowUnseen
<1> SUFFICES ASSUME u \in Path(y), Fed(y) PROVE \E m \in [Dsts -> Nat] : FlowFor(y, m)'
  BY <1>2 DEF Undisturbed, Fed
<1>3. Idle(u)
  BY DEF FilterNext, filter_frame, filter_receive_finish, filter_eof_frame, filter_stream_eof, filter_ends, FilterReceives
<1>4. pc[u] = "receiving" /\ todo[u] = <<>> /\ ~Send(u) /\ ~demux_flush_eof(u)
  BY <1>1, <1>3 DEF Idle, Send, demux_flush_eof
<1>5. CASE filter_frame(u)
  <2>1. /\ Receives(u, "data") /\ SameState(u) /\ HasFormat(u, Got(u).port)
        /\ Feed(u, Append(held[u], Got(u).item.num))
    BY <1>5 DEF filter_frame, SameState
  <2>2. PICK k \in Nat : k = Got(u).item.num
    BY <1>1, <2>1, InFlow, CodecGets
  <2>3. Configured(u)'
    <3>1. Got(u).port = InOf(u)[2] /\ Ports[u] = {InOf(u)[2]}
      BY <1>1, <2>1, CodecPort
    <3>2. formats'[u] = formats[u] \cup {Got(u).port} /\ formats[u] \subseteq Ports[u]
      BY <2>1 DEF HasFormat, Types, DataOK
    <3> QED BY <3>1, <3>2 DEF Configured
  <2>4. PICK o \in Seq(Nat) : o = Out(u, k)
    BY <1>1, OutAndKeep
  <2>5. /\ todo' = Set(todo, u, FilterSends(u, o, <<>>))
        /\ held' = Set(held, u, Keep(u, k))
    BY <2>1, <2>2, <2>3, <2>4 DEF Feed, Out, Keep
  <2>6. todo'[u] = FilterSends(u, o, <<>>) /\ held'[u] = Keep(u, k)
    BY <1>1, <2>5 DEF Set, Types, TodoOK, DataOK
  <2>7. PICK closing \in Seq(ItemType) : closing = <<>> /\ \A i \in DOMAIN closing : closing[i].kind # "data"
    <3>1. <<>> \in Seq(ItemType) /\ \A i \in DOMAIN <<>> : <<>>[i].kind # "data"
      OBVIOUS
    <3> QED BY <3>1
  <2>8. \A x \in OnWay(y) : \A s : From(u, s, x) => InTodo(u, x)' = o /\ NoEnd(u, x)'
    <3>1. todo'[u] = FilterSends(u, o, closing)
      BY <2>6, <2>7
    <3>2. \A x \in OnWay(y) : \A s : From(u, s, x) =>
            InTodo(u, x)' = o /\ EndsLast(todo'[u], x) /\ (closing = <<>> => NoEnd(u, x)')
      BY <2>7, <3>1, FilterPuts
    <3> QED BY <2>7, <3>2
  <2> QED BY <1>1, <1>3, <2>1, <2>2, <2>4, <2>6, <2>8, DataFlows
<1>6. CASE filter_receive_finish(u)
  <2>1. <<u, Got(u).port>> \in ended'
    BY <1>6 DEF filter_receive_finish
  <2>2. <<u, Got(u).port>>[1] = u
    OBVIOUS
  <2> QED BY <2>1, <2>2 DEF Undisturbed, Disturbed
<1>7. CASE filter_eof_frame(u)
  <2>1. PICK kind \in {"eof", "empty"} : Receives(u, kind)
    BY <1>7 DEF filter_eof_frame
  <2> QED BY <1>7, <2>1, FilterEofFlow
<1>8. CASE filter_stream_eof(u)
  <2>1. ReceivesEof(u) /\ UNCHANGED <<pc, todo, held, eof_in>>
    BY <1>8 DEF filter_stream_eof
  <2>2. FlowsFrom(y, u, n)'
    BY <1>1, <1>4, <2>1, GivesSame DEF SameGiver, SameAt
  <2>3. FlowsInto(y, u, n)'
    <3> SUFFICES ASSUME NEW x \in OnWay(y), NEW t, NEW s, x[1] = u, From(t, s, x) PROVE FlowAt(t, s, x, n)'
      BY DEF FlowsInto
    <3>1. FirstEof(u) = x[2]
      BY <1>1, <2>1, CodecPort, InOfIs, FromIs DEF Types
    <3>2. (Over(u) => Over(u)') /\ (Over(u)' => Over(u) \/ FirstEof(u) = x[2]) /\ (u \in Filters => FirstEof(u) = x[2])
      BY <2>1, <3>1 DEF Over
    <3> QED BY <1>1, <2>1, <3>2, FlowForIs, TakesEnd
  <2> QED BY <1>1, <2>2, <2>3, CodecSplit
<1>9. CASE filter_ends(u)
  BY <1>9, FilterEnds
<1> QED BY <1>5, <1>6, <1>7, <1>8, <1>9 DEF FilterNext

(* encoder_thread().                                                       *)
LEMMA FlowEnc ==
  ASSUME Types, HistoryOK, OneWay, NEW u \in Encs, EncNext(u),
         NEW y \in MuxDsts, NEW n \in [Dsts -> Nat], FlowFor(y, n), Undisturbed(y)'
  PROVE  \E m \in [Dsts -> Nat] : FlowFor(y, m)'
<1>1. /\ u \in Threads /\ u \in Codecs /\ u \in Consumers /\ u \in Producers /\ ThreadNext(u)
      /\ u \notin Decs /\ u \notin Filters /\ u \notin Demuxers
  BY Kinds, KindsOf DEF ThreadNext, Codecs, Consumers
<1>2. CASE u \notin Path(y)
  <2>1. u # y[1]
    BY Kinds DEF MuxDsts
  <2> QED BY <1>1, <1>2, <2>1, FlowUnseen
<1> SUFFICES ASSUME u \in Path(y) PROVE \E m \in [Dsts -> Nat] : FlowFor(y, m)'
  BY <1>2
<1>3. Idle(u)
  BY DEF EncNext, enc_frame, enc_finishes, enc_eof
<1>4. pc[u] = "receiving" /\ ~Over(u)
  BY <1>1, <1>3 DEF Idle, Over
<1>5. CASE enc_frame(u)
  <2>1. Receives(u, "data") /\ Process(u) /\ SameState(u)
    BY <1>1, <1>5 DEF enc_frame, SameState
  <2> QED BY <1>1, <1>3, <2>1, ProcessFlows
<1>6. CASE enc_finishes(u)
  <2>1. <<u, 0>> \in ended'
    BY <1>6 DEF enc_finishes
  <2>2. <<u, 0>>[1] = u
    OBVIOUS
  <2> QED BY <2>1, <2>2 DEF Undisturbed, Disturbed
<1>7. CASE enc_eof(u) /\ u \notin opened
  BY <1>7 DEF enc_eof, Undisturbed, Disturbed
<1>8. CASE enc_eof(u) /\ u \in opened
  <2>1. ReceivesEof(u) /\ pc'[u] = "draining" /\ todo'[u] = Flushed(u) /\ held'[u] = <<>>
    BY <1>1, <1>8 DEF enc_eof, Ends, Set, Types, TodoOK, DataOK, PcOK
  <2>2. FlowsFrom(y, u, n)'
    <3> SUFFICES ASSUME NEW x \in OnWay(y), NEW s, From(u, s, x) PROVE FlowAt(u, s, x, n)'
      BY DEF FlowsFrom
    <3>1. PICK rest \in Seq(Errand) : rest = <<>>
      BY EmptyErrands DEF MaySend
    <3>2. todo'[u] = Flushed(u) \o rest /\ \A i \in DOMAIN rest : rest[i].item.kind \notin {"data", "close"}
      <4>1. Flushed(u) \in Seq(Errand)
        BY <1>1, FlushedType DEF MaySend
      <4> QED BY <2>1, <3>1, <4>1, ConcatEmptySeq
    <3>3. InTodo(u, x)' = held[u] /\ EndsLast(todo'[u], x) /\ NoEnd(u, x)'
      BY <1>1, <3>1, <3>2, FlushedGives
    <3>4. pc'[u] \in {"receiving", "draining"} /\ (Over(u) => Over(u)') /\ x[1] \notin Filters
      BY <1>1, <1>4, <2>1, NotToItself
    <3> QED BY <1>1, <1>3, <2>1, <3>3, <3>4, FlowForIs, FlushGives
  <2>3. FlowsInto(y, u, n)'
    <3> SUFFICES ASSUME NEW x \in OnWay(y), NEW t, NEW s, x[1] = u, From(t, s, x) PROVE FlowAt(t, s, x, n)'
      BY DEF FlowsInto
    <3>1. FirstEof(u) = x[2]
      BY <1>1, <2>1, CodecPort, InOfIs, FromIs DEF Types
    <3>2. (Over(u) => Over(u)') /\ (Over(u)' => Over(u) \/ FirstEof(u) = x[2]) /\ (u \in Filters => FirstEof(u) = x[2])
      BY <1>4, <3>1
    <3> QED BY <1>1, <2>1, <3>2, FlowForIs, TakesEnd
  <2> QED BY <1>1, <2>2, <2>3, CodecSplit
<1> QED BY <1>5, <1>6, <1>7, <1>8 DEF EncNext

(* muxer_thread(): only its own stream y is on the way of y.               *)
LEMMA MuxSplit ==
  ASSUME Types, HistoryOK, OneWay, NEW u \in Muxes, ThreadNext(u), NEW y \in MuxDsts, u = y[1],
         NEW n \in [Dsts -> Nat], FlowFor(y, n),
         NEW m \in [Dsts -> Nat], \A z \in Dsts : z # y => m[z] = n[z],
         \A t, s : From(t, s, y) => FlowAt(t, s, y, m)', muxed'[u][y[2]] = Upto(0, m[y])
  PROVE  FlowFor(y, m)'
<1>1. u \in Threads /\ u \notin Producers
  BY Kinds, KindsOf DEF Producers, Consumers
<1>2. \A x \in OnWay(y) : \A s : From(u, s, x) => FlowAt(u, s, x, m)'
  BY <1>1, FromIs
<1>3. \A x \in OnWay(y) : \A t, s : x[1] = u /\ From(t, s, x) => FlowAt(t, s, x, m)'
  BY OnWayMuxes
<1>4. \A x \in Dsts : x[1] # u => m[x] = n[x]
  OBVIOUS
<1> QED BY <1>1, <1>2, <1>3, <1>4, FlowSplit

LEMMA MuxWrites ==
  ASSUME Types, HistoryOK, OneWay, NEW u \in Muxes, mux_packet(u), NEW y \in MuxDsts, u = y[1], Got(u).port = y[2],
         NEW n \in [Dsts -> Nat], FlowFor(y, n)
  PROVE  \E m \in [Dsts -> Nat] : FlowFor(y, m)'
<1>1. u \in Threads /\ u \in Consumers /\ u \notin Filters /\ y \in Dsts /\ y \in OnWay(y) /\ ThreadNext(u)
  BY Kinds, KindsOf DEF ThreadNext, MuxNext, MuxDsts, OnWay
<1>2. PICK m : m = [n EXCEPT ![y] = n[y] + 1]
  OBVIOUS
<1>3. m \in [Dsts -> Nat] /\ m[y] = n[y] + 1 /\ n[y] \in Nat /\ \A x \in Dsts : x # y => m[x] = n[x]
  BY <1>1, <1>2
<1>4. Receives(u, "data") /\ pc'[u] = pc[u] /\ recv_finished'[u] = recv_finished[u]
  BY DEF mux_packet
<1>5. SameState(u)
  BY <1>1, <1>4 DEF SameState
<1>6. ASSUME NEW t, NEW s, From(t, s, y) PROVE FlowAt(t, s, y, m)'
  <2>1. FlowAt(t, s, y, n)
    BY <1>1, <1>6, FlowForIs
  <2>2. \A z \in Dsts : z[1] # u => m[z] = n[z]
    BY <1>3
  <2> QED BY <1>1, <1>3, <1>4, <1>5, <1>6, <2>1, <2>2, TakesData
<1>7. Got(u).item.num = n[y] + 1
  <2>1. PICK t : y \in DstsFrom(t)
    BY <1>1 DEF OneWay
  <2>2. PICK s : From(t, s, y)
    BY <2>1, FromSome
  <2>3. FlowAt(t, s, y, n)
    BY <1>1, <2>2, FlowForIs
  <2>4. ClosedWhenOver(t, y) /\ Flows(t, s, y, n)
    BY <2>3 DEF FlowAt
  <2>5. /\ InQueue(y)' \in Seq(Nat) /\ Got(u).item.num \in Nat
        /\ InQueue(y) = <<Got(u).item.num>> \o InQueue(y)'
    <3>1. Receives(y[1], "data")
      BY <1>4
    <3> QED BY <1>1, <2>4, <3>1, TakenFrom
  <2>6. PICK k \in Nat : k = Got(u).item.num
    BY <2>5
  <2>7. InQueue(y) = <<k>> \o InQueue(y)'
    BY <2>5, <2>6
  <2>8. Flows(t, s, y, n)
    BY <2>4, Zenon
  <2>9. InQueue(y)' \in Seq(Nat)
    BY <2>5, Zenon
  <2>10. k = n[y] + 1
    BY <2>2, <2>7, <2>8, <2>9, NumberTaken, ZenonT(60)
  <2> QED BY <2>6, <2>10
<1>8. muxed'[u][y[2]] = Upto(0, m[y])
  <2>1. y[2] \in Ports[u]
    BY <1>1, DstsType
  <2>2. muxed'[u][y[2]] = Append(muxed[u][y[2]], Got(u).item.num)
    BY <2>1 DEF mux_packet, HistoryOK
  <2>3. muxed[u][y[2]] = Upto(0, n[y])
    BY DEF FlowFor
  <2>4. Upto(0, n[y]) \in Seq(Nat)
    BY <1>3, UptoType
  <2>5. Append(Upto(0, n[y]), n[y] + 1) = Upto(0, n[y]) \o <<n[y] + 1>>
    BY <1>3, <2>4, AppendIs
  <2>6. Upto(0, n[y]) \o <<n[y] + 1>> = Upto(0, n[y] + 1)
    BY <1>3, UptoMore
  <2> QED BY <1>3, <1>7, <2>2, <2>3, <2>5, <2>6, Zenon
<1> QED BY <1>1, <1>3, <1>6, <1>8, MuxSplit

LEMMA FlowMux ==
  ASSUME Types, HistoryOK, OneWay, NEW u \in Muxes, MuxNext(u),
         NEW y \in MuxDsts, NEW n \in [Dsts -> Nat], FlowFor(y, n), Undisturbed(y)'
  PROVE  \E m \in [Dsts -> Nat] : FlowFor(y, m)'
<1>1. /\ u \in Threads /\ u \in Consumers /\ u \notin Filters /\ u \notin Producers /\ ThreadNext(u)
      /\ y \in Dsts /\ y[2] \in Ports[y[1]] /\ y = <<y[1], y[2]>> /\ y \in OnWay(y)
  BY Kinds, KindsOf, DstsType DEF ThreadNext, MuxDsts, Producers, Consumers, OnWay
<1>2. CASE u # y[1]
  BY <1>1, <1>2, FlowUnseen DEF Path
<1> SUFFICES ASSUME u = y[1] PROVE \E m \in [Dsts -> Nat] : FlowFor(y, m)'
  BY <1>2
<1>3. CASE mux_packet(u) /\ Got(u).port = y[2]
  BY <1>3, MuxWrites
<1>4. ASSUME NEW kind, Receives(u, kind), Got(u).port # y[2], pc'[u] = pc[u],
             y[2] \in recv_finished'[u] => y[2] \in recv_finished[u],
             muxed'[u][y[2]] = muxed[u][y[2]]
      PROVE  FlowFor(y, n)'
  <2>1. ASSUME NEW t, NEW s, From(t, s, y) PROVE FlowAt(t, s, y, n)'
    <3>1. FlowAt(t, s, y, n)
      BY <1>1, <2>1, FlowForIs
    <3> QED BY <1>1, <1>4, <2>1, <3>1, TakesOther
  <2> QED BY <1>1, <1>4, <2>1, MuxSplit DEF FlowFor
<1>5. CASE mux_packet(u) /\ Got(u).port # y[2]
  <2>1. Receives(u, "data") /\ pc' = pc /\ recv_finished' = recv_finished
    BY <1>5 DEF mux_packet
  <2>2. muxed'[u][y[2]] = muxed[u][y[2]]
    BY <1>1, <1>5 DEF mux_packet, HistoryOK
  <2> QED BY <1>4, <1>5, <2>1, <2>2
<1>6. CASE mux_receive_finish(u)
  <2>1. /\ Receives(u, "data") /\ pc' = pc /\ muxed' = muxed
        /\ recv_finished' = [recv_finished EXCEPT ![u] = recv_finished[u] \cup {Got(u).port}]
        /\ <<u, Got(u).port>> \in ended'
    BY <1>6 DEF mux_receive_finish
  <2>2. Got(u).port # y[2]
    BY <1>1, <2>1 DEF Undisturbed
  <2>3. recv_finished'[u] = recv_finished[u] \cup {Got(u).port}
    BY <1>1, <2>1 DEF Types, FlagsOK
  <2> QED BY <1>4, <2>1, <2>2, <2>3
<1>7. CASE mux_finishes(u)
  BY <1>7 DEF mux_finishes, Undisturbed
<1>8. CASE mux_eof(u) /\ ReceivesEof(u) /\ UNCHANGED <<pc, todo>>
  <2>1. ASSUME NEW t, NEW s, From(t, s, y) PROVE FlowAt(t, s, y, n)'
    <3>1. FlowAt(t, s, y, n)
      BY <1>1, <2>1, FlowForIs
    <3>2. Over(u)' <=> Over(u)
      BY <1>1, <1>8 DEF Over
    <3> QED BY <1>1, <1>8, <2>1, <3>1, <3>2, TakesEnd
  <2>2. muxed' = muxed
    BY <1>8 DEF mux_eof
  <2> QED BY <1>1, <2>1, <2>2, MuxSplit DEF FlowFor
<1>9. CASE mux_eof(u) /\ AllClosed(u) /\ Ends(u, <<>>) /\ UNCHANGED <<queue, recv_finished>>
  <2>1. ASSUME NEW t, NEW s, From(t, s, y) PROVE FlowAt(t, s, y, n)'
    <3>1. FlowAt(t, s, y, n)
      BY <1>1, <2>1, FlowForIs
    <3>2. y[2] \in recv_finished[u]
      BY <1>1, <1>9 DEF AllClosed
    <3>3. pc'[u] = "draining"
      BY <1>1, <1>9 DEF Ends, Set, Types, PcOK
    <3>4. Over(u)'
      BY <3>3 DEF Over
    <3> QED BY <1>1, <1>9, <2>1, <3>1, <3>2, <3>4, TakesNothing
  <2>2. muxed' = muxed
    BY <1>9 DEF mux_eof
  <2> QED BY <1>1, <2>1, <2>2, MuxSplit DEF FlowFor
<1> QED BY <1>3, <1>5, <1>6, <1>7, <1>8, <1>9 DEF MuxNext, mux_eof

-----------------------------------------------------------------------------
(* The whole step.                                                         *)
LEMMA ThreadFlow ==
  ASSUME Types, HistoryOK, OneWay, WaitsInv, NEW u \in Threads, ThreadNext(u) \/ task_fails(u),
         NEW y \in MuxDsts, NEW n \in [Dsts -> Nat], FlowFor(y, n), Undisturbed(y)'
  PROVE  \E m \in [Dsts -> Nat] : FlowFor(y, m)'
<1>1. CASE Send(u)
  BY <1>1, FlowSend
<1> SUFFICES ASSUME ~Send(u) PROVE \E m \in [Dsts -> Nat] : FlowFor(y, m)'
  BY <1>1
<1>2. CASE task_fails(u)
  BY <1>2, FlowFails
<1>3. CASE task_cleanup(u)
  BY <1>3, FlowCleanup
<1>4. CASE u \in Demuxers /\ DemuxNext(u)
  BY <1>4, FlowDemux
<1>5. CASE u \in Decs /\ DecNext(u)
  BY <1>5, FlowDec
<1>6. CASE u \in Filters /\ FilterNext(u)
  BY <1>6, FlowFilter
<1>7. CASE u \in Encs /\ EncNext(u)
  BY <1>7, FlowEnc
<1>8. CASE u \in Muxes /\ MuxNext(u)
  BY <1>8, FlowMux
<1>9. CASE u \in Consumers /\ tq_drop(u)
  BY <1>9, FlowDrop
<1> QED BY <1>2, <1>3, <1>4, <1>5, <1>6, <1>7, <1>8, <1>9 DEF ThreadNext

LEMMA NothingMoves ==
  ASSUME UNCHANGED <<pc, todo, queueVars, dataVars, muxed>>, NEW y, NEW n, FlowFor(y, n)
  PROVE  FlowFor(y, n)'
<1>1. UNCHANGED <<pc, todo, queue, send_finished, recv_finished, dst_finished, held, eof_in, nb_read, muxed>>
  BY DEF queueVars, dataVars
<1>2. \A t : Over(t)' <=> Over(t)
  BY <1>1 DEF Over
<1>3. \A x, t : InQueue(x)' = InQueue(x) /\ InTodo(t, x)' = InTodo(t, x) /\ Held(t)' = Held(t)
  BY <1>1 DEF InQueue, InTodo, Held
<1>4. ASSUME NEW t, NEW s, NEW x, FlowAt(t, s, x, n) PROVE FlowAt(t, s, x, n)'
  <2>1. Flows(t, s, x, n)'
    BY <1>1, <1>3, <1>4 DEF FlowAt, Flows, Whole, Coming
  <2>2. LastToSend(t, x)'
    BY <1>1, <1>2, <1>3, <1>4 DEF FlowAt, LastToSend
  <2>3. ClosedWhenOver(t, x)'
    BY <1>1, <1>2, <1>3, <1>4 DEF FlowAt, ClosedWhenOver, Drained
  <2>4. x[1] \in Filters => EofFirst(t, x)'
    <3>1. (EofQueued(x)' <=> EofQueued(x)) /\ (NoDataAfterEof(x)' <=> NoDataAfterEof(x))
          /\ (EofToSend(t, x)' <=> EofToSend(t, x))
      BY <1>1 DEF EofQueued, NoDataAfterEof, EofToSend
    <3> QED BY <1>1, <1>2, <1>3, <1>4, <3>1 DEF FlowAt, EofFirst
  <2> QED BY <2>1, <2>2, <2>3, <2>4 DEF FlowAt
<1> QED BY <1>1, <1>4 DEF FlowFor

LEMMA NextFlow ==
  ASSUME Types, HistoryOK, OneWay, WaitsInv, FlowInv, [Next]_vars
  PROVE  FlowInv'
<1> SUFFICES ASSUME NEW y \in MuxDsts, Undisturbed(y)' PROVE \E n \in [Dsts -> Nat] : FlowFor(y, n)'
  BY DEF FlowInv
<1>1. CASE \E u \in Threads : ThreadNext(u) \/ task_fails(u)
  <2>1. PICK u \in Threads : ThreadNext(u) \/ task_fails(u)
    BY <1>1
  <2>2. Undisturbed(y)
    BY <2>1, Footprint, UndisturbedBefore
  <2>3. PICK n \in [Dsts -> Nat] : FlowFor(y, n)
    BY <2>2 DEF FlowInv
  <2> QED BY <2>1, <2>3, ThreadFlow
<1>2. CASE UNCHANGED <<pc, todo, queueVars, dataVars, historyVars>>
  <2>1. Undisturbed(y)
    BY <1>2 DEF historyVars, Undisturbed, Disturbed
  <2>2. PICK n \in [Dsts -> Nat] : FlowFor(y, n)
    BY <2>1 DEF FlowInv
  <2>3. UNCHANGED <<pc, todo, queueVars, dataVars, muxed>>
    BY <1>2 DEF historyVars
  <2> QED BY <2>2, <2>3, NothingMoves
<1>3. sch_stop \/ StopJoin \/ UNCHANGED vars => UNCHANGED <<pc, todo, queueVars, dataVars, historyVars>>
  BY DEF sch_stop, StopJoin, vars
<1> QED BY <1>1, <1>2, <1>3 DEF Next

LEMMA InitFlow ==
  ASSUME Init, OneWay
  PROVE  FlowInv
<1> SUFFICES ASSUME NEW y \in MuxDsts PROVE \E n \in [Dsts -> Nat] : FlowFor(y, n)
  BY DEF FlowInv
<1>1. PICK n : n = [x \in Dsts |-> 0]
  OBVIOUS
<1>2. n \in [Dsts -> Nat] /\ \A x \in Dsts : n[x] = 0
  BY <1>1
<1>3. Upto(0, 0) = <<>>
  BY DEF Upto
<1>4. ASSUME NEW x, NEW t, NEW s, From(t, s, x) PROVE FlowAt(t, s, x, n)
  <2>1. /\ x \in Dsts /\ x[1] \in Consumers /\ t \in Threads /\ t \in Producers /\ s \in DOMAIN Outs[t]
        /\ x[1] \in Threads /\ x[2] \in Ports[x[1]]
    BY <1>4, FromIs
  <2>2. /\ queue[x[1]] = <<>> /\ todo[t] = <<>> /\ Held(t) = <<>> /\ pc[t] = "receiving" /\ pc[x[1]] = "receiving"
        /\ send_finished[x[1]] = {} /\ recv_finished[x[1]] = {} /\ dst_finished = {}
        /\ t \in Demuxers => nb_read[t][s] = 0
    BY <2>1 DEF Init, Held
  <2>3. InQueue(x) = <<>> /\ InTodo(t, x) = <<>> /\ Coming(t, x) = <<>> /\ InQueue(x) \o Coming(t, x) = <<>>
    <3>1. InQueue(x) = <<>> /\ InTodo(t, x) = <<>>
      BY <2>2, PickedEmpty DEF InQueue, InTodo
    <3> QED BY <2>2, <3>1, ConcatEmptySeq DEF Coming
  <2>4. Whole(t, s, n) = 0 /\ n[x] = 0
    <3>1. t \notin Demuxers => InOf(t) \in Dsts
      BY <2>1, InOfIs DEF Producers, Codecs
    <3> QED BY <1>2, <2>1, <2>2, <3>1 DEF Whole
  <2>5. Flows(t, s, x, n)
    BY <1>3, <2>3, <2>4 DEF Flows
  <2>6. ~Over(x[1]) /\ \A i : i \notin DOMAIN queue[x[1]] /\ i \notin DOMAIN todo[t]
    <3>1. x[1] \in Filters => eof_in[x[1]] # Ports[x[1]]
      BY <2>1 DEF Init
    <3> QED BY <2>2, <3>1 DEF Over
  <2>7. LastToSend(t, x)
    BY <2>2, <2>6 DEF LastToSend
  <2>8. ClosedWhenOver(t, x)
    BY <2>2, <2>6 DEF ClosedWhenOver
  <2>9. EofFirst(t, x)
    BY <2>2, <2>6 DEF EofFirst, EofQueued, NoDataAfterEof
  <2> QED BY <2>5, <2>7, <2>8, <2>9 DEF FlowAt
<1>5. muxed[y[1]][y[2]] = Upto(0, n[y])
  <2>1. y \in Dsts /\ y[2] \in Ports[y[1]] /\ y[1] \in Muxes
    BY DstsType DEF MuxDsts
  <2> QED BY <1>2, <1>3, <2>1 DEF Init
<1> QED BY <1>2, <1>4, <1>5 DEF FlowFor

LEMMA HistoryStays ==
  ASSUME Types, HistoryOK, [Next]_vars
  PROVE  HistoryOK'
<1>1. CASE UNCHANGED <<eof_in, muxed>>
  BY <1>1 DEF HistoryOK
<1>2. ASSUME NEW f \in Filters, filter_eof_frame(f) PROVE HistoryOK'
  <2>1. f \in Consumers /\ (Receives(f, "eof") \/ Receives(f, "empty"))
    BY <1>2, KindsOf DEF filter_eof_frame, Consumers
  <2>2. Got(f).port \in Ports[f] /\ Ports[f] \subseteq Nat
    BY <2>1, ReceivesType, PortsType
  <2> QED BY <1>2, <2>2 DEF HistoryOK, filter_eof_frame, FilterUnchanged
<1>3. ASSUME NEW m \in Muxes, mux_packet(m) PROVE HistoryOK'
  BY <1>3 DEF HistoryOK, mux_packet, MuxUnchanged, dataVars
<1>4. ASSUME NEW u \in Threads, ThreadNext(u) \/ task_fails(u),
             ~(u \in Filters /\ filter_eof_frame(u)), ~(u \in Muxes /\ mux_packet(u))
      PROVE  UNCHANGED <<eof_in, muxed>>
  <2>1. CASE Send(u) \/ task_cleanup(u) \/ task_fails(u) \/ tq_drop(u)
    BY <2>1, Zenon DEF Send, task_cleanup, task_fails, tq_drop, dataVars, historyVars
  <2>2. CASE u \in Demuxers /\ DemuxNext(u)
    BY <2>2, Zenon DEF DemuxNext, demux_read, demux_ends, demux_loop, demux_flush_eof, demux_flush, demux_end_ts,
                seek_to_start, InputUnchanged, dataVars, historyVars
  <2>3. CASE u \in Decs /\ DecNext(u)
    BY <2>3 DEF DecNext, dec_end_ts, dec_packet, dec_flush, dec_eof, dec_exit, DecUnchanged, dataVars, historyVars
  <2>4. CASE u \in Filters /\ FilterNext(u)
    BY <1>4, <2>4 DEF FilterNext, filter_frame, filter_receive_finish, filter_stream_eof, filter_ends, FilterUnchanged,
                      dataVars, historyVars
  <2>5. CASE u \in Encs /\ EncNext(u)
    BY <2>5 DEF EncNext, enc_frame, enc_finishes, enc_eof, EncUnchanged
  <2>6. CASE u \in Muxes /\ MuxNext(u)
    BY <1>4, <2>6 DEF MuxNext, mux_receive_finish, mux_finishes, mux_eof, MuxUnchanged, dataVars
  <2> QED BY <1>4, <2>1, <2>2, <2>3, <2>4, <2>5, <2>6 DEF ThreadNext
<1>5. sch_stop \/ StopJoin \/ UNCHANGED vars => UNCHANGED <<eof_in, muxed>>
  BY DEF sch_stop, StopJoin, vars, dataVars, historyVars
<1> QED BY <1>1, <1>2, <1>3, <1>4, <1>5 DEF Next

-----------------------------------------------------------------------------
(* sch_stop() returns when all threads are gone; nothing moves after that. *)
StartedInv == \A m \in Muxes : pc[m] = "receiving" \/ Started(m)
StoppedInv == main = "stopped" => \A t \in Threads : Done(t) \/ (t \in Muxes /\ ~Started(t))

LEMMA OpenedStays ==
  ASSUME [Next]_vars
  PROVE  opened \subseteq opened' /\ \A m : Started(m) => Started(m)'
<1>1. ASSUME NEW u \in Threads, Send(u) PROVE opened \subseteq opened'
  BY <1>1 DEF Send, Opens
<1>2. ASSUME NEW u \in Threads, ThreadNext(u) \/ task_fails(u), ~Send(u) PROVE opened' = opened
  <2>1. CASE task_cleanup(u) \/ task_fails(u) \/ tq_drop(u)
    BY <2>1, Zenon DEF task_cleanup, task_fails, tq_drop, dataVars
  <2>2. CASE u \in Demuxers /\ DemuxNext(u)
    BY <2>2, Zenon DEF DemuxNext, demux_read, demux_ends, demux_loop, demux_flush_eof, demux_flush, demux_end_ts,
                seek_to_start, InputUnchanged, dataVars
  <2>3. CASE u \in Decs /\ DecNext(u)
    BY <2>3 DEF DecNext, dec_end_ts, dec_packet, dec_flush, dec_eof, dec_exit, DecUnchanged, dataVars
  <2>4. CASE u \in Filters /\ FilterNext(u)
    BY <2>4 DEF FilterNext, filter_frame, filter_receive_finish, filter_eof_frame, filter_stream_eof, filter_ends,
                FilterUnchanged, dataVars
  <2>5. CASE u \in Encs /\ EncNext(u)
    BY <2>5 DEF EncNext, enc_frame, enc_finishes, enc_eof, EncUnchanged
  <2>6. CASE u \in Muxes /\ MuxNext(u)
    BY <2>6 DEF MuxNext, mux_packet, mux_receive_finish, mux_finishes, mux_eof, MuxUnchanged, dataVars
  <2> QED BY <1>2, <2>1, <2>2, <2>3, <2>4, <2>5, <2>6 DEF ThreadNext
<1>3. sch_stop \/ StopJoin \/ UNCHANGED vars => opened' = opened
  BY DEF sch_stop, StopJoin, vars, dataVars
<1>4. opened \subseteq opened'
  BY <1>1, <1>2, <1>3 DEF Next
<1> QED BY <1>4 DEF Started, EncsOf

LEMMA NextStarted ==
  ASSUME Types, StartedInv, [Next]_vars
  PROVE  StartedInv'
<1> SUFFICES ASSUME NEW m \in Muxes PROVE pc'[m] = "receiving" \/ Started(m)'
  BY DEF StartedInv
<1>1. CASE Started(m)
  BY <1>1, OpenedStays
<1>2. CASE pc[m] = "receiving" /\ ~Started(m)
  <2>1. ASSUME NEW u \in Threads \ {m}, ThreadNext(u) \/ task_fails(u) PROVE pc'[m] = pc[m]
    BY <2>1, OnlySelf, KindsOf DEF SameAt
  <2>2. ASSUME ThreadNext(m) \/ task_fails(m) PROVE pc'[m] = pc[m]
    <3>1. m \notin Demuxers /\ m \notin Decs /\ m \notin Filters /\ m \notin Encs
      BY Kinds DEF Consumers
    <3> QED BY <1>2, <2>2, <3>1 DEF ThreadNext, task_fails, Send, task_cleanup, tq_drop,
              MuxNext, mux_packet, mux_receive_finish, mux_finishes, mux_eof, MuxReceives
  <2>3. sch_stop \/ StopJoin \/ UNCHANGED vars => pc' = pc
    BY DEF sch_stop, StopJoin, vars
  <2> QED BY <1>2, <2>1, <2>2, <2>3 DEF Next
<1> QED BY <1>1, <1>2 DEF StartedInv

LEMMA NextStopped ==
  ASSUME Types, StartedInv, StoppedInv, [Next]_vars
  PROVE  StoppedInv'
<1>1. ASSUME main = "stopped", NEW u \in Threads, ThreadNext(u) \/ task_fails(u) PROVE FALSE
  <2>1. Done(u) \/ (u \in Muxes /\ ~Started(u))
    BY <1>1 DEF StoppedInv
  <2>2. CASE Done(u)
    <3>1. pc[u] = "cleanup" /\ todo[u] = <<>>
      BY <2>2 DEF Done
    <3> QED BY <1>1, <3>1
          DEF ThreadNext, task_fails, Send, task_cleanup, tq_drop, Idle,
              DemuxNext, demux_read, demux_ends, demux_loop, demux_flush_eof, demux_flush, demux_end_ts, seek_to_start,
              DecNext, dec_end_ts, dec_packet, dec_flush, dec_eof, dec_exit, DecReceives,
              FilterNext, filter_frame, filter_receive_finish, filter_eof_frame, filter_stream_eof, filter_ends,
              FilterReceives, EncNext, enc_frame, enc_finishes, enc_eof,
              MuxNext, mux_packet, mux_receive_finish, mux_finishes, mux_eof, MuxReceives
  <2>3. CASE u \in Muxes /\ ~Started(u)
    <3>1. pc[u] = "receiving"
      BY <2>3 DEF StartedInv
    <3>2. u \notin Demuxers /\ u \notin Decs /\ u \notin Filters /\ u \notin Encs /\ u \notin Producers
      BY <2>3, Kinds DEF Consumers, Producers
    <3>3. todo[u] = <<>>
      BY <3>2, SendHead
    <3> QED BY <1>1, <2>3, <3>1, <3>2, <3>3 DEF ThreadNext, task_fails, Send, task_cleanup, tq_drop,
              MuxNext, mux_packet, mux_receive_finish, mux_finishes, mux_eof, MuxReceives
  <2> QED BY <2>1, <2>2, <2>3
<1>2. CASE StopJoin
  BY <1>2 DEF StopJoin, StoppedInv, Done, Started, dataVars
<1>3. CASE UNCHANGED vars
  BY <1>3 DEF vars, dataVars, mainVars, StoppedInv, Done, Started
<1>4. sch_stop => main' # "stopped"
  BY DEF sch_stop
<1>5. ASSUME NEW u \in Threads, ThreadNext(u) \/ task_fails(u) PROVE main' = main
  <2>1. CASE Send(u) \/ task_cleanup(u) \/ task_fails(u) \/ tq_drop(u)
    BY <2>1, Zenon DEF Send, task_cleanup, task_fails, tq_drop, mainVars
  <2>2. CASE u \in Demuxers /\ DemuxNext(u)
    BY <2>2, Zenon DEF DemuxNext, demux_read, demux_ends, demux_loop, demux_flush_eof, demux_flush, demux_end_ts,
                seek_to_start, mainVars
  <2>3. CASE u \in Decs /\ DecNext(u)
    BY <2>3 DEF DecNext, dec_end_ts, dec_packet, dec_flush, dec_eof, dec_exit, DecUnchanged, mainVars
  <2>4. CASE u \in Filters /\ FilterNext(u)
    BY <2>4 DEF FilterNext, filter_frame, filter_receive_finish, filter_eof_frame, filter_stream_eof, filter_ends,
                FilterUnchanged, mainVars
  <2>5. CASE u \in Encs /\ EncNext(u)
    BY <2>5 DEF EncNext, enc_frame, enc_finishes, enc_eof, EncUnchanged, mainVars
  <2>6. CASE u \in Muxes /\ MuxNext(u)
    BY <2>6 DEF MuxNext, mux_packet, mux_receive_finish, mux_finishes, mux_eof, MuxUnchanged, mainVars
  <2> QED BY <1>5, <2>1, <2>2, <2>3, <2>4, <2>5, <2>6 DEF ThreadNext
<1> QED BY <1>1, <1>2, <1>3, <1>4, <1>5 DEF Next, StoppedInv

(* When all are gone, everything that came onto the way has been received. *)
LEMMA AllReceived ==
  ASSUME Types, OneWay, StoppedInv, main = "stopped", NEW y \in MuxDsts, Started(y[1]),
         NEW n \in [Dsts -> Nat], FlowFor(y, n),
         NEW x \in OnWay(y), NEW t, NEW s, From(t, s, x)
  PROVE  Whole(t, s, n) = n[x]
<1>1. x[1] \in Threads
  BY FromIs
<1>2. Done(x[1])
  <2>1. CASE x = y
    BY <1>1, <2>1 DEF StoppedInv
  <2>2. CASE x[1] \in Path(y)
    <3>1. x[1] \notin Muxes
      BY <2>2, Kinds DEF Path, Producers, Consumers
    <3> QED BY <1>1, <3>1 DEF StoppedInv
  <2> QED BY <2>1, <2>2 DEF OnWay
<1>3. FlowAt(t, s, x, n)
  BY FlowForIs
<1>4. Over(x[1])
  BY <1>2 DEF Done, Over
<1>5. Drained(t, x) /\ Over(t)
  BY <1>3, <1>4 DEF FlowAt, ClosedWhenOver, Drained
<1>6. InQueue(x) = <<>> /\ InTodo(t, x) = <<>> /\ Held(t) = <<>>
  BY <1>3, <1>5 DEF FlowAt, LastToSend, Drained
<1>7. InQueue(x) \o Coming(t, x) = <<>>
  BY <1>6, ConcatEmptySeq DEF Coming
<1>8. n[x] \in Nat /\ Whole(t, s, n) \in Nat
  BY FlowTypes
<1>9. n[x] <= Whole(t, s, n) /\ Upto(n[x], Whole(t, s, n)) = <<>>
  BY <1>3, <1>7 DEF FlowAt, Flows
<1> QED BY <1>8, <1>9, UptoNone

(* As many all along the way, and as many as were read.                    *)
LEMMA AllMuxedIs ==
  ASSUME Types, OneWay, StoppedInv, main = "stopped", NEW y \in MuxDsts, Started(y[1]),
         NEW n \in [Dsts -> Nat], FlowFor(y, n)
  PROVE  ReadFor(y) = n[y]
<1>0. y \in Dsts
  BY DEF MuxDsts
<1> DEFINE T == {t \in Producers : t \in Demuxers \/ n[InOf(t)] = n[y]}
<1>1. ASSUME NEW x \in OnWay(y), x = y \/ x[1] \in T PROVE n[x] = n[y]
  <2>1. CASE x[1] \in T /\ x # y
    <3>1. x \in Dsts /\ x[1] \in Consumers /\ x[1] \in Producers
      BY <2>1, DstsType DEF OnWay
    <3>2. x[1] \notin Demuxers /\ x[1] \in Codecs
      BY <3>1, KindsOf DEF Producers, Codecs
    <3>3. x = InOf(x[1])
      BY <3>1, <3>2, InOfIs
    <3> QED BY <2>1, <3>2, <3>3
  <2> QED BY <1>1, <2>1
<1>2. T \in SUBSET Producers
  OBVIOUS
<1>3. ASSUME NEW t \in Producers, NEW s, NEW x \in OnWay(y), From(t, s, x), x = y \/ x[1] \in T
      PROVE  t \in T
  <2>1. Whole(t, s, n) = n[x]
    BY <1>3, AllReceived
  <2> QED BY <1>1, <1>3, <2>1 DEF Whole
<1>4. Path(y) \subseteq T
  <2> HIDE DEF T
  <2> QED BY <1>0, <1>2, <1>3, PathIn
<1>5. ASSUME NEW d \in Demuxers, NEW s, NEW x \in OnWay(y), From(d, s, x) PROVE nb_read[d][s] = n[y]
  <2>1. Whole(d, s, n) = n[x]
    BY <1>5, AllReceived
  <2>2. x = y \/ x[1] \in T
    BY <1>4 DEF OnWay
  <2>3. n[x] = n[y]
    BY <1>1, <2>2
  <2> QED BY <2>1, <2>3 DEF Whole
<1> HIDE DEF T
<1> DEFINE streams == UNION {{t} \X DOMAIN Outs[t] : t \in Demuxers}
           Source(x) == x[1] \in Path(y) /\ \E o \in Range(Outs[x[1]][x[2]]) : o = y \/ o[1] \in Path(y)
<1>6. \E x \in streams : Source(x)
  <2>1. PICK d \in Path(y) : d \in Demuxers
    BY DEF OneWay
  <2>2. PICK s : \E o \in OnWay(y) : From(d, s, o)
    BY <1>0, PathSends
  <2>3. PICK o \in OnWay(y) : From(d, s, o)
    BY <2>2
  <2>4. <<d, s>> \in streams
    BY <2>1, <2>3, FromIs
  <2>5. Source(<<d, s>>)
    BY <2>1, <2>3 DEF From, OnWay
  <2> QED BY <2>4, <2>5
<1>7. ASSUME NEW x \in streams, Source(x) PROVE nb_read[x[1]][x[2]] = n[y]
  <2>1. x[1] \in Demuxers /\ x[2] \in DOMAIN Outs[x[1]] /\ x[1] \in Producers
    BY KindsOf
  <2>2. PICK o \in Range(Outs[x[1]][x[2]]) : o = y \/ o[1] \in Path(y)
    BY <1>7
  <2>3. From(x[1], x[2], o)
    BY <2>1, <2>2 DEF From
  <2>4. o \in OnWay(y)
    BY <2>2, <2>3, FromIs DEF OnWay
  <2> QED BY <1>5, <2>1, <2>3, <2>4
<1> HIDE DEF streams, Source
<1> DEFINE source == CHOOSE x \in streams : Source(x)
<1>8. source \in streams /\ Source(source)
  BY <1>6
<1>9. ReadFor(y) = nb_read[source[1]][source[2]]
  BY DEF ReadFor, streams, Source
<1> HIDE DEF source
<1> QED BY <1>7, <1>8, <1>9

(* sch_stop(): what was read from an input is muxed in full and in order   *)
(* on all streams on whose way nobody failed or ended early, whoever did   *)
(* elsewhere, in every graph that OneWay describes.                        *)
THEOREM NothingIsLost ==
  ASSUME OneWay
  PROVE  Spec => []NothingLost
<1>1. Init => HistoryOK /\ FlowInv /\ WaitsInv /\ StartedInv /\ StoppedInv
  <2> SUFFICES ASSUME Init PROVE HistoryOK /\ FlowInv /\ WaitsInv /\ StartedInv /\ StoppedInv
    OBVIOUS
  <2>1. HistoryOK
    BY DEF Init, HistoryOK
  <2>2. WaitsInv /\ StartedInv /\ StoppedInv
    BY KindsOf DEF Init, WaitsInv, StartedInv, StoppedInv
  <2> QED BY <2>1, <2>2, InitFlow
<1>2. ASSUME Types, FlowInv, StoppedInv PROVE NothingLost
  <2> SUFFICES ASSUME main = "stopped", NEW m \in Muxes, Started(m), NEW p \in Ports[m],
                      ~(<<m, p>> \in ended \/ <<m, 0>> \in ended \/ m \in failed),
                      ~\E t \in Path(<<m, p>>) : Disturbed(t),
                      InputsOf(Path(<<m, p>>)) \cap NoFrames = {}
               PROVE  muxed[m][p] = [i \in 1 .. ReadFor(<<m, p>>) |-> i]
    BY DEF NothingLost
  <2>1. PICK y : y = <<m, p>>
    OBVIOUS
  <2>2. y \in MuxDsts /\ y[1] = m /\ y[2] = p
    BY <2>1, KindsOf, PortsType DEF MuxDsts
  <2>3. Undisturbed(y)
    BY <2>1, <2>2 DEF Undisturbed, Fed
  <2>4. PICK n \in [Dsts -> Nat] : FlowFor(y, n)
    BY <1>2, <2>2, <2>3 DEF FlowInv
  <2>5. ReadFor(y) = n[y]
    BY <1>2, <2>2, <2>4, AllMuxedIs
  <2>6. n[y] \in Nat
    BY <2>2 DEF MuxDsts
  <2>7. Upto(0, n[y]) = [i \in 1 .. n[y] |-> i]
    BY <2>6 DEF Upto
  <2> QED BY <2>1, <2>2, <2>4, <2>5, <2>7 DEF FlowFor
<1>3. Types /\ HistoryOK /\ WaitsInv /\ FlowInv /\ [Next]_vars => FlowInv'
  BY NextFlow
<1> QED BY <1>1, <1>2, <1>3, InitTypes, NextTypes, HistoryStays, NextWaits, NextStarted, NextStopped, PTL DEF Spec
=============================================================================
