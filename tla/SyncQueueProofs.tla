-------------------------- MODULE SyncQueueProofs --------------------------
(***************************************************************************)
(* The sync queue, for any number of streams, time bases and frames.       *)
(***************************************************************************)
EXTENDS SyncQueue, SequenceInduction, SequenceTheorems

(* What the proofs need of the constants.                                  *)
LEMMA Constants ==
  /\ NbStreams \in Nat \ {0} /\ OneSecond \in Nat \ {0} /\ Int64 \in Nat \ {0}
  /\ \A i \in Streams : Tb[i] \in Nat \ {0} /\ SampleTime[i] \in Nat \ {0}
  /\ NOPTS \in Int /\ NOPTS < 0 /\ NoLimit \in Nat \ {0}
BY SyncQueueAssumption DEF SyncQueueAssumption, NOPTS, NoLimit

FrameType == [pts : Int, dur : Int, n : Nat]

StreamType ==
  [fifo : Seq(FrameType), tb : Nat \ {0}, samples_queued : Int, head_ts : Int,
   limiting : BOOLEAN, finished : BOOLEAN, frames_sent : Int, samples_sent : Int,
   frames_max : Nat, frame_samples : Nat]

SyncQueueType ==
  [streams : [Streams -> StreamType], nb_streams : 0 .. NbStreams, finished : BOOLEAN,
   head_stream : Streams \cup {None}, head_finished_stream : Streams \cup {None}]

-----------------------------------------------------------------------------
(* Arithmetic.                                                             *)

LEMMA WrapType ==
  ASSUME NEW x \in Int
  PROVE  Wrap(x) \in Int /\ NOPTS <= Wrap(x)
<1> DEFINE m == 2 * Int64
<1>1. m \in Nat /\ m > 0 /\ Int64 \in Nat
  BY Constants
<1>2. (x + Int64) % m \in 0 .. m - 1
  <2> HIDE DEF m
  <2> QED BY <1>1
<1> QED BY <1>1, <1>2 DEF Wrap, NOPTS

LEMMA RescaleType ==
  ASSUME NEW ts \in Int, NEW from \in Nat \ {0}, NEW to \in Nat \ {0}
  PROVE  av_rescale_q(ts, from, to) \in Int
<1> DEFINE abs == IF ts < 0 THEN -ts ELSE ts
           a == 2 * abs * from + to
           r == a \div (2 * to)
<1>1. a \in Int /\ 2 * to \in Nat \ {0}
  OBVIOUS
<1>2. r \in Int
  <2> HIDE DEF a
  <2> DEFINE b == 2 * to
  <2>1. b \in Nat \ {0}
    BY <1>1
  <2> HIDE DEF b
  <2>2. a \div b \in Int
    BY <1>1, <2>1
  <2> QED BY <2>2 DEF b
<1>3. av_rescale_q(ts, from, to) = IF r >= Int64 THEN NOPTS ELSE IF ts < 0 THEN -r ELSE r
  BY DEF av_rescale_q
<1> HIDE DEF r
<1> QED BY <1>2, <1>3, Constants

LEMMA SamplesDurationType ==
  ASSUME NEW i \in Streams, NEW n \in Int
  PROVE  SamplesDuration(i, n) \in Int
<1>1. SampleTime[i] \in Nat \ {0} /\ Tb[i] \in Nat \ {0}
  BY Constants
<1> QED BY <1>1, RescaleType DEF SamplesDuration

LEMMA FrameEndType ==
  ASSUME NEW i \in Streams, NEW f \in FrameType, NEW n \in Int
  PROVE  frame_end(i, f, n) \in Int /\ NOPTS <= frame_end(i, f, n)
<1>1. f.pts \in Int /\ f.dur \in Int
  BY DEF FrameType
<1>2. SamplesDuration(i, n) \in Int
  BY SamplesDurationType
<1>3. (f.pts + IF n # 0 THEN SamplesDuration(i, n) ELSE f.dur) \in Int
  BY <1>1, <1>2
<1> QED BY <1>3, WrapType DEF frame_end

(* First() finds something, and so does a search for the earliest head.    *)
LEMMA FirstIsIn ==
  ASSUME NEW I \in SUBSET Nat, I # {}
  PROVE  First(I) \in I /\ \A j \in I : First(I) <= j
<1>1. \E i \in I : \A j \in I : i <= j
  BY Smallest
<1> QED BY <1>1 DEF First

LEMMA Earliest ==
  ASSUME NEW n \in Nat, NEW t \in [0 .. n - 1 -> Int], NEW I \in SUBSET (0 .. n - 1), I # {}
  PROVE  \E i \in I : \A j \in I : t[i] <= t[j]
<1> DEFINE Has(J) == \E i \in J : \A j \in J : t[i] <= t[j]
           S == {m \in 0 .. n : \A J \in SUBSET (0 .. m - 1) : J # {} => Has(J)}
<1>1. 0 \in S
  <2>1. \A J \in SUBSET (0 .. 0 - 1) : J = {}
    OBVIOUS
  <2>2. 0 \in 0 .. n
    OBVIOUS
  <2> HIDE DEF Has
  <2> QED BY <2>1, <2>2
<1>2. ASSUME NEW m \in 0 .. n - 1, m \in S PROVE m + 1 \in S
  <2>1. ASSUME NEW J \in SUBSET (0 .. m), J # {}
        PROVE  Has(J)
    <3>1. J \ {m} \in SUBSET (0 .. m - 1)
      OBVIOUS
    <3>2. CASE J = {m}
      BY <3>2
    <3>3. CASE J # {m}
      <4>1. J \ {m} # {}
        BY <2>1, <3>3
      <4>2. Has(J \ {m})
        BY <1>2, <3>1, <4>1
      <4>3. PICK i \in J \ {m} : \A j \in J \ {m} : t[i] <= t[j]
        BY <4>2
      <4>4. /\ \A j \in J : t[j] \in Int
            /\ t[m] \in Int /\ t[i] \in Int
        BY <2>1
      <4>5. CASE m \in J /\ t[m] < t[i]
        <5>1. \A j \in J : t[m] <= t[j]
          BY <4>3, <4>4, <4>5
        <5> QED BY <4>5, <5>1
      <4>6. CASE ~(m \in J /\ t[m] < t[i])
        <5>1. \A j \in J : t[i] <= t[j]
          BY <4>3, <4>4, <4>6
        <5> QED BY <4>3, <5>1
      <4> QED BY <4>5, <4>6
    <3> QED BY <3>2, <3>3
  <2>2. m + 1 \in 0 .. n /\ 0 .. (m + 1) - 1 = 0 .. m
    OBVIOUS
  <2> HIDE DEF Has
  <2> QED BY <2>1, <2>2
<1>3. 0 .. n \subseteq S
  <2> HIDE DEF S
  <2> QED BY <1>1, <1>2, BoundedInduction
<1>4. n \in 0 .. n
  OBVIOUS
<1>5. n \in S
  <2> HIDE DEF S
  <2> QED BY <1>3, <1>4
<1>6. Has(I)
  <2> HIDE DEF Has
  <2> QED BY <1>5
<1> QED BY <1>6

-----------------------------------------------------------------------------
(* What finish_stream() and the rest look at, and its invariants.          *)

Heads(q)    == {i \in Indices(q) : HasHead(q, i)}
Finished(q) == {i \in Indices(q) : q.streams[i].finished}

(* The streams that can end others.                                        *)
Enders(q) == Limiting(q) \cap Heads(q)

(* The head stream is the limiting stream whose head is earliest.          *)
HeadOK(q) ==
  q.head_stream # None =>
    /\ q.head_stream \in Limiting(q)
    /\ \A l \in Limiting(q) :
         l \in Heads(q) /\ HeadTime(q, q.head_stream) <= HeadTime(q, l)

(* The head finished stream is one of those that have ended ...            *)
EnderOK(q) ==
  q.head_finished_stream # None => q.head_finished_stream \in Enders(q) \cap Finished(q)

(* ... the earliest of them ...                                            *)
EarliestOK(q) ==
  \A l \in Enders(q) \cap Finished(q) :
     /\ q.head_finished_stream # None
     /\ HeadTime(q, q.head_finished_stream) <= HeadTime(q, l)

(* ... and nothing that has reached it goes on, except those in I.         *)
ReachedOK(q, I) ==
  q.head_finished_stream # None =>
    \A i \in Heads(q) \ I :
       HeadTime(q, q.head_finished_stream) <= HeadTime(q, i) => i \in Finished(q)

(* The queue is finished when all streams are.                             *)
AllOK(q) == Indices(q) # {} /\ Indices(q) \subseteq Finished(q) => q.finished

(* It is only then, unless a stream was over before another was added.     *)
OnlyAllOK(q) == q.finished => Indices(q) \subseteq Finished(q)

LEMMA QueueTypes ==
  ASSUME NEW q \in SyncQueueType
  PROVE  /\ Indices(q) \subseteq Streams
         /\ Heads(q) \subseteq Indices(q) /\ Finished(q) \subseteq Indices(q)
         /\ Limiting(q) \subseteq Indices(q)
         /\ \A i \in Streams : /\ q.streams[i] \in StreamType
                               /\ HeadTime(q, i) \in Int
                               /\ q.streams[i].head_ts \in Int
         /\ q.head_stream \in Streams \cup {None}
         /\ q.head_finished_stream \in Streams \cup {None}
         /\ None \notin Streams /\ Streams \subseteq Nat
         /\ q.nb_streams \in Nat
<1>1. NbStreams \in Nat
  BY Constants
<1>2. q.nb_streams \in 0 .. NbStreams /\ q.streams \in [Streams -> StreamType]
  BY DEF SyncQueueType
<1>3. Indices(q) \subseteq Streams
  BY <1>1, <1>2 DEF Indices, Streams
<1>4. ASSUME NEW i \in Streams
      PROVE  /\ q.streams[i] \in StreamType /\ HeadTime(q, i) \in Int
             /\ q.streams[i].head_ts \in Int
  <2>1. q.streams[i] \in StreamType
    BY <1>2
  <2>2. q.streams[i].head_ts \in Int /\ q.streams[i].tb \in Nat
    BY <2>1 DEF StreamType
  <2> QED BY <2>1, <2>2 DEF HeadTime
<1>5. None \notin Streams /\ Streams \subseteq Nat
  BY <1>1 DEF Streams, None
<1> QED BY <1>1, <1>2, <1>3, <1>4, <1>5 DEF Heads, Finished, Limiting, SyncQueueType

-----------------------------------------------------------------------------
(* finish_stream().                                                        *)

LEMMA FinishStream ==
  ASSUME NEW q \in SyncQueueType, NEW i \in Indices(q)
  PROVE  LET r == finish_stream(q, i)
             counts == i \in Enders(q)
         IN /\ r \in SyncQueueType
            /\ Indices(r) = Indices(q) /\ r.nb_streams = q.nb_streams
            /\ Limiting(r) = Limiting(q)
            /\ Heads(r) = Heads(q)
            /\ \A j \in Streams : HeadTime(r, j) = HeadTime(q, j)
            /\ r.head_stream = q.head_stream
            /\ r.head_finished_stream =
                 IF /\ counts
                    /\ \/ q.head_finished_stream = None
                       \/ HeadTime(q, i) < HeadTime(q, q.head_finished_stream)
                 THEN i ELSE q.head_finished_stream
            /\ Finished(r) =
                 Finished(q) \cup {i}
                   \cup {j \in Heads(q) :
                          counts /\ HeadTime(q, r.head_finished_stream) <= HeadTime(q, j)}
            /\ r.finished = (q.finished \/ Indices(q) \subseteq Finished(r))
            /\ \A j \in Streams :
                 \E b \in BOOLEAN : r.streams[j] = [q.streams[j] EXCEPT !.finished = b]
            /\ \A j \in Streams \ Indices(q) : r.streams[j] = q.streams[j]
<1> DEFINE cnt == q.streams[i].limiting /\ HasHead(q, i)
           ended  == IF /\ cnt
                        /\ \/ q.head_finished_stream = None
                           \/ HeadTime(q, i) < HeadTime(q, q.head_finished_stream)
                     THEN i ELSE q.head_finished_stream
           over(j) == \/ q.streams[j].finished
                      \/ j = i
                      \/ (cnt /\ HasHead(q, j) /\ HeadTime(q, ended) <= HeadTime(q, j))
           fin(j) == q.streams[j].finished \/ (j \in Indices(q) /\ over(j))
           new(j) == [q.streams[j] EXCEPT !.finished = fin(j)]
           r == finish_stream(q, i)
<1>1. r = [q EXCEPT !.streams = [j \in Streams |-> new(j)],
                    !.head_finished_stream = ended,
                    !.finished = q.finished \/ \A j \in Indices(q) : over(j)]
  BY DEF finish_stream
<1>2. ended \in Streams \cup {None}
  BY QueueTypes
<1>3. ASSUME NEW j \in Streams
      PROVE  /\ fin(j) \in BOOLEAN /\ new(j) \in StreamType
             /\ new(j).finished = fin(j)
             /\ new(j).head_ts = q.streams[j].head_ts
             /\ new(j).tb = q.streams[j].tb
             /\ new(j).limiting = q.streams[j].limiting
             /\ j \notin Indices(q) => new(j) = q.streams[j]
  <2>1. q.streams[j] \in StreamType
    BY QueueTypes
  <2>2. fin(j) \in BOOLEAN
    BY <2>1 DEF StreamType
  <2>3. j \notin Indices(q) => fin(j) = q.streams[j].finished
    <3>1. q.streams[j].finished \in BOOLEAN
      BY <2>1 DEF StreamType
    <3> QED BY <3>1
  <2> HIDE DEF fin
  <2> QED BY <2>1, <2>2, <2>3 DEF StreamType
<1>4. /\ r.streams = [j \in Streams |-> new(j)] /\ r.nb_streams = q.nb_streams
      /\ r.head_stream = q.head_stream /\ r.head_finished_stream = ended
      /\ r.finished = (q.finished \/ \A j \in Indices(q) : over(j))
  <2> HIDE DEF new, ended, over
  <2> QED BY <1>1 DEF SyncQueueType
<1>5. r \in SyncQueueType
  <2>1. [j \in Streams |-> new(j)] \in [Streams -> StreamType]
    BY <1>3
  <2>2. (q.finished \/ \A j \in Indices(q) : over(j)) \in BOOLEAN
    OBVIOUS
  <2> HIDE DEF new, ended, over
  <2> QED BY <1>1, <1>2, <2>1, <2>2 DEF SyncQueueType
<1>6. \A j \in Streams : r.streams[j] = new(j)
  BY <1>4
<1>7. Indices(r) = Indices(q) /\ Indices(q) \subseteq Streams
  BY <1>4, QueueTypes DEF Indices
<1>8. cnt <=> i \in Enders(q)
  BY DEF Enders, Limiting, Heads
<1>9. \A j \in Indices(q) : fin(j) <=> over(j)
  OBVIOUS
<1>10. /\ Limiting(r) = Limiting(q) /\ Heads(r) = Heads(q)
       /\ \A j \in Streams : HeadTime(r, j) = HeadTime(q, j)
  <2> HIDE DEF r, new
  <2> QED BY <1>3, <1>6, <1>7 DEF Limiting, Heads, HasHead, HeadTime
<1>11. Finished(r) = {j \in Indices(q) : over(j)}
  <2> HIDE DEF r, new, over, fin
  <2> QED BY <1>3, <1>6, <1>7, <1>9 DEF Finished
<1>12. {j \in Indices(q) : over(j)} =
         Finished(q) \cup {i}
           \cup {j \in Heads(q) : i \in Enders(q) /\ HeadTime(q, ended) <= HeadTime(q, j)}
  <2> HIDE DEF ended, cnt, r
  <2> QED BY <1>8 DEF Finished, Heads
<1>13. (\A j \in Indices(q) : over(j)) <=> Indices(q) \subseteq Finished(r)
  <2> HIDE DEF over, r
  <2> QED BY <1>11
<1>14. \A j \in Streams :
         \E b \in BOOLEAN : r.streams[j] = [q.streams[j] EXCEPT !.finished = b]
  <2> HIDE DEF r, fin
  <2> QED BY <1>3, <1>6
<1>15. r.finished = (q.finished \/ Indices(q) \subseteq Finished(r))
  <2> HIDE DEF r, over
  <2> QED BY <1>4, <1>13
<1>16. ended = IF /\ i \in Enders(q)
                  /\ \/ q.head_finished_stream = None
                     \/ HeadTime(q, i) < HeadTime(q, q.head_finished_stream)
               THEN i ELSE q.head_finished_stream
  BY <1>8
<1>17. \A j \in Streams \ Indices(q) : r.streams[j] = q.streams[j]
  <2> HIDE DEF r, new
  <2> QED BY <1>3, <1>6
<1> HIDE DEF r, new, fin, over, ended, cnt
<1> QED BY <1>4, <1>5, <1>7, <1>10, <1>11, <1>12, <1>14, <1>15, <1>16, <1>17 DEF r

(* It keeps the invariants, and makes ReachedOK hold of stream i again.    *)
LEMMA FinishKeeps ==
  ASSUME NEW q \in SyncQueueType, NEW i \in Indices(q)
  PROVE  LET r == finish_stream(q, i)
         IN /\ AllOK(r)
            /\ OnlyAllOK(q) => OnlyAllOK(r)
            /\ HeadOK(q) => HeadOK(r)
            /\ EnderOK(q) => EnderOK(r)
            /\ EnderOK(q) /\ EarliestOK(q) => EarliestOK(r)
            /\ EnderOK(q) /\ ReachedOK(q, {i}) => ReachedOK(r, {})
<1> DEFINE r == finish_stream(q, i)
           F == q.head_finished_stream
           G == r.head_finished_stream
           counts == i \in Enders(q)
<1>1. /\ Indices(r) = Indices(q)
      /\ Limiting(r) = Limiting(q)
      /\ Heads(r) = Heads(q)
      /\ \A j \in Streams : HeadTime(r, j) = HeadTime(q, j)
      /\ r.head_stream = q.head_stream
      /\ G = IF counts /\ (F = None \/ HeadTime(q, i) < HeadTime(q, F)) THEN i ELSE F
      /\ Finished(r) = Finished(q) \cup {i}
                          \cup {j \in Heads(q) : counts /\ HeadTime(q, G) <= HeadTime(q, j)}
      /\ r.finished = (q.finished \/ Indices(q) \subseteq Finished(r))
  BY FinishStream
<1>2. /\ Indices(q) \subseteq Streams /\ Heads(q) \subseteq Streams
      /\ Limiting(q) \subseteq Streams /\ i \in Streams
      /\ \A j \in Streams : HeadTime(q, j) \in Int
      /\ None \notin Streams /\ F \in Streams \cup {None}
  BY QueueTypes
<1>3. Enders(r) = Enders(q)
  BY <1>1 DEF Enders
<1> HIDE DEF r, F, G
<1>4. AllOK(r) /\ (OnlyAllOK(q) => OnlyAllOK(r))
  BY <1>1 DEF AllOK, OnlyAllOK
<1>5. HeadOK(q) => HeadOK(r)
  BY <1>1, <1>2 DEF HeadOK
<1>6. EnderOK(q) => EnderOK(r)
  BY <1>1, <1>2, <1>3 DEF EnderOK, F, G
<1>7. /\ counts => G # None /\ HeadTime(q, G) <= HeadTime(q, i)
      /\ F # None => G # None /\ HeadTime(q, G) <= HeadTime(q, F)
  BY <1>1, <1>2
<1>8. G \in Streams \cup {None}
  BY <1>1, <1>2
<1>9. ASSUME EnderOK(q), EarliestOK(q) PROVE EarliestOK(r)
  <2>1. ASSUME NEW l \in Enders(q), l \in Finished(r)
        PROVE  G # None /\ HeadTime(q, G) <= HeadTime(q, l)
    <3>1. l \in Streams
      BY <1>2 DEF Enders
    <3>2. CASE l \in Finished(q)
      <4>1. F # None /\ HeadTime(q, F) <= HeadTime(q, l)
        BY <1>9, <3>2 DEF EarliestOK, F
      <4>2. F \in Streams /\ G \in Streams /\ G # None /\ HeadTime(q, G) <= HeadTime(q, F)
        BY <1>2, <1>7, <1>8, <4>1
      <4> QED BY <1>2, <3>1, <4>1, <4>2
    <3>3. CASE l = i
      BY <1>7, <2>1, <3>3
    <3>4. CASE counts /\ HeadTime(q, G) <= HeadTime(q, l)
      BY <1>7, <3>4
    <3> QED BY <1>1, <2>1, <3>2, <3>3, <3>4
  <2>2. \A l \in Enders(q) : l \in Streams
    BY <1>2 DEF Enders
  <2> QED BY <1>1, <1>2, <1>3, <1>8, <2>1, <2>2 DEF EarliestOK, G
<1>10. ASSUME EnderOK(q), ReachedOK(q, {i}) PROVE ReachedOK(r, {})
  <2>1. SUFFICES ASSUME G # None, NEW j \in Heads(q), HeadTime(q, G) <= HeadTime(q, j)
                 PROVE  j \in Finished(r)
    BY <1>1, <1>2, <1>8 DEF ReachedOK, G
  <2>2. CASE counts
    BY <1>1, <2>1, <2>2
  <2>3. CASE ~counts
    <3>1. G = F
      BY <1>1, <2>3
    <3>2. j = i \/ j \in Finished(q)
      BY <1>10, <2>1, <3>1 DEF ReachedOK, F
    <3> QED BY <1>1, <3>2
  <2> QED BY <2>2, <2>3
<1> QED BY <1>4, <1>5, <1>6, <1>9, <1>10 DEF r

-----------------------------------------------------------------------------
(* The head of a stream moves.                                             *)

LEMMA Rises ==
  ASSUME NEW a \in Int, NEW b \in Int, NEW t \in Nat, a <= b
  PROVE  a * t <= b * t
OBVIOUS

(* The queue with the head of stream i at ts.                              *)
HeadAt(q, i, ts) == [q EXCEPT !.streams[i].head_ts = ts]

LEMMA HeadMoves ==
  ASSUME NEW q \in SyncQueueType, NEW i \in Indices(q), NEW ts \in Int, ts # NOPTS,
         HasHead(q, i) => q.streams[i].head_ts <= ts
  PROVE  LET r == HeadAt(q, i, ts)
         IN /\ r \in SyncQueueType
            /\ Indices(r) = Indices(q) /\ r.nb_streams = q.nb_streams
            /\ Limiting(r) = Limiting(q) /\ Finished(r) = Finished(q)
            /\ Heads(r) = Heads(q) \cup {i}
            /\ \A j \in Streams \ {i} : HeadTime(r, j) = HeadTime(q, j)
            /\ i \in Heads(q) => HeadTime(q, i) <= HeadTime(r, i)
            /\ r.head_stream = q.head_stream
            /\ r.head_finished_stream = q.head_finished_stream
            /\ r.finished = q.finished
            /\ \A j \in Streams :
                 \E h \in Int : r.streams[j] = [q.streams[j] EXCEPT !.head_ts = h]
            /\ \A j \in Streams \ {i} : r.streams[j] = q.streams[j]
<1> DEFINE r == HeadAt(q, i, ts)
           s == [q.streams[i] EXCEPT !.head_ts = ts]
<1>1. i \in Streams /\ q.streams[i] \in StreamType /\ Indices(q) \subseteq Streams
  BY QueueTypes
<1>2. /\ s \in StreamType /\ s.head_ts = ts /\ s.tb = q.streams[i].tb
      /\ s.limiting = q.streams[i].limiting /\ s.finished = q.streams[i].finished
  BY <1>1 DEF StreamType
<1>3. r = [q EXCEPT !.streams = [q.streams EXCEPT ![i] = s]]
  BY DEF HeadAt
<1>4. q.streams \in [Streams -> StreamType]
  BY DEF SyncQueueType
<1>5. [q.streams EXCEPT ![i] = s] \in [Streams -> StreamType]
  BY <1>1, <1>2, <1>4
<1>6. /\ r \in SyncQueueType
      /\ r.streams = [q.streams EXCEPT ![i] = s] /\ r.nb_streams = q.nb_streams
      /\ r.head_stream = q.head_stream /\ r.finished = q.finished
      /\ r.head_finished_stream = q.head_finished_stream
  <2> HIDE DEF s
  <2> QED BY <1>3, <1>5 DEF SyncQueueType
<1>7. r.streams[i] = s /\ \A j \in Streams \ {i} : r.streams[j] = q.streams[j]
  BY <1>1, <1>4, <1>6
<1>8. Indices(r) = Indices(q)
  BY <1>6 DEF Indices
<1> HIDE DEF r, s
<1>9. \A j \in Streams \ {i} : HeadTime(r, j) = HeadTime(q, j)
  BY <1>7 DEF HeadTime
<1>10. Limiting(r) = Limiting(q) /\ Finished(r) = Finished(q)
  BY <1>1, <1>2, <1>7, <1>8 DEF Limiting, Finished
<1>11. Heads(r) = Heads(q) \cup {i}
  BY <1>1, <1>2, <1>7, <1>8 DEF Heads, HasHead
<1>12. i \in Heads(q) => HeadTime(q, i) <= HeadTime(r, i)
  <2>1. q.streams[i].head_ts \in Int /\ q.streams[i].tb \in Nat
    BY <1>1 DEF StreamType
  <2> QED BY <1>2, <1>7, <2>1, Rises DEF HeadTime, Heads
<1>13. \A j \in Streams :
          \E h \in Int : r.streams[j] = [q.streams[j] EXCEPT !.head_ts = h]
  <2>1. \A j \in Streams \ {i} :
          r.streams[j] = [q.streams[j] EXCEPT !.head_ts = q.streams[j].head_ts]
    BY <1>7, QueueTypes DEF StreamType
  <2>2. r.streams[i] = [q.streams[i] EXCEPT !.head_ts = ts]
    BY <1>7 DEF s
  <2> QED BY <1>1, <2>1, <2>2, QueueTypes
<1> QED BY <1>6, <1>7, <1>8, <1>9, <1>10, <1>11, <1>12, <1>13 DEF r

(* queue_head_update() finds the head stream again.                        *)
LEMMA HeadUpdate ==
  ASSUME NEW q \in SyncQueueType, Enders(q) # {}
  PROVE  LET r == queue_head_update(q)
         IN /\ \E x \in Streams \cup {None} : r = [q EXCEPT !.head_stream = x]
            /\ (q.head_stream # None => Limiting(q) \subseteq Heads(q)) => HeadOK(r)
<1> DEFINE behind == {i \in Limiting(q) :
                        /\ HasHead(q, i)
                        /\ \A j \in Limiting(q) : HasHead(q, j) => HeadTime(q, i) <= HeadTime(q, j)}
           stays == \/ q.head_stream = None /\ (\E i \in Limiting(q) : ~HasHead(q, i))
                    \/ q.head_stream \in behind
           all == q.head_stream # None => Limiting(q) \subseteq Heads(q)
           r == queue_head_update(q)
<1>1. r = IF stays THEN q ELSE [q EXCEPT !.head_stream = First(behind)]
  BY DEF queue_head_update
<1>2. /\ Limiting(q) \subseteq Indices(q) /\ Indices(q) \subseteq Streams
      /\ None \notin Streams /\ Streams \subseteq Nat
      /\ \A i \in Streams : HeadTime(q, i) \in Int
      /\ q.head_stream \in Streams \cup {None} /\ q.nb_streams \in Nat
  BY QueueTypes
<1>3. /\ \A i \in Indices(q) : HasHead(q, i) <=> i \in Heads(q)
      /\ \A i \in Limiting(q) : HasHead(q, i) <=> i \in Enders(q)
      /\ Enders(q) \subseteq Limiting(q)
  BY <1>2 DEF Heads, Enders
<1>4. q = [q EXCEPT !.head_stream = q.head_stream]
  BY DEF SyncQueueType
<1> HIDE DEF r
<1>5. CASE stays
  <2>1. r = q
    BY <1>1, <1>5
  <2>2. ASSUME all PROVE HeadOK(q)
    <3>1. SUFFICES ASSUME q.head_stream # None PROVE HeadOK(q)
      BY DEF HeadOK
    <3>2. q.head_stream \in behind
      BY <1>5, <2>2, <3>1
    <3> QED BY <1>2, <1>3, <2>2, <3>1, <3>2 DEF HeadOK
  <2>3. \E x \in Streams \cup {None} : q = [q EXCEPT !.head_stream = x]
    BY <1>2, <1>4
  <2> QED BY <2>1, <2>2, <2>3 DEF r
<1>6. CASE ~stays
  <2>1. behind # {}
    <3> DEFINE t == [j \in 0 .. q.nb_streams - 1 |-> HeadTime(q, j)]
    <3>1. t \in [0 .. q.nb_streams - 1 -> Int]
      BY <1>2 DEF Indices
    <3>2. Enders(q) \in SUBSET (0 .. q.nb_streams - 1)
      BY <1>2, <1>3 DEF Indices
    <3>3. \A j \in Enders(q) : t[j] = HeadTime(q, j)
      BY <3>2
    <3> HIDE DEF t
    <3>4. PICK i \in Enders(q) : \A j \in Enders(q) : t[i] <= t[j]
      BY <1>2, <3>1, <3>2, Earliest
    <3>5. i \in behind
      BY <1>2, <1>3, <3>3, <3>4
    <3> QED BY <3>5
  <2>2. behind \in SUBSET Nat
    BY <1>2
  <2>3. First(behind) \in behind
    <3> HIDE DEF behind
    <3> QED BY <2>1, <2>2, FirstIsIn
  <2>4. r = [q EXCEPT !.head_stream = First(behind)]
    <3> HIDE DEF behind
    <3> QED BY <1>1, <1>6
  <2> DEFINE h == First(behind)
  <2>5. /\ h \in Enders(q)
        /\ \A j \in Enders(q) : HeadTime(q, h) <= HeadTime(q, j)
    BY <1>2, <1>3, <2>3
  <2>6. r = [q EXCEPT !.head_stream = h] /\ h \in Streams
    BY <1>2, <1>3, <2>4, <2>5
  <2>7. ASSUME all PROVE Limiting(q) = Enders(q)
    BY <1>2, <1>3, <1>6, <2>7
  <2> HIDE DEF h, behind
  <2>8. r.streams = q.streams /\ r.nb_streams = q.nb_streams /\ r.head_stream = h
    BY <2>6 DEF SyncQueueType
  <2>9. /\ Limiting(r) = Limiting(q) /\ Heads(r) = Heads(q)
        /\ \A j \in Streams : HeadTime(r, j) = HeadTime(q, j)
    BY <2>8 DEF Limiting, Heads, Indices, HeadTime, HasHead
  <2>10. ASSUME all PROVE HeadOK(r)
    <3>1. \A l \in Enders(q) : l \in Streams /\ l \in Heads(q)
      BY <1>2, <1>3 DEF Enders
    <3> QED BY <2>5, <2>6, <2>7, <2>8, <2>9, <2>10, <3>1 DEF HeadOK
  <2>11. \E x \in Streams \cup {None} : r = [q EXCEPT !.head_stream = x]
    BY <2>6
  <2> QED BY <2>10, <2>11 DEF r
<1> QED BY <1>5, <1>6 DEF r

(* A stream that is finished is one of those in E, or has reached the end  *)
(* of one of them.                                                         *)
CutOK(q, E) ==
  /\ q.head_finished_stream # None => q.head_finished_stream \in E
  /\ \A i \in Finished(q) :
       \/ i \in E
       \/ /\ q.head_finished_stream # None
          /\ i \in Heads(q)
          /\ HeadTime(q, q.head_finished_stream) <= HeadTime(q, i)

LEMMA FinishCuts ==
  ASSUME NEW q \in SyncQueueType, NEW i \in Indices(q), NEW D, NEW E,
         CutOK(q, D), D \subseteq E, EnderOK(q),
         \/ i \in E
         \/ /\ q.head_finished_stream # None
            /\ i \in Heads(q)
            /\ HeadTime(q, q.head_finished_stream) <= HeadTime(q, i)
  PROVE  CutOK(finish_stream(q, i), E)
<1> DEFINE r == finish_stream(q, i)
           F == q.head_finished_stream
           G == r.head_finished_stream
           counts == i \in Enders(q)
<1>1. /\ Heads(r) = Heads(q)
      /\ \A j \in Streams : HeadTime(r, j) = HeadTime(q, j)
      /\ G = IF counts /\ (F = None \/ HeadTime(q, i) < HeadTime(q, F)) THEN i ELSE F
      /\ Finished(r) = Finished(q) \cup {i}
                          \cup {j \in Heads(q) : counts /\ HeadTime(q, G) <= HeadTime(q, j)}
  BY FinishStream
<1>2. /\ Heads(q) \subseteq Streams /\ Finished(q) \subseteq Streams /\ i \in Streams
      /\ \A j \in Streams : HeadTime(q, j) \in Int
      /\ None \notin Streams /\ F \in Streams \cup {None}
  BY QueueTypes
<1> HIDE DEF r
<1>3. /\ counts => G # None /\ HeadTime(q, G) <= HeadTime(q, i)
      /\ F # None => G # None /\ HeadTime(q, G) <= HeadTime(q, F)
      /\ G \in Streams \cup {None}
  BY <1>1, <1>2
<1>4. G # None => G \in E
  BY <1>1, <1>2 DEF CutOK
<1>5. ASSUME NEW j \in Finished(r)
      PROVE  j \in E \/ (G # None /\ j \in Heads(q) /\ HeadTime(q, G) <= HeadTime(q, j))
  <2>1. j \in Streams
    BY <1>1, <1>2
  <2>2. ASSUME F # None, j \in Heads(q), HeadTime(q, F) <= HeadTime(q, j)
        PROVE  G # None /\ j \in Heads(q) /\ HeadTime(q, G) <= HeadTime(q, j)
    <3>1. F \in Streams /\ G # None /\ G \in Streams /\ HeadTime(q, G) <= HeadTime(q, F)
      BY <1>2, <1>3, <2>2
    <3> QED BY <1>2, <2>1, <2>2, <3>1
  <2>3. CASE j \in Finished(q)
    BY <2>2, <2>3 DEF CutOK
  <2>4. CASE j = i
    BY <2>2, <2>4
  <2>5. CASE j \in Heads(q) /\ counts /\ HeadTime(q, G) <= HeadTime(q, j)
    BY <1>3, <2>5
  <2> QED BY <1>1, <2>3, <2>4, <2>5
<1>6. \A j \in Finished(r) : j \in Streams
  BY <1>1, <1>2
<1> QED BY <1>1, <1>3, <1>4, <1>5, <1>6 DEF CutOK, r

(* What looking for the head stream leaves alone.                          *)
LEMMA OtherHead ==
  ASSUME NEW q \in SyncQueueType, NEW x \in Streams \cup {None}
  PROVE  LET r == [q EXCEPT !.head_stream = x]
         IN /\ r \in SyncQueueType
            /\ r.streams = q.streams /\ r.nb_streams = q.nb_streams
            /\ r.finished = q.finished /\ r.head_finished_stream = q.head_finished_stream
            /\ Indices(r) = Indices(q) /\ Limiting(r) = Limiting(q)
            /\ Heads(r) = Heads(q) /\ Finished(r) = Finished(q)
            /\ \A j \in Streams : HeadTime(r, j) = HeadTime(q, j)
<1> DEFINE r == [q EXCEPT !.head_stream = x]
<1>1. /\ r \in SyncQueueType
      /\ r.streams = q.streams /\ r.nb_streams = q.nb_streams
      /\ r.finished = q.finished /\ r.head_finished_stream = q.head_finished_stream
  BY DEF SyncQueueType
<1> HIDE DEF r
<1>2. /\ Indices(r) = Indices(q) /\ Limiting(r) = Limiting(q)
      /\ Heads(r) = Heads(q) /\ Finished(r) = Finished(q)
      /\ \A j \in Streams : HeadTime(r, j) = HeadTime(q, j)
  BY <1>1 DEF Indices, Limiting, Heads, HasHead, Finished, HeadTime
<1> QED BY <1>1, <1>2 DEF r

(* Every function of the queue leaves this much of it as it is: streams    *)
(* stay finished, and their limits, FIFOs and counters do not change.      *)
Moves(q, r) ==
  /\ r.nb_streams = q.nb_streams
  /\ Finished(q) \subseteq Finished(r)
  /\ \A j \in Streams :
       \E h \in Int, b \in BOOLEAN :
          r.streams[j] = [q.streams[j] EXCEPT !.head_ts = h, !.finished = b]

LEMMA FinishMoves ==
  ASSUME NEW q \in SyncQueueType, NEW i \in Indices(q)
  PROVE  Moves(q, finish_stream(q, i))
<1> DEFINE r == finish_stream(q, i)
<1>1. /\ r.nb_streams = q.nb_streams /\ Finished(q) \subseteq Finished(r)
      /\ \A j \in Streams :
           \E b \in BOOLEAN : r.streams[j] = [q.streams[j] EXCEPT !.finished = b]
  BY FinishStream
<1>2. \A j \in Streams : q.streams[j] \in StreamType /\ q.streams[j].head_ts \in Int
  BY QueueTypes
<1> HIDE DEF r
<1>3. ASSUME NEW j \in Streams
      PROVE  \E h \in Int, b \in BOOLEAN :
               r.streams[j] = [q.streams[j] EXCEPT !.head_ts = h, !.finished = b]
  <2>1. PICK b \in BOOLEAN : r.streams[j] = [q.streams[j] EXCEPT !.finished = b]
    BY <1>1
  <2>2. [q.streams[j] EXCEPT !.finished = b] =
          [q.streams[j] EXCEPT !.head_ts = q.streams[j].head_ts, !.finished = b]
    BY <1>2 DEF StreamType
  <2> QED BY <1>2, <2>1, <2>2
<1> QED BY <1>1, <1>3 DEF Moves, r

LEMMA MovesTransitive ==
  ASSUME NEW q \in SyncQueueType, NEW r, NEW s, Moves(q, r), Moves(r, s)
  PROVE  Moves(q, s)
<1>1. ASSUME NEW j \in Streams
      PROVE  \E h \in Int, b \in BOOLEAN :
               s.streams[j] = [q.streams[j] EXCEPT !.head_ts = h, !.finished = b]
  <2>1. PICK h1 \in Int, b1 \in BOOLEAN :
          r.streams[j] = [q.streams[j] EXCEPT !.head_ts = h1, !.finished = b1]
    BY DEF Moves
  <2>2. PICK h \in Int, b \in BOOLEAN :
          s.streams[j] = [r.streams[j] EXCEPT !.head_ts = h, !.finished = b]
    BY DEF Moves
  <2>3. q.streams[j] \in StreamType
    BY QueueTypes
  <2>4. s.streams[j] = [q.streams[j] EXCEPT !.head_ts = h, !.finished = b]
    BY <2>1, <2>2, <2>3 DEF StreamType
  <2> QED BY <2>4
<1> QED BY <1>1 DEF Moves

-----------------------------------------------------------------------------
(* stream_update_ts().                                                     *)

(* Heads only move on.                                                     *)
Advances(q, r) ==
  /\ Moves(q, r)
  /\ Indices(r) = Indices(q) /\ Limiting(r) = Limiting(q)
  /\ Heads(q) \subseteq Heads(r)
  /\ \A j \in Heads(q) : HeadTime(q, j) <= HeadTime(r, j)

(* What is true of the ends of the streams stays true.                     *)
KeepsEnds(q, r, I) ==
  /\ EnderOK(r)
  /\ AllOK(q) => AllOK(r)
  /\ OnlyAllOK(q) => OnlyAllOK(r)
  /\ EarliestOK(q) => EarliestOK(r)
  /\ ReachedOK(q, {}) => ReachedOK(r, I)

LEMMA HeadMovesKeeps ==
  ASSUME NEW q \in SyncQueueType, NEW i \in Indices(q), i \notin Finished(q),
         NEW ts \in Int, ts # NOPTS, HasHead(q, i) => q.streams[i].head_ts <= ts,
         EnderOK(q)
  PROVE  LET r == HeadAt(q, i, ts)
         IN /\ r \in SyncQueueType /\ Advances(q, r) /\ KeepsEnds(q, r, {i})
            /\ i \notin Finished(r) /\ i \in Heads(r)
            /\ r.head_stream = q.head_stream
            /\ \A E : CutOK(q, E) => CutOK(r, E)
            /\ HeadOK(q) => /\ q.head_stream # i => HeadOK(r)
                            /\ q.head_stream # None => Limiting(r) \subseteq Heads(r)
<1> DEFINE r == HeadAt(q, i, ts)
           F == q.head_finished_stream
<1>1. /\ r \in SyncQueueType
      /\ Indices(r) = Indices(q) /\ r.nb_streams = q.nb_streams
      /\ Limiting(r) = Limiting(q) /\ Finished(r) = Finished(q)
      /\ Heads(r) = Heads(q) \cup {i}
      /\ \A j \in Streams \ {i} : HeadTime(r, j) = HeadTime(q, j)
      /\ i \in Heads(q) => HeadTime(q, i) <= HeadTime(r, i)
      /\ r.head_stream = q.head_stream
      /\ r.head_finished_stream = q.head_finished_stream
      /\ r.finished = q.finished
      /\ \A j \in Streams :
           \E h \in Int : r.streams[j] = [q.streams[j] EXCEPT !.head_ts = h]
  BY HeadMoves
<1>2. /\ Indices(q) \subseteq Streams /\ Heads(q) \subseteq Streams
      /\ Finished(q) \subseteq Streams /\ Limiting(q) \subseteq Streams /\ i \in Streams
      /\ \A j \in Streams : /\ HeadTime(q, j) \in Int /\ HeadTime(r, j) \in Int
                            /\ q.streams[j] \in StreamType
      /\ None \notin Streams /\ F \in Streams \cup {None}
      /\ q.head_stream \in Streams \cup {None}
  BY <1>1, QueueTypes
<1> HIDE DEF r, F
<1>3. Moves(q, r)
  <2>1. ASSUME NEW j \in Streams
        PROVE  \E h \in Int, b \in BOOLEAN :
                 r.streams[j] = [q.streams[j] EXCEPT !.head_ts = h, !.finished = b]
    <3>1. PICK h \in Int : r.streams[j] = [q.streams[j] EXCEPT !.head_ts = h]
      BY <1>1
    <3>2. /\ q.streams[j].finished \in BOOLEAN
          /\ r.streams[j] = [q.streams[j] EXCEPT !.head_ts = h,
                                                 !.finished = q.streams[j].finished]
      BY <1>2, <3>1 DEF StreamType
    <3> QED BY <3>2
  <2> QED BY <1>1, <2>1 DEF Moves
<1>4. Advances(q, r)
  BY <1>1, <1>2, <1>3 DEF Advances
<1>5. F # None => F \in Streams \ {i}
  BY <1>2 DEF EnderOK, F
<1>6. EnderOK(r)
  BY <1>1 DEF EnderOK, Enders
<1>7. (AllOK(q) => AllOK(r)) /\ (OnlyAllOK(q) => OnlyAllOK(r))
  BY <1>1 DEF AllOK, OnlyAllOK
<1>8. ASSUME EarliestOK(q) PROVE EarliestOK(r)
  <2>1. ASSUME NEW l \in Enders(r) \cap Finished(r)
        PROVE  F # None /\ HeadTime(r, F) <= HeadTime(r, l)
    <3>1. l # i /\ l \in Enders(q) \cap Finished(q) /\ l \in Streams
      BY <1>1, <1>2 DEF Enders
    <3> QED BY <1>1, <1>5, <1>8, <3>1 DEF EarliestOK, F
  <2> QED BY <1>1, <2>1 DEF EarliestOK, F
<1>9. ReachedOK(q, {}) => ReachedOK(r, {i})
  BY <1>1, <1>2, <1>5 DEF ReachedOK, F
<1>10. ASSUME NEW E, CutOK(q, E) PROVE CutOK(r, E)
  <2>1. ASSUME NEW j \in Finished(r), j \notin E
        PROVE  F # None /\ j \in Heads(r) /\ HeadTime(r, F) <= HeadTime(r, j)
    <3>1. F # None /\ j \in Heads(q) /\ HeadTime(q, F) <= HeadTime(q, j)
      BY <1>1, <1>10, <2>1 DEF CutOK, F
    <3>2. j # i /\ j \in Streams
      BY <1>1, <1>2, <2>1
    <3> QED BY <1>1, <1>5, <3>1, <3>2
  <2>2. F # None => F \in E
    BY <1>10 DEF CutOK, F
  <2> QED BY <1>1, <2>1, <2>2 DEF CutOK, F
<1>11. ASSUME HeadOK(q), q.head_stream # None
       PROVE  /\ Limiting(r) \subseteq Heads(r)
              /\ q.head_stream # i => HeadOK(r)
  <2> DEFINE H == q.head_stream
  <2>1. /\ H \in Limiting(q) /\ H \in Streams
        /\ \A l \in Limiting(q) : /\ l \in Heads(q) /\ l \in Streams
                                  /\ HeadTime(q, H) <= HeadTime(q, l)
    BY <1>2, <1>11 DEF HeadOK
  <2> HIDE DEF H
  <2>2. ASSUME H # i, NEW l \in Limiting(q) PROVE HeadTime(r, H) <= HeadTime(r, l)
    <3>1. HeadTime(r, H) = HeadTime(q, H)
      BY <1>1, <2>1, <2>2
    <3>2. HeadTime(q, l) <= HeadTime(r, l)
      BY <1>1, <1>2, <2>1
    <3> QED BY <1>2, <2>1, <3>1, <3>2
  <2> QED BY <1>1, <2>1, <2>2 DEF HeadOK, H
<1>12. q.head_stream = None => HeadOK(r)
  BY <1>1 DEF HeadOK
<1> QED BY <1>1, <1>4, <1>6, <1>7, <1>8, <1>9, <1>10, <1>11, <1>12 DEF KeepsEnds, r

LEMMA AdvancesTransitive ==
  ASSUME NEW q \in SyncQueueType, NEW r \in SyncQueueType, NEW s \in SyncQueueType,
         Advances(q, r), Advances(r, s)
  PROVE  Advances(q, s)
<1>1. Moves(q, s)
  BY MovesTransitive DEF Advances
<1>2. ASSUME NEW j \in Heads(q) PROVE j \in Heads(s) /\ HeadTime(q, j) <= HeadTime(s, j)
  <2>1. j \in Heads(r) /\ HeadTime(q, j) <= HeadTime(r, j)
    BY DEF Advances
  <2>2. j \in Heads(s) /\ HeadTime(r, j) <= HeadTime(s, j)
    BY <2>1 DEF Advances
  <2>3. HeadTime(q, j) \in Int /\ HeadTime(r, j) \in Int /\ HeadTime(s, j) \in Int
    BY QueueTypes
  <2> QED BY <2>1, <2>2, <2>3
<1> QED BY <1>1, <1>2 DEF Advances

LEMMA SameAdvances ==
  ASSUME NEW q \in SyncQueueType, NEW r, r.streams = q.streams, r.nb_streams = q.nb_streams
  PROVE  Advances(q, r)
<1>1. /\ Indices(r) = Indices(q) /\ Limiting(r) = Limiting(q)
      /\ Heads(r) = Heads(q) /\ Finished(r) = Finished(q)
      /\ \A j \in Streams : HeadTime(r, j) = HeadTime(q, j)
  BY DEF Indices, Limiting, Heads, HasHead, Finished, HeadTime
<1>2. /\ \A j \in Streams : /\ HeadTime(q, j) \in Int /\ q.streams[j] \in StreamType
                            /\ q.streams[j].head_ts \in Int
      /\ Heads(q) \subseteq Streams
  BY QueueTypes
<1>3. ASSUME NEW j \in Streams
      PROVE  \E h \in Int, b \in BOOLEAN :
               r.streams[j] = [q.streams[j] EXCEPT !.head_ts = h, !.finished = b]
  <2>1. /\ q.streams[j].finished \in BOOLEAN
        /\ q.streams[j] = [q.streams[j] EXCEPT !.head_ts = q.streams[j].head_ts,
                                               !.finished = q.streams[j].finished]
    BY <1>2 DEF StreamType
  <2> QED BY <1>2, <2>1
<1>4. Moves(q, r)
  BY <1>1, <1>3 DEF Moves
<1> QED BY <1>1, <1>2, <1>4 DEF Advances

LEMMA FinishAdvances ==
  ASSUME NEW q \in SyncQueueType, NEW i \in Indices(q)
  PROVE  Advances(q, finish_stream(q, i))
<1>1. \A j \in Heads(q) : HeadTime(q, j) \in Int /\ j \in Streams
  BY QueueTypes
<1> QED BY <1>1, FinishStream, FinishMoves DEF Advances

LEMMA UpdateTs ==
  ASSUME NEW q \in SyncQueueType, NEW i \in Indices(q), i \notin Finished(q),
         NEW ts \in Int, EnderOK(q)
  PROVE  LET r == stream_update_ts(q, i, ts)
         IN /\ r \in SyncQueueType /\ Advances(q, r) /\ KeepsEnds(q, r, {})
            /\ \A E : CutOK(q, E) => CutOK(r, E)
            /\ HeadOK(q) => HeadOK(r)
<1> DEFINE moved == HeadAt(q, i, ts)
           F == q.head_finished_stream
           over == /\ F # None
                   /\ HeadTime(moved, F) <= HeadTime(moved, i)
           ended == IF over THEN finish_stream(moved, i) ELSE moved
           still == ts = NOPTS \/ (HasHead(q, i) /\ q.streams[i].head_ts >= ts)
           looks == q.streams[i].limiting /\ q.head_stream \in {None, i}
           r == stream_update_ts(q, i, ts)
<1>1. r = IF still THEN q ELSE IF looks THEN queue_head_update(ended) ELSE ended
  BY DEF stream_update_ts, HeadAt
<1> HIDE DEF r
<1>2. CASE still
  <2>1. r = q
    BY <1>1, <1>2
  <2>2. Advances(q, q)
    BY SameAdvances
  <2> QED BY <2>1, <2>2 DEF KeepsEnds, r
<1>3. CASE ~still
  <2>1. ts # NOPTS /\ (HasHead(q, i) => q.streams[i].head_ts <= ts)
    <3>1. q.streams[i].head_ts \in Int
      BY QueueTypes
    <3> QED BY <1>3, <3>1
  <2>2. /\ moved \in SyncQueueType /\ Advances(q, moved) /\ KeepsEnds(q, moved, {i})
        /\ i \notin Finished(moved) /\ i \in Heads(moved)
        /\ moved.head_stream = q.head_stream
        /\ \A E : CutOK(q, E) => CutOK(moved, E)
        /\ HeadOK(q) => /\ q.head_stream # i => HeadOK(moved)
                        /\ q.head_stream # None => Limiting(moved) \subseteq Heads(moved)
    BY <2>1, HeadMovesKeeps
  <2>3. moved.head_finished_stream = F
    BY <2>1, HeadMoves
  <2>4. i \in Indices(moved) /\ EnderOK(moved) /\ Limiting(moved) = Limiting(q)
    BY <2>2 DEF Advances, KeepsEnds
  <2>5. /\ ended \in SyncQueueType /\ Advances(q, ended) /\ KeepsEnds(q, ended, {})
        /\ \A E : CutOK(q, E) => CutOK(ended, E)
        /\ ended.head_stream = q.head_stream
        /\ i \in Heads(ended)
        /\ HeadOK(q) => /\ q.head_stream # i => HeadOK(ended)
                        /\ q.head_stream # None => Limiting(ended) \subseteq Heads(ended)
    <3>1. CASE over
      <4> DEFINE e == finish_stream(moved, i)
      <4>1. ended = e
        BY <3>1
      <4>2. e \in SyncQueueType /\ Advances(moved, e)
        BY <2>2, <2>4, FinishStream, FinishAdvances
      <4>3. Advances(q, e)
        BY <2>2, <4>2, AdvancesTransitive
      <4>4. KeepsEnds(q, e, {})
        BY <2>2, <2>4, FinishKeeps DEF KeepsEnds
      <4>5. ASSUME NEW E, CutOK(q, E) PROVE CutOK(e, E)
        BY <2>2, <2>3, <2>4, <3>1, <4>5, FinishCuts
      <4>6. /\ e.head_stream = moved.head_stream
            /\ Heads(e) = Heads(moved) /\ Limiting(e) = Limiting(moved)
            /\ HeadOK(moved) => HeadOK(e)
        BY <2>2, <2>4, FinishStream, FinishKeeps
      <4> HIDE DEF e, moved, ended
      <4>7. HeadOK(q) => /\ q.head_stream # i => HeadOK(e)
                         /\ q.head_stream # None => Limiting(e) \subseteq Heads(e)
        BY <2>2, <4>6, Zenon
      <4>8. e.head_stream = q.head_stream /\ i \in Heads(e)
        BY <2>2, <4>6, Zenon
      <4> QED BY <4>1, <4>2, <4>3, <4>4, <4>5, <4>7, <4>8, Zenon
    <3>2. CASE ~over
      <4>1. ended = moved
        BY <3>2
      <4>2. ReachedOK(moved, {i}) => ReachedOK(moved, {})
        BY <2>3, <3>2 DEF ReachedOK
      <4> HIDE DEF moved, ended
      <4> QED BY <2>2, <4>1, <4>2 DEF KeepsEnds
    <3> QED BY <3>1, <3>2
  <2> HIDE DEF ended, moved
  <2>6. CASE ~looks
    <3>1. r = ended
      BY <1>1, <1>3, <2>6
    <3>2. HeadOK(q) => HeadOK(ended)
      <4>1. ASSUME HeadOK(q), q.head_stream = i PROVE FALSE
        <5>1. i \in Limiting(q)
          BY <4>1, QueueTypes DEF HeadOK
        <5> QED BY <2>6, <4>1, <5>1 DEF Limiting
      <4>2. HeadOK(q) /\ q.head_stream # i => HeadOK(ended)
        BY <2>5, Zenon
      <4> QED BY <4>1, <4>2
    <3> QED BY <2>5, <3>1, <3>2 DEF r
  <2>7. CASE looks
    <3>1. r = queue_head_update(ended)
      BY <1>1, <1>3, <2>7
    <3>2. i \in Enders(ended)
      <4>1. i \in Limiting(q)
        BY <2>7 DEF Limiting
      <4> QED BY <2>5, <4>1 DEF Enders, Advances
    <3>3. /\ \E x \in Streams \cup {None} : r = [ended EXCEPT !.head_stream = x]
          /\ (ended.head_stream # None => Limiting(ended) \subseteq Heads(ended)) => HeadOK(r)
      <4> HIDE DEF looks
      <4> QED BY <2>5, <3>1, <3>2, HeadUpdate
    <3>4. PICK x \in Streams \cup {None} : r = [ended EXCEPT !.head_stream = x]
      BY <3>3
    <3>5. /\ r \in SyncQueueType
          /\ r.streams = ended.streams /\ r.nb_streams = ended.nb_streams
          /\ r.finished = ended.finished
          /\ r.head_finished_stream = ended.head_finished_stream
          /\ Indices(r) = Indices(ended) /\ Limiting(r) = Limiting(ended)
          /\ Heads(r) = Heads(ended) /\ Finished(r) = Finished(ended)
          /\ \A j \in Streams : HeadTime(r, j) = HeadTime(ended, j)
      BY <2>5, <3>4, OtherHead
    <3>6. Advances(q, r)
      BY <2>5, <3>5, SameAdvances, AdvancesTransitive
    <3>7. Heads(ended) \subseteq Streams /\ Finished(ended) \subseteq Streams
      BY <2>5, QueueTypes
    <3>8. ended.head_finished_stream \in Streams \cup {None} /\ Enders(ended) \subseteq Streams
      BY <2>5, <3>7, QueueTypes DEF Enders
    <3>9. Enders(r) = Enders(ended)
      BY <3>5 DEF Enders
    <3>10. KeepsEnds(q, r, {})
      <4>1. EnderOK(ended) => EnderOK(r)
        BY <3>5, <3>9 DEF EnderOK
      <4>2. (AllOK(ended) => AllOK(r)) /\ (OnlyAllOK(ended) => OnlyAllOK(r))
        BY <3>5 DEF AllOK, OnlyAllOK
      <4>3. EarliestOK(ended) => EarliestOK(r)
        BY <3>5, <3>7, <3>8, <3>9 DEF EarliestOK
      <4>4. ReachedOK(ended, {}) => ReachedOK(r, {})
        BY <3>5, <3>7, <3>8 DEF ReachedOK
      <4> QED BY <2>5, <4>1, <4>2, <4>3, <4>4 DEF KeepsEnds
    <3>11. ASSUME NEW E, CutOK(ended, E) PROVE CutOK(r, E)
      BY <3>5, <3>7, <3>8, <3>11 DEF CutOK
    <3>12. HeadOK(q) => HeadOK(r)
      <4>1. HeadOK(q) => (ended.head_stream # None => Limiting(ended) \subseteq Heads(ended))
        BY <2>5, Zenon
      <4> QED BY <3>3, <4>1, Zenon
    <3> QED BY <2>5, <3>5, <3>6, <3>10, <3>11, <3>12 DEF r
  <2> QED BY <2>6, <2>7
<1> QED BY <1>2, <1>3

-----------------------------------------------------------------------------
(* Changes that the invariants above do not see.                           *)

SameCore(q, r) ==
  /\ r.nb_streams = q.nb_streams
  /\ Indices(r) = Indices(q) /\ Limiting(r) = Limiting(q)
  /\ Heads(r) = Heads(q) /\ Finished(r) = Finished(q)
  /\ \A j \in Heads(q) : HeadTime(r, j) = HeadTime(q, j)
  /\ r.finished = q.finished /\ r.head_stream = q.head_stream
  /\ r.head_finished_stream = q.head_finished_stream

LEMMA SameCoreKeeps ==
  ASSUME NEW q \in SyncQueueType, NEW r, SameCore(q, r), EnderOK(q)
  PROVE  /\ HeadOK(q) => HeadOK(r)
         /\ KeepsEnds(q, r, {})
         /\ \A E : CutOK(q, E) => CutOK(r, E)
<1>1. Enders(r) = Enders(q) /\ Enders(q) \subseteq Heads(q)
  BY DEF SameCore, Enders
<1>2. q.head_finished_stream # None => q.head_finished_stream \in Heads(q)
  BY <1>1 DEF EnderOK
<1>3. HeadOK(q) => HeadOK(r)
  BY DEF SameCore, HeadOK
<1>4. EnderOK(r)
  BY <1>1 DEF SameCore, EnderOK
<1>5. (AllOK(q) => AllOK(r)) /\ (OnlyAllOK(q) => OnlyAllOK(r))
  BY DEF SameCore, AllOK, OnlyAllOK
<1>6. EarliestOK(q) => EarliestOK(r)
  BY <1>1, <1>2 DEF SameCore, EarliestOK
<1>7. ReachedOK(q, {}) => ReachedOK(r, {})
  BY <1>2 DEF SameCore, ReachedOK
<1>8. ASSUME NEW E, CutOK(q, E) PROVE CutOK(r, E)
  BY <1>2, <1>8 DEF SameCore, CutOK
<1> QED BY <1>3, <1>4, <1>5, <1>6, <1>7, <1>8 DEF KeepsEnds

(* A stream is replaced by one with the same head.                         *)
LEMMA Replace ==
  ASSUME NEW q \in SyncQueueType, NEW i \in Streams, NEW s \in StreamType,
         s.tb = q.streams[i].tb, s.head_ts = q.streams[i].head_ts,
         s.limiting = q.streams[i].limiting, s.finished = q.streams[i].finished
  PROVE  LET r == [q EXCEPT !.streams[i] = s]
         IN /\ r \in SyncQueueType /\ SameCore(q, r)
            /\ r.streams = [q.streams EXCEPT ![i] = s]
<1> DEFINE r == [q EXCEPT !.streams[i] = s]
<1>1. q.streams \in [Streams -> StreamType]
  BY DEF SyncQueueType
<1>2. [q.streams EXCEPT ![i] = s] \in [Streams -> StreamType]
  BY <1>1
<1>3. /\ r \in SyncQueueType
      /\ r.streams = [q.streams EXCEPT ![i] = s] /\ r.nb_streams = q.nb_streams
      /\ r.head_stream = q.head_stream /\ r.finished = q.finished
      /\ r.head_finished_stream = q.head_finished_stream
  BY <1>2 DEF SyncQueueType
<1>4. r.streams[i] = s /\ \A j \in Streams \ {i} : r.streams[j] = q.streams[j]
  BY <1>1, <1>3
<1>5. Indices(r) = Indices(q) /\ Indices(q) \subseteq Streams
  BY <1>3, QueueTypes DEF Indices
<1> HIDE DEF r
<1>6. /\ Limiting(r) = Limiting(q) /\ Heads(r) = Heads(q) /\ Finished(r) = Finished(q)
      /\ \A j \in Streams : HeadTime(r, j) = HeadTime(q, j)
  BY <1>4, <1>5 DEF Limiting, Heads, HasHead, Finished, HeadTime
<1>7. Heads(q) \subseteq Streams
  BY QueueTypes
<1> QED BY <1>3, <1>5, <1>6, <1>7 DEF SameCore, r

-----------------------------------------------------------------------------
(* tb_update().                                                            *)

(* The head of a stream that gets another time base stays where it is.     *)
Converts(q, i) ==
  HasHead(q, i) => /\ HasHead(tb_update(q, i), i)
                   /\ HeadTime(tb_update(q, i), i) = HeadTime(q, i)

LEMMA TbUpdate ==
  ASSUME NEW q \in SyncQueueType, NEW i \in Indices(q), i \notin Finished(q), EnderOK(q)
  PROVE  LET r == tb_update(q, i)
         IN /\ r \in SyncQueueType
            /\ Indices(r) = Indices(q) /\ Finished(r) = Finished(q)
            /\ Limiting(r) = Limiting(q) /\ r.nb_streams = q.nb_streams
            /\ Converts(q, i) => SameCore(q, r)
            /\ EnderOK(r)
            /\ AllOK(q) => AllOK(r)
            /\ OnlyAllOK(q) => OnlyAllOK(r)
            /\ EarliestOK(q) => EarliestOK(r)
            /\ \A E : CutOK(q, E) => CutOK(r, E)
            /\ \E h \in Int :
                 r.streams = [q.streams EXCEPT ![i] = [@ EXCEPT !.head_ts = h, !.tb = Tb[i]]]
<1> DEFINE r == tb_update(q, i)
           st == q.streams[i]
           F == q.head_finished_stream
<1>1. /\ i \in Streams /\ st \in StreamType /\ Indices(q) \subseteq Streams
      /\ st.head_ts \in Int /\ st.tb \in Nat \ {0}
      /\ None \notin Streams /\ F \in Streams \cup {None}
      /\ Tb[i] \in Nat \ {0}
      /\ q.streams \in [Streams -> StreamType]
  BY QueueTypes, Constants DEF StreamType, SyncQueueType
<1>2. PICK h \in Int :
        /\ r = [q EXCEPT !.streams = [q.streams EXCEPT ![i] =
                                       [st EXCEPT !.head_ts = h, !.tb = Tb[i]]]]
        /\ st.head_ts = NOPTS => h = NOPTS
  <2>1. CASE st.tb = Tb[i]
    <3>1. r = q
      BY <2>1 DEF tb_update
    <3>2. st = [st EXCEPT !.head_ts = st.head_ts, !.tb = st.tb]
      BY <1>1 DEF StreamType
    <3>3. q = [q EXCEPT !.streams = [q.streams EXCEPT ![i] = st]]
      BY <1>1 DEF SyncQueueType
    <3> QED BY <1>1, <2>1, <3>1, <3>2, <3>3
  <2>2. CASE st.tb # Tb[i]
    <3> DEFINE g == IF st.head_ts = NOPTS THEN st.head_ts
                    ELSE av_rescale_q(st.head_ts, st.tb, Tb[i])
    <3>1. r = [q EXCEPT !.streams[i].head_ts = g, !.streams[i].tb = Tb[i]]
      BY <2>2 DEF tb_update
    <3>2. g \in Int
      BY <1>1, RescaleType
    <3>3. st.head_ts = NOPTS => g = NOPTS
      OBVIOUS
    <3> HIDE DEF g
    <3>4. r = [q EXCEPT !.streams = [q.streams EXCEPT ![i] =
                                      [st EXCEPT !.head_ts = g, !.tb = Tb[i]]]]
      BY <1>1, <3>1 DEF SyncQueueType
    <3> QED BY <1>1, <3>2, <3>3, <3>4
  <2> QED BY <2>1, <2>2
<1> DEFINE s == [st EXCEPT !.head_ts = h, !.tb = Tb[i]]
<1>3. /\ s \in StreamType /\ s.head_ts = h /\ s.tb = Tb[i]
      /\ s.limiting = st.limiting /\ s.finished = st.finished
  BY <1>1 DEF StreamType
<1>4. r = [q EXCEPT !.streams = [q.streams EXCEPT ![i] = s]]
  BY <1>2
<1> HIDE DEF s, r
<1>5. [q.streams EXCEPT ![i] = s] \in [Streams -> StreamType]
  BY <1>1, <1>3
<1>6. /\ r \in SyncQueueType
      /\ r.streams = [q.streams EXCEPT ![i] = s] /\ r.nb_streams = q.nb_streams
      /\ r.head_stream = q.head_stream /\ r.finished = q.finished
      /\ r.head_finished_stream = q.head_finished_stream
  BY <1>4, <1>5 DEF SyncQueueType
<1>7. r.streams[i] = s /\ \A j \in Streams \ {i} : r.streams[j] = q.streams[j]
  BY <1>1, <1>6
<1>8. Indices(r) = Indices(q)
  BY <1>6 DEF Indices
<1>9. Limiting(r) = Limiting(q) /\ Finished(r) = Finished(q)
  BY <1>1, <1>3, <1>7, <1>8 DEF Limiting, Finished
<1>10. /\ \A j \in Streams \ {i} : HeadTime(r, j) = HeadTime(q, j)
       /\ \A j \in Streams \ {i} : j \in Heads(r) <=> j \in Heads(q)
       /\ i \in Heads(r) => i \in Heads(q)
       /\ \A j \in Finished(q) : j \in Streams \ {i}
       /\ Heads(q) \subseteq Streams /\ Heads(r) \subseteq Streams
  BY <1>1, <1>2, <1>3, <1>7, <1>8 DEF HeadTime, Heads, HasHead, Finished
<1>11. F # None => F \in Streams \ {i}
  BY <1>10 DEF EnderOK, F
<1>12. EnderOK(r)
  BY <1>6, <1>9, <1>10, <1>11 DEF EnderOK, Enders
<1>13. (AllOK(q) => AllOK(r)) /\ (OnlyAllOK(q) => OnlyAllOK(r))
  BY <1>6, <1>8, <1>9 DEF AllOK, OnlyAllOK
<1>14. EarliestOK(q) => EarliestOK(r)
  BY <1>6, <1>9, <1>10, <1>11 DEF EarliestOK, Enders
<1>15. ASSUME NEW E, CutOK(q, E) PROVE CutOK(r, E)
  BY <1>6, <1>9, <1>10, <1>11, <1>15 DEF CutOK
<1>16. ASSUME Converts(q, i) PROVE SameCore(q, r)
  <2>1. i \in Heads(q) => i \in Heads(r) /\ HeadTime(r, i) = HeadTime(q, i)
    BY <1>8, <1>16 DEF Converts, Heads, r
  <2>2. Heads(r) = Heads(q)
    BY <1>10, <2>1
  <2> QED BY <1>6, <1>8, <1>9, <1>10, <2>1, <2>2 DEF SameCore
<1>17. r.streams = [q.streams EXCEPT ![i] = [@ EXCEPT !.head_ts = h, !.tb = Tb[i]]]
  BY <1>6 DEF s
<1> QED BY <1>6, <1>8, <1>9, <1>12, <1>13, <1>14, <1>15, <1>16, <1>17 DEF r

-----------------------------------------------------------------------------
(* sq_send().                                                              *)

(* What is counted of a stream that is sent a frame with n samples.        *)
FramesSent(st, n) ==
  IF st.frame_samples # 0 THEN (st.samples_sent + n) \div st.frame_samples
                          ELSE st.frames_sent + 1

(* The fields of a stream that only its own frames change.                 *)
SameData(s, t) ==
  /\ t.fifo = s.fifo /\ t.samples_queued = s.samples_queued
  /\ t.frames_sent = s.frames_sent /\ t.samples_sent = s.samples_sent
  /\ t.frames_max = s.frames_max /\ t.frame_samples = s.frame_samples
  /\ t.limiting = s.limiting /\ t.tb = s.tb

LEMMA MovesSameData ==
  ASSUME NEW q \in SyncQueueType, NEW r, Moves(q, r), NEW j \in Streams
  PROVE  SameData(q.streams[j], r.streams[j])
<1>1. PICK h \in Int, b \in BOOLEAN :
        r.streams[j] = [q.streams[j] EXCEPT !.head_ts = h, !.finished = b]
  BY DEF Moves
<1>2. q.streams[j] \in StreamType
  BY QueueTypes
<1> QED BY <1>1, <1>2 DEF StreamType, SameData

LEMMA QuotientType ==
  ASSUME NEW a \in Int, NEW b \in Nat \ {0}
  PROVE  a \div b \in Int
OBVIOUS

(* What sq_send() of frame f for stream i makes of queue q.                *)
SendResult(q, r, i, f) ==
  LET s == q.streams[i]
      t == r.streams[i]
  IN /\ r \in SyncQueueType
     /\ r.nb_streams = q.nb_streams
     /\ Indices(r) = Indices(q) /\ Limiting(r) = Limiting(q)
     /\ Finished(q) \subseteq Finished(r)
     /\ EnderOK(r)
     /\ AllOK(q) => AllOK(r)
     /\ OnlyAllOK(q) => OnlyAllOK(r)
     /\ EarliestOK(q) => EarliestOK(r)
     /\ Converts(q, i) => /\ HeadOK(q) => HeadOK(r)
                          /\ ReachedOK(q, {}) => ReachedOK(r, {})
                          /\ \A j \in Heads(q) : /\ j \in Heads(r)
                                                 /\ HeadTime(q, j) <= HeadTime(r, j)
     /\ \A D, E : /\ CutOK(q, D) /\ D \subseteq E
                  /\ t.frames_sent >= t.frames_max => i \in E
                  => CutOK(r, E)
     /\ \A j \in Streams \ {i} : SameData(q.streams[j], r.streams[j])
     /\ t.tb = Tb[i]
     /\ t.limiting = s.limiting /\ t.frames_max = s.frames_max
     /\ t.frame_samples = s.frame_samples
     /\ t.samples_queued = s.samples_queued + f.n
     /\ t.samples_sent = s.samples_sent + f.n
     /\ t.frames_sent = FramesSent(s, f.n)
     /\ t.frames_sent >= t.frames_max => i \in Finished(r)
     /\ \E g \in FrameType : g.n = f.n /\ t.fifo = Append(s.fifo, g)

LEMMA SqSend ==
  ASSUME NEW q \in SyncQueueType, NEW i \in Indices(q), i \notin Finished(q),
         NEW f \in FrameType, EnderOK(q)
  PROVE  SendResult(q, sq_send(q, i, f), i, f)
<1> DEFINE frame == IF f.n = 0 THEN f ELSE [f EXCEPT !.dur = SamplesDuration(i, f.n)]
           based == tb_update(q, i)
           written == [based EXCEPT !.streams[i].fifo = Append(@, frame)]
           ts == frame_end(i, frame, 0)
           updated == stream_update_ts(written, i, ts)
           st == updated.streams[i]
           samples == st.samples_sent + f.n
           frames == IF st.frame_samples # 0 THEN samples \div st.frame_samples
                                             ELSE st.frames_sent + 1
           new == [st EXCEPT !.samples_queued = @ + f.n, !.samples_sent = samples,
                             !.frames_sent = frames]
           counted == [updated EXCEPT !.streams[i] = new]
           r == sq_send(q, i, f)
<1>1. r = IF frames >= st.frames_max THEN finish_stream(counted, i) ELSE counted
  BY DEF sq_send
<1> HIDE DEF r
<1>2. i \in Streams
  BY QueueTypes
<1>3. frame \in FrameType /\ frame.n = f.n
  BY <1>2, SamplesDurationType DEF FrameType
<1>4. /\ based \in SyncQueueType
      /\ Indices(based) = Indices(q) /\ Finished(based) = Finished(q)
      /\ Limiting(based) = Limiting(q) /\ based.nb_streams = q.nb_streams
      /\ Converts(q, i) => SameCore(q, based)
      /\ EnderOK(based)
      /\ AllOK(q) => AllOK(based)
      /\ OnlyAllOK(q) => OnlyAllOK(based)
      /\ EarliestOK(q) => EarliestOK(based)
      /\ \A E : CutOK(q, E) => CutOK(based, E)
      /\ \E h \in Int :
           based.streams = [q.streams EXCEPT ![i] = [@ EXCEPT !.head_ts = h, !.tb = Tb[i]]]
  BY TbUpdate
<1> HIDE DEF frame, based
<1>5. /\ \A j \in Streams \ {i} : SameData(q.streams[j], based.streams[j])
      /\ q.streams[i] \in StreamType /\ based.streams[i] \in StreamType
      /\ based.streams[i].tb = Tb[i]
      /\ based.streams[i].fifo = q.streams[i].fifo
      /\ based.streams[i].samples_queued = q.streams[i].samples_queued
      /\ based.streams[i].samples_sent = q.streams[i].samples_sent
      /\ based.streams[i].frames_sent = q.streams[i].frames_sent
      /\ based.streams[i].frames_max = q.streams[i].frames_max
      /\ based.streams[i].frame_samples = q.streams[i].frame_samples
      /\ based.streams[i].limiting = q.streams[i].limiting
  <2>1. /\ \A j \in Streams : q.streams[j] \in StreamType
        /\ based.streams[i] \in StreamType /\ q.streams \in [Streams -> StreamType]
    BY <1>2, <1>4, QueueTypes DEF SyncQueueType
  <2>2. PICK h \in Int :
          based.streams = [q.streams EXCEPT ![i] = [@ EXCEPT !.head_ts = h, !.tb = Tb[i]]]
    BY <1>4
  <2>3. /\ based.streams[i] = [q.streams[i] EXCEPT !.head_ts = h, !.tb = Tb[i]]
        /\ \A j \in Streams \ {i} : based.streams[j] = q.streams[j]
    BY <1>2, <2>1, <2>2
  <2>4. \A j \in Streams \ {i} : SameData(q.streams[j], based.streams[j])
    BY <2>3 DEF SameData
  <2> QED BY <1>2, <2>1, <2>3, <2>4 DEF StreamType
<1> DEFINE w == [based.streams[i] EXCEPT !.fifo = Append(based.streams[i].fifo, frame)]
<1>6. /\ w \in StreamType /\ w.fifo = Append(based.streams[i].fifo, frame)
      /\ w.tb = based.streams[i].tb /\ w.head_ts = based.streams[i].head_ts
      /\ w.limiting = based.streams[i].limiting /\ w.finished = based.streams[i].finished
      /\ w.samples_queued = based.streams[i].samples_queued
      /\ w.frames_sent = based.streams[i].frames_sent
      /\ w.samples_sent = based.streams[i].samples_sent
      /\ w.frames_max = based.streams[i].frames_max
      /\ w.frame_samples = based.streams[i].frame_samples
  <2>1. based.streams[i].fifo \in Seq(FrameType)
    BY <1>5 DEF StreamType
  <2>2. Append(based.streams[i].fifo, frame) \in Seq(FrameType)
    BY <1>3, <2>1
  <2> QED BY <1>5, <2>2 DEF StreamType
<1>7. written = [based EXCEPT !.streams[i] = w]
  BY <1>2, <1>4 DEF SyncQueueType
<1> HIDE DEF w
<1>8. /\ written \in SyncQueueType /\ SameCore(based, written)
      /\ written.streams = [based.streams EXCEPT ![i] = w]
  <2> HIDE DEF written
  <2> QED BY <1>2, <1>4, <1>6, <1>7, Replace
<1>9. /\ written.streams[i] = w
      /\ \A j \in Streams \ {i} : written.streams[j] = based.streams[j]
  <2> HIDE DEF written
  <2> QED BY <1>2, <1>4, <1>8 DEF SyncQueueType
<1>10. /\ HeadOK(based) => HeadOK(written)
       /\ KeepsEnds(based, written, {})
       /\ \A E : CutOK(based, E) => CutOK(written, E)
  <2> HIDE DEF written
  <2> QED BY <1>4, <1>8, SameCoreKeeps
<1>11. ts \in Int
  BY <1>2, <1>3, FrameEndType
<1> HIDE DEF written, ts
<1>12. i \in Indices(written) /\ i \notin Finished(written) /\ EnderOK(written)
  BY <1>4, <1>8, <1>10 DEF SameCore, KeepsEnds
<1>13. /\ updated \in SyncQueueType /\ Advances(written, updated)
       /\ KeepsEnds(written, updated, {})
       /\ \A E : CutOK(written, E) => CutOK(updated, E)
       /\ HeadOK(written) => HeadOK(updated)
  BY <1>8, <1>11, <1>12, UpdateTs
<1> HIDE DEF updated
<1>14. \A j \in Streams : SameData(written.streams[j], updated.streams[j])
  BY <1>8, <1>13, MovesSameData DEF Advances
<1>15. st \in StreamType
  BY <1>2, <1>13, QueueTypes
<1>16. /\ st.fifo = Append(q.streams[i].fifo, frame)
       /\ st.samples_queued = q.streams[i].samples_queued
       /\ st.samples_sent = q.streams[i].samples_sent
       /\ st.frames_sent = q.streams[i].frames_sent
       /\ st.frames_max = q.streams[i].frames_max
       /\ st.frame_samples = q.streams[i].frame_samples
       /\ st.limiting = q.streams[i].limiting
       /\ st.tb = Tb[i]
  BY <1>2, <1>5, <1>6, <1>9, <1>14 DEF SameData
<1>17. samples \in Int /\ f.n \in Nat
  BY <1>15 DEF StreamType, FrameType
<1>18. frames \in Int /\ frames = FramesSent(q.streams[i], f.n)
  <2>1. st.frame_samples \in Nat /\ st.frames_sent \in Int
    BY <1>15 DEF StreamType
  <2>2. frames \in Int
    <3> HIDE DEF samples, st
    <3> QED BY <1>17, <2>1, QuotientType
  <2> QED BY <1>16, <2>2 DEF FramesSent
<1> HIDE DEF frames, samples
<1>19. /\ new \in StreamType
       /\ new.fifo = st.fifo /\ new.tb = st.tb /\ new.head_ts = st.head_ts
       /\ new.limiting = st.limiting /\ new.finished = st.finished
       /\ new.samples_queued = st.samples_queued + f.n
       /\ new.samples_sent = samples /\ new.frames_sent = frames
       /\ new.frames_max = st.frames_max /\ new.frame_samples = st.frame_samples
  <2> DEFINE x == st.samples_queued + f.n
  <2>1. x \in Int
    BY <1>15, <1>17 DEF StreamType
  <2>2. new = [st EXCEPT !.samples_queued = x, !.samples_sent = samples, !.frames_sent = frames]
    OBVIOUS
  <2>3. x = st.samples_queued + f.n
    OBVIOUS
  <2> HIDE DEF st, x, new
  <2>4. /\ new \in StreamType /\ new.samples_queued = x
        /\ new.samples_sent = samples /\ new.frames_sent = frames
    BY <1>15, <1>17, <1>18, <2>1, <2>2 DEF StreamType
  <2>5. /\ new.fifo = st.fifo /\ new.tb = st.tb /\ new.head_ts = st.head_ts
        /\ new.limiting = st.limiting /\ new.finished = st.finished
        /\ new.frames_max = st.frames_max /\ new.frame_samples = st.frame_samples
    BY <1>15, <2>2 DEF StreamType
  <2> QED BY <2>3, <2>4, <2>5
<1> HIDE DEF new, st
<1>20. /\ counted \in SyncQueueType /\ SameCore(updated, counted)
       /\ counted.streams = [updated.streams EXCEPT ![i] = new]
  <2> HIDE DEF counted
  <2>1. st = updated.streams[i]
    BY DEF st
  <2> QED BY <1>2, <1>13, <1>19, <2>1, Replace DEF counted
<1>21. /\ counted.streams[i] = new
       /\ \A j \in Streams \ {i} : counted.streams[j] = updated.streams[j]
  <2> HIDE DEF counted
  <2> QED BY <1>2, <1>13, <1>20 DEF SyncQueueType
<1>22. /\ HeadOK(updated) => HeadOK(counted)
       /\ KeepsEnds(updated, counted, {})
       /\ \A E : CutOK(updated, E) => CutOK(counted, E)
  <2>1. EnderOK(updated)
    BY <1>13 DEF KeepsEnds
  <2> HIDE DEF counted
  <2> QED BY <1>13, <1>20, <2>1, SameCoreKeeps
<1> HIDE DEF counted
<1>23. i \in Indices(counted) /\ EnderOK(counted)
  BY <1>12, <1>13, <1>20, <1>22 DEF Advances, SameCore, KeepsEnds
<1>24. r \in SyncQueueType /\ Moves(counted, r) /\ Advances(counted, r)
  <2>1. Advances(counted, counted)
    BY <1>20, SameAdvances
  <2> QED BY <1>1, <1>20, <1>23, <2>1, FinishStream, FinishAdvances DEF Advances
<1>25. KeepsEnds(counted, r, {}) /\ (HeadOK(counted) => HeadOK(r))
  <2>1. KeepsEnds(counted, counted, {})
    BY <1>23 DEF KeepsEnds
  <2>2. CASE frames >= st.frames_max
    <3>1. r = finish_stream(counted, i)
      BY <1>1, <2>2
    <3>2. ReachedOK(counted, {}) => ReachedOK(counted, {i})
      BY DEF ReachedOK
    <3> QED BY <1>20, <1>23, <3>1, <3>2, FinishKeeps DEF KeepsEnds
  <2> QED BY <1>1, <2>1, <2>2
<1>26. SameData(counted.streams[i], r.streams[i])
  BY <1>2, <1>20, <1>24, MovesSameData
<1>27. ASSUME NEW j \in Streams \ {i}
       PROVE  SameData(q.streams[j], r.streams[j])
  <2>1. SameData(counted.streams[j], r.streams[j])
    BY <1>20, <1>24, MovesSameData
  <2>2. SameData(updated.streams[j], r.streams[j])
    BY <1>21, <2>1
  <2>3. SameData(based.streams[j], updated.streams[j])
    <3>1. written.streams[j] = based.streams[j]
      BY <1>9
    <3>2. SameData(written.streams[j], updated.streams[j])
      BY <1>14
    <3> QED BY <3>1, <3>2
  <2>4. SameData(q.streams[j], based.streams[j])
    BY <1>5
  <2> QED BY <2>2, <2>3, <2>4 DEF SameData
<1>28. /\ r.nb_streams = q.nb_streams
       /\ Indices(r) = Indices(q) /\ Limiting(r) = Limiting(q)
       /\ Finished(q) \subseteq Finished(r)
  BY <1>4, <1>8, <1>13, <1>20, <1>24 DEF SameCore, Advances, Moves
<1>29. /\ EnderOK(r)
       /\ AllOK(q) => AllOK(r)
       /\ OnlyAllOK(q) => OnlyAllOK(r)
       /\ EarliestOK(q) => EarliestOK(r)
  BY <1>4, <1>10, <1>13, <1>22, <1>25 DEF KeepsEnds
<1>30. ASSUME Converts(q, i)
       PROVE  /\ HeadOK(q) => HeadOK(r)
              /\ ReachedOK(q, {}) => ReachedOK(r, {})
              /\ \A j \in Heads(q) : j \in Heads(r) /\ HeadTime(q, j) <= HeadTime(r, j)
  <2>1. SameCore(q, based)
    BY <1>4, <1>30
  <2>2. (HeadOK(q) => HeadOK(based)) /\ KeepsEnds(q, based, {})
    BY <2>1, SameCoreKeeps
  <2>3. HeadOK(q) => HeadOK(r)
    BY <1>10, <1>13, <1>22, <1>25, <2>2, Zenon
  <2>4. ReachedOK(q, {}) => ReachedOK(r, {})
    BY <1>10, <1>13, <1>22, <1>25, <2>2 DEF KeepsEnds
  <2>5. ASSUME NEW j \in Heads(q) PROVE j \in Heads(r) /\ HeadTime(q, j) <= HeadTime(r, j)
    <3>1. /\ j \in Heads(written) /\ HeadTime(written, j) = HeadTime(q, j)
      BY <1>8, <2>1 DEF SameCore
    <3>2. j \in Heads(updated) /\ HeadTime(written, j) <= HeadTime(updated, j)
      BY <1>13, <3>1 DEF Advances
    <3>3. j \in Heads(counted) /\ HeadTime(counted, j) = HeadTime(updated, j)
      BY <1>20, <3>2 DEF SameCore
    <3>4. j \in Heads(r) /\ HeadTime(counted, j) <= HeadTime(r, j)
      BY <1>24, <3>3 DEF Advances
    <3>5. HeadTime(q, j) \in Int /\ HeadTime(counted, j) \in Int /\ HeadTime(r, j) \in Int
      BY <1>20, <1>24, QueueTypes
    <3> QED BY <3>1, <3>2, <3>3, <3>4, <3>5
  <2> QED BY <2>3, <2>4, <2>5
<1>31. /\ r.streams[i].tb = Tb[i]
       /\ r.streams[i].limiting = q.streams[i].limiting
       /\ r.streams[i].frames_max = q.streams[i].frames_max
       /\ r.streams[i].frame_samples = q.streams[i].frame_samples
       /\ r.streams[i].samples_queued = q.streams[i].samples_queued + f.n
       /\ r.streams[i].samples_sent = q.streams[i].samples_sent + f.n
       /\ r.streams[i].frames_sent = FramesSent(q.streams[i], f.n)
       /\ r.streams[i].fifo = Append(q.streams[i].fifo, frame)
       /\ frames = r.streams[i].frames_sent /\ st.frames_max = r.streams[i].frames_max
  BY <1>16, <1>18, <1>19, <1>21, <1>26 DEF SameData, samples
<1>32. r.streams[i].frames_sent >= r.streams[i].frames_max => i \in Finished(r)
  BY <1>1, <1>20, <1>23, <1>31, FinishStream
<1>33. ASSUME NEW D, NEW E, CutOK(q, D), D \subseteq E,
              r.streams[i].frames_sent >= r.streams[i].frames_max => i \in E
       PROVE  CutOK(r, E)
  <2>1. CutOK(counted, D)
    BY <1>4, <1>10, <1>13, <1>22, <1>33
  <2>2. CASE frames >= st.frames_max
    BY <1>1, <1>20, <1>23, <1>31, <1>33, <2>1, <2>2, FinishCuts
  <2>3. CASE ~(frames >= st.frames_max)
    BY <1>1, <1>33, <2>1, <2>3 DEF CutOK
  <2> QED BY <2>2, <2>3
<1>34. \E g \in FrameType : g.n = f.n /\ r.streams[i].fifo = Append(q.streams[i].fifo, g)
  BY <1>3, <1>31
<1> QED BY <1>24, <1>27, <1>28, <1>29, <1>30, <1>31, <1>32, <1>33, <1>34
   DEF r, SendResult

-----------------------------------------------------------------------------
(* The samples in a FIFO.                                                  *)

(* g[k] is the number of samples in the first k frames.                    *)
Cumulates(s, g) ==
  /\ g \in [0 .. Len(s) -> Nat]
  /\ g[0] = 0
  /\ \A k \in 1 .. Len(s) : g[k] = g[k - 1] + s[k].n

LEMMA SamplesIs ==
  ASSUME NEW s \in Seq(FrameType), NEW g, Cumulates(s, g)
  PROVE  Samples(s) = g[Len(s)]
<1> DEFINE m == Len(s)
           Rec(u) == u = [k \in 0 .. m |-> IF k = 0 THEN 0 ELSE u[k - 1] + s[k].n]
           upTo == CHOOSE u : Rec(u)
<1>1. m \in Nat
  OBVIOUS
<1>2. Rec(g)
  <2>1. \A k \in 0 .. m : k # 0 => k \in 1 .. m
    BY <1>1
  <2> QED BY <1>1, <2>1 DEF Cumulates
<1>3. Rec(upTo)
  BY <1>2
<1>4. Samples(s) = upTo[m]
  BY DEF Samples
<1>5. /\ upTo[0] = 0
      /\ \A k \in 1 .. m : upTo[k] = upTo[k - 1] + s[k].n
  <2> HIDE DEF upTo
  <2> QED BY <1>1, <1>3
<1> HIDE DEF upTo, m
<1> DEFINE S == {k \in 0 .. m : upTo[k] = g[k]}
<1>6. 0 \in S
  BY <1>1, <1>5 DEF Cumulates
<1>7. ASSUME NEW k \in 0 .. m - 1, k \in S PROVE k + 1 \in S
  <2>1. k + 1 \in 1 .. m /\ k + 1 \in 0 .. m /\ (k + 1) - 1 = k
    BY <1>1
  <2>2. upTo[k + 1] = upTo[k] + s[k + 1].n /\ g[k + 1] = g[k] + s[k + 1].n
    BY <1>5, <2>1 DEF Cumulates, m
  <2> QED BY <1>7, <2>1, <2>2
<1>8. 0 .. m \subseteq S
  <2> HIDE DEF S
  <2> QED BY <1>1, <1>6, <1>7, BoundedInduction
<1>9. m \in S
  <2>1. m \in 0 .. m
    BY <1>1
  <2> HIDE DEF S
  <2> QED BY <1>8, <2>1
<1> QED BY <1>4, <1>9 DEF m

LEMMA SamplesCumulate ==
  ASSUME NEW s \in Seq(FrameType)
  PROVE  \E g : Cumulates(s, g)
<1> DEFINE m == Len(s)
           next == [k \in 1 .. m |-> [x \in Nat |-> x + s[k].n]]
<1>1. m \in Nat
  OBVIOUS
<1>2. \A k \in 1 .. m : s[k].n \in Nat
  <2>1. \A k \in 1 .. m : s[k] \in FrameType
    OBVIOUS
  <2> QED BY <2>1 DEF FrameType
<1>3. next \in [1 .. m -> [Nat -> Nat]]
  <2> HIDE DEF m
  <2> QED BY <1>1, <1>2
<1>4. PICK g \in [0 .. m -> Nat] : Computes(g, 0, next, m)
  <2> HIDE DEF next, m
  <2> QED BY <1>1, <1>3, RecursionExists
<1>5. ASSUME NEW k \in 1 .. m PROVE g[k] = g[k - 1] + s[k].n
  <2>1. g[k - 1] \in Nat
    BY <1>1
  <2>2. g[k] = next[k][g[k - 1]]
    BY <1>4 DEF Computes
  <2>3. next[k] = [x \in Nat |-> x + s[k].n]
    OBVIOUS
  <2> HIDE DEF next, m
  <2> QED BY <2>1, <2>2, <2>3
<1> QED BY <1>4, <1>5 DEF Cumulates, Computes

LEMMA SamplesType ==
  ASSUME NEW s \in Seq(FrameType)
  PROVE  Samples(s) \in Nat
<1>1. PICK g : Cumulates(s, g)
  BY SamplesCumulate
<1>2. Samples(s) = g[Len(s)]
  BY <1>1, SamplesIs
<1> QED BY <1>1, <1>2 DEF Cumulates

LEMMA SamplesConcat ==
  ASSUME NEW s \in Seq(FrameType), NEW t \in Seq(FrameType)
  PROVE  Samples(s \o t) = Samples(s) + Samples(t)
<1>1. PICK g : Cumulates(s, g)
  BY SamplesCumulate
<1>2. PICK h : Cumulates(t, h)
  BY SamplesCumulate
<1> DEFINE m == Len(s)
           n == Len(t)
           f == [k \in 0 .. m + n |-> IF k <= m THEN g[k] ELSE g[m] + h[k - m]]
<1>3. m \in Nat /\ n \in Nat /\ s \o t \in Seq(FrameType) /\ Len(s \o t) = m + n
  OBVIOUS
<1>4. /\ \A k \in 1 .. m : (s \o t)[k] = s[k]
      /\ \A k \in m + 1 .. m + n : (s \o t)[k] = t[k - m]
  OBVIOUS
<1>5. /\ g \in [0 .. m -> Nat] /\ g[0] = 0 /\ \A k \in 1 .. m : g[k] = g[k - 1] + s[k].n
      /\ h \in [0 .. n -> Nat] /\ h[0] = 0 /\ \A k \in 1 .. n : h[k] = h[k - 1] + t[k].n
  BY <1>1, <1>2 DEF Cumulates
<1> DEFINE st == s \o t
<1> HIDE DEF m, n, st
<1>6. f \in [0 .. m + n -> Nat]
  <2>1. ASSUME NEW k \in 0 .. m + n
        PROVE  (IF k <= m THEN g[k] ELSE g[m] + h[k - m]) \in Nat
    <3>1. CASE k <= m
      <4>1. k \in 0 .. m
        BY <1>3, <3>1
      <4> QED BY <1>5, <3>1, <4>1
    <3>2. CASE ~(k <= m)
      <4>1. k - m \in 0 .. n /\ m \in 0 .. m
        BY <1>3, <3>2
      <4>2. g[m] \in Nat /\ h[k - m] \in Nat
        BY <1>5, <4>1
      <4> QED BY <3>2, <4>2
    <3> QED BY <3>1, <3>2
  <2> QED BY <2>1
<1>7. f[0] = 0
  BY <1>3, <1>5
<1>8. ASSUME NEW k \in 1 .. m + n PROVE f[k] = f[k - 1] + st[k].n
  <2>1. k \in 0 .. m + n /\ k - 1 \in 0 .. m + n
    BY <1>3
  <2>2. CASE k <= m
    <3>1. k \in 1 .. m /\ f[k] = g[k] /\ f[k - 1] = g[k - 1]
      BY <1>3, <2>1, <2>2
    <3>2. st[k] = s[k]
      BY <1>4, <3>1 DEF st, m
    <3> QED BY <1>5, <3>1, <3>2
  <2>3. CASE k > m
    <3>1. k \in m + 1 .. m + n /\ k - m \in 1 .. n /\ (k - m) - 1 = (k - 1) - m
      BY <1>3, <2>3
    <3>2. st[k] = t[k - m]
      BY <1>4, <3>1 DEF st, m, n
    <3>3. f[k] = g[m] + h[k - m]
      BY <1>3, <2>1, <2>3
    <3>4. f[k - 1] = g[m] + h[(k - m) - 1]
      <4>1. CASE k = m + 1
        <5>1. f[k - 1] = g[m] /\ (k - m) - 1 = 0 /\ m \in 0 .. m
          BY <1>3, <2>1, <4>1
        <5>2. g[m] \in Nat
          BY <1>5, <5>1
        <5> QED BY <1>5, <5>1, <5>2
      <4>2. CASE k # m + 1
        <5>1. k - 1 > m
          BY <1>3, <2>3, <4>2
        <5> QED BY <1>3, <2>1, <3>1, <5>1
      <4> QED BY <4>1, <4>2
    <3>5. h[k - m] = h[(k - m) - 1] + t[k - m].n
      BY <1>5, <3>1
    <3>6. g[m] \in Nat /\ h[(k - m) - 1] \in Nat /\ t[k - m].n \in Nat
      <4>1. m \in 0 .. m /\ (k - m) - 1 \in 0 .. n
        BY <1>3, <3>1
      <4>2. t[k - m] \in FrameType
        BY <3>1 DEF n
      <4> QED BY <1>5, <4>1, <4>2 DEF FrameType
    <3> HIDE DEF f
    <3> QED BY <3>2, <3>3, <3>4, <3>5, <3>6
  <2> QED BY <1>3, <2>2, <2>3
<1>9. Len(st) = m + n /\ st \in Seq(FrameType)
  BY <1>3 DEF st
<1>10. Samples(st) = f[m + n]
  <2> HIDE DEF f
  <2> QED BY <1>6, <1>7, <1>8, <1>9, SamplesIs DEF Cumulates
<1>11. f[m + n] = g[m] + h[n]
  <2>1. CASE n = 0
    <3>1. f[m + n] = g[m] /\ m \in 0 .. m
      BY <1>3, <2>1
    <3> QED BY <1>5, <2>1, <3>1
  <2>2. CASE n # 0
    BY <1>3, <2>2
  <2> QED BY <2>1, <2>2
<1>12. Samples(s) = g[m] /\ Samples(t) = h[n]
  BY <1>1, <1>2, SamplesIs DEF m, n
<1> HIDE DEF f
<1> QED BY <1>10, <1>11, <1>12 DEF st

LEMMA SamplesOfOne ==
  /\ Samples(<< >>) = 0
  /\ \A x \in FrameType : Samples(<<x>>) = x.n
<1>1. Samples(<< >>) = 0
  <2>1. Cumulates(<< >>, [k \in 0 .. 0 |-> 0])
    BY DEF Cumulates
  <2>2. << >> \in Seq(FrameType) /\ Len(<< >>) = 0
    OBVIOUS
  <2> QED BY <2>1, <2>2, SamplesIs
<1>2. ASSUME NEW x \in FrameType PROVE Samples(<<x>>) = x.n
  <2> DEFINE s == <<x>>
             g == [k \in 0 .. 1 |-> IF k = 0 THEN 0 ELSE x.n]
  <2>1. s \in Seq(FrameType) /\ Len(s) = 1 /\ s[1] = x /\ x.n \in Nat
    BY DEF FrameType
  <2>2. Cumulates(s, g)
    <3> HIDE DEF s
    <3> QED BY <2>1 DEF Cumulates
  <2>3. g[1] = x.n
    OBVIOUS
  <2> HIDE DEF s, g
  <2>4. Samples(s) = x.n
    BY <2>1, <2>2, <2>3, SamplesIs
  <2> QED BY <2>4 DEF s
<1> QED BY <1>1, <1>2

LEMMA SamplesAppend ==
  ASSUME NEW s \in Seq(FrameType), NEW x \in FrameType
  PROVE  Samples(Append(s, x)) = Samples(s) + x.n
<1>1. Append(s, x) = s \o <<x>> /\ <<x>> \in Seq(FrameType)
  OBVIOUS
<1> QED BY <1>1, SamplesConcat, SamplesOfOne

LEMMA SamplesTail ==
  ASSUME NEW s \in Seq(FrameType), s # << >>
  PROVE  Tail(s) \in Seq(FrameType) /\ Samples(s) = s[1].n + Samples(Tail(s))
<1>1. /\ s = <<s[1]>> \o Tail(s) /\ s[1] \in FrameType
      /\ <<s[1]>> \in Seq(FrameType) /\ Tail(s) \in Seq(FrameType)
  OBVIOUS
<1>2. Samples(<<s[1]>> \o Tail(s)) = s[1].n + Samples(Tail(s))
  BY <1>1, SamplesConcat, SamplesOfOne
<1> QED BY <1>1, <1>2

LEMMA SamplesCut ==
  ASSUME NEW s \in Seq(FrameType), NEW k \in 0 .. Len(s)
  PROVE  /\ SubSeq(s, 1, k) \in Seq(FrameType) /\ SubSeq(s, k + 1, Len(s)) \in Seq(FrameType)
         /\ Samples(s) = Samples(SubSeq(s, 1, k)) + Samples(SubSeq(s, k + 1, Len(s)))
<1> DEFINE a == SubSeq(s, 1, k)
           b == SubSeq(s, k + 1, Len(s))
<1>1. a \in Seq(FrameType) /\ b \in Seq(FrameType)
  OBVIOUS
<1>2. s = a \o b
  <2>1. /\ Len(a) = k /\ Len(b) = Len(s) - k
        /\ \A x \in 1 .. k : a[x] = s[x]
        /\ \A x \in 1 .. Len(s) - k : b[x] = s[k + x]
    OBVIOUS
  <2>2. a \o b \in Seq(FrameType) /\ Len(a \o b) = Len(s)
    <3>1. Len(s) \in Nat /\ Len(a \o b) = Len(a) + Len(b) /\ a \o b \in Seq(FrameType)
      <4> HIDE DEF a, b
      <4> QED BY <1>1
    <3> HIDE DEF a, b
    <3> QED BY <2>1, <3>1
  <2>3. ASSUME NEW x \in 1 .. Len(s) PROVE (a \o b)[x] = s[x]
    <3>1. CASE x <= k
      <4>1. x \in 1 .. k
        BY <3>1
      <4> HIDE DEF a, b
      <4> QED BY <1>1, <2>1, <4>1
    <3>2. CASE x > k
      <4>1. x - k \in 1 .. Len(s) - k /\ k + (x - k) = x
        BY <3>2
      <4>2. b[x - k] = s[x]
        <5> HIDE DEF a, b
        <5> QED BY <2>1, <4>1
      <4>3. x \in Len(a) + 1 .. Len(a) + Len(b) /\ x - Len(a) = x - k
        <5> HIDE DEF a, b
        <5> QED BY <2>1, <3>2
      <4> HIDE DEF a, b
      <4>4. (a \o b)[x] = b[x - Len(a)]
        BY <1>1, <4>3
      <4> QED BY <4>2, <4>3, <4>4
    <3>3. x <= k \/ x > k
      OBVIOUS
    <3> HIDE DEF a, b
    <3> QED BY <3>1, <3>2, <3>3
  <2> HIDE DEF a, b
  <2> QED BY <2>2, <2>3, SeqEqual
<1>3. Samples(a \o b) = Samples(a) + Samples(b)
  <2> HIDE DEF a, b
  <2> QED BY <1>1, SamplesConcat
<1> QED BY <1>1, <1>2, <1>3

(* A FIFO without frames that have no samples.                             *)
NoneEmpty(fifo) == \A k \in 1 .. Len(fifo) : fifo[k].n > 0

LEMMA SamplesPositive ==
  ASSUME NEW s \in Seq(FrameType), s # << >>, NoneEmpty(s)
  PROVE  Samples(s) > 0
<1>1. 1 \in 1 .. Len(s)
  OBVIOUS
<1>2. s[1].n > 0 /\ s[1] \in FrameType
  BY <1>1 DEF NoneEmpty
<1>3. s[1].n \in Nat
  BY <1>2 DEF FrameType
<1>4. Samples(Tail(s)) \in Nat
  BY SamplesTail, SamplesType
<1> QED BY <1>2, <1>3, <1>4, SamplesTail

(* receive_samples() takes exactly the samples it is asked for, and what   *)
(* it leaves of a frame it has begun is not empty.                         *)
LEMMA WithoutTakes ==
  ASSUME NEW i \in Streams, NEW s \in Seq(FrameType), NEW n \in Nat, n <= Samples(s)
  PROVE  LET r == Without(i, s, n)
         IN /\ r \in Seq(FrameType)
            /\ Samples(r) = Samples(s) - n
            /\ n = Samples(s) => r = << >>
            /\ NoneEmpty(s) => NoneEmpty(r)
<1> DEFINE m == Len(s)
           first(k) == Samples(SubSeq(s, 1, k))
           Taken(k) == first(k) <= n /\ (k < m => first(k + 1) > n)
           whole == CHOOSE k \in 0 .. m : Taken(k)
           part == n - first(whole)
           rest == SubSeq(s, whole + 1, m)
           r == Without(i, s, n)
<1>1. m \in Nat
  OBVIOUS
<1>2. \A k \in 0 .. m : first(k) \in Nat
  BY SamplesCut, SamplesType
<1>3. first(0) = 0
  <2>1. SubSeq(s, 1, 0) = << >>
    OBVIOUS
  <2> QED BY <2>1, SamplesOfOne
<1>4. first(m) = Samples(s)
  <2>1. SubSeq(s, 1, m) = s
    OBVIOUS
  <2> QED BY <2>1
<1>5. r = IF part = 0 THEN rest ELSE <<Offset(i, rest[1], part)>> \o Tail(rest)
  BY DEF Without
<1>6. \E k \in 0 .. m : Taken(k)
  <2> HIDE DEF first, m
  <2> DEFINE T == {k \in 0 .. m : first(k) > n}
  <2>1. CASE T = {}
    <3>1. m \in 0 .. m
      BY <1>1
    <3>2. Taken(m)
      BY <1>1, <1>2, <2>1, <3>1
    <3> QED BY <3>1, <3>2
  <2>2. CASE T # {}
    <3>1. PICK x \in T : \A y \in T : x <= y
      <4>1. T \in SUBSET Nat
        BY <1>1
      <4> HIDE DEF T
      <4> QED BY <2>2, <4>1, Smallest
    <3>2. x \in 0 .. m /\ first(x) > n /\ x # 0
      BY <1>3
    <3>3. x - 1 \in 0 .. m /\ x - 1 \notin T /\ (x - 1) + 1 = x
      BY <1>1, <3>1, <3>2
    <3>4. Taken(x - 1)
      BY <1>1, <1>2, <3>2, <3>3
    <3> QED BY <3>3, <3>4
  <2> QED BY <2>1, <2>2
<1>7. whole \in 0 .. m /\ Taken(whole)
  <2> HIDE DEF Taken
  <2> QED BY <1>6
<1> HIDE DEF whole, r
<1>8. /\ rest \in Seq(FrameType)
      /\ Samples(s) = first(whole) + Samples(rest)
  BY <1>7, SamplesCut
<1>9. part \in Nat /\ (whole = m => part = 0)
  <2> HIDE DEF first
  <2> QED BY <1>2, <1>4, <1>7
<1>10. Samples(rest) \in Nat
  BY <1>8, SamplesType
<1>11. NoneEmpty(s) => NoneEmpty(rest)
  <2>1. SUFFICES ASSUME NoneEmpty(s), NEW k \in 1 .. Len(rest) PROVE rest[k].n > 0
    BY DEF NoneEmpty
  <2>2. whole + k \in 1 .. m /\ rest[k] = s[whole + k]
    BY <1>7
  <2> HIDE DEF rest
  <2> QED BY <2>1, <2>2 DEF NoneEmpty
<1>12. n = Samples(s) => whole = m
  <2>1. ASSUME whole < m PROVE first(whole + 1) <= Samples(s)
    <3>1. whole + 1 \in 0 .. m
      BY <1>7, <2>1
    <3>2. /\ Samples(s) = first(whole + 1) + Samples(SubSeq(s, (whole + 1) + 1, m))
          /\ SubSeq(s, (whole + 1) + 1, m) \in Seq(FrameType)
      BY <3>1, SamplesCut
    <3>3. Samples(SubSeq(s, (whole + 1) + 1, m)) \in Nat
      BY <3>2, SamplesType
    <3> HIDE DEF first
    <3> QED BY <1>2, <3>1, <3>2, <3>3
  <2> HIDE DEF first
  <2>2. whole < m => first(whole + 1) \in Nat
    BY <1>2, <1>7
  <2>3. Samples(s) \in Nat
    BY SamplesType
  <2> QED BY <1>1, <1>7, <2>1, <2>2, <2>3
<1>13. CASE part = 0
  <2>1. r = rest
    BY <1>5, <1>13
  <2>2. first(whole) = n
    <3> HIDE DEF first
    <3> QED BY <1>2, <1>7, <1>13
  <2>3. whole = m => rest = << >>
    OBVIOUS
  <2> HIDE DEF rest, first
  <2> QED BY <1>8, <1>10, <1>11, <1>12, <2>1, <2>2, <2>3 DEF r
<1>14. CASE part # 0
  <2>1. whole < m /\ whole + 1 \in 0 .. m
    BY <1>1, <1>7, <1>9, <1>14
  <2>2. rest # << >> /\ rest[1] = s[whole + 1] /\ rest[1] \in FrameType
    BY <1>7, <2>1
  <2>3. first(whole + 1) = first(whole) + rest[1].n
    <3> DEFINE a == SubSeq(s, 1, whole)
    <3>1. SubSeq(s, 1, whole + 1) = Append(a, s[whole + 1]) /\ a \in Seq(FrameType)
      BY <1>7, <2>1
    <3> HIDE DEF a
    <3>2. Samples(Append(a, s[whole + 1])) = Samples(a) + rest[1].n
      BY <2>2, <3>1, SamplesAppend
    <3> QED BY <3>1, <3>2 DEF a
  <2> DEFINE x == rest[1]
             o == Offset(i, x, part)
             t == Tail(rest)
  <2>4. x.n \in Nat /\ x.pts \in Int
    BY <2>2 DEF FrameType
  <2>5. x.n - part \in Nat /\ x.n - part > 0
    <3> HIDE DEF first, rest
    <3> QED BY <1>2, <1>7, <1>9, <2>1, <2>3, <2>4
  <2>6. o \in FrameType /\ o.n = x.n - part
    <3> HIDE DEF x, part
    <3>1. SamplesDuration(i, part) \in Int /\ SamplesDuration(i, x.n - part) \in Int
      BY <1>9, <2>5, SamplesDurationType
    <3>2. Wrap(x.pts + SamplesDuration(i, part)) \in Int
      <4>1. x.pts + SamplesDuration(i, part) \in Int
        BY <2>4, <3>1
      <4> QED BY <4>1, WrapType
    <3> QED BY <2>5, <3>1, <3>2 DEF Offset, FrameType
  <2>7. t \in Seq(FrameType) /\ Samples(rest) = x.n + Samples(t)
    <3> HIDE DEF rest
    <3> QED BY <1>8, <2>2, SamplesTail
  <2>8. Samples(t) \in Nat
    BY <2>7, SamplesType
  <2>9. r = <<o>> \o t
    BY <1>5, <1>14
  <2> HIDE DEF o, t, x
  <2>10. r \in Seq(FrameType) /\ Samples(r) = o.n + Samples(t)
    <3>1. <<o>> \in Seq(FrameType) /\ <<o>> \o t \in Seq(FrameType)
      BY <2>6, <2>7
    <3>2. Samples(<<o>> \o t) = Samples(<<o>>) + Samples(t)
      BY <2>7, <3>1, SamplesConcat
    <3>3. Samples(<<o>>) = o.n
      BY <2>6, SamplesOfOne
    <3> QED BY <2>9, <3>1, <3>2, <3>3
  <2>11. Samples(r) = Samples(s) - n
    <3>1. part = n - first(whole) /\ first(whole) \in Nat
      BY <1>2, <1>7
    <3> HIDE DEF first, part, rest
    <3> QED BY <1>8, <1>9, <2>4, <2>6, <2>7, <2>8, <2>10, <3>1
  <2>12. n # Samples(s)
    BY <1>12, <2>1
  <2>13. NoneEmpty(rest) => NoneEmpty(r)
    <3>1. SUFFICES ASSUME NoneEmpty(rest), NEW k \in 1 .. Len(r) PROVE r[k].n > 0
      BY DEF NoneEmpty
    <3>2. CASE k = 1
      <4>1. r[1] = o
        BY <2>6, <2>7, <2>9
      <4> QED BY <2>5, <2>6, <3>2, <4>1
    <3>3. CASE k # 1
      <4>1. k - 1 \in 1 .. Len(t) /\ r[k] = t[k - 1]
        BY <2>6, <2>7, <2>9, <3>3
      <4> HIDE DEF rest
      <4>2. k \in 1 .. Len(rest) /\ t[k - 1] = rest[k]
        BY <1>8, <2>2, <4>1 DEF t
      <4> QED BY <3>1, <4>1, <4>2 DEF NoneEmpty
    <3> QED BY <3>2, <3>3
  <2> HIDE DEF rest, part, first
  <2> QED BY <1>11, <2>10, <2>11, <2>12, <2>13 DEF r
<1> QED BY <1>13, <1>14

-----------------------------------------------------------------------------
(* The inductive invariant.                                                *)

Types ==
  /\ sq \in SyncQueueType
  /\ pc \in {"setup", "idle", "receive", "again", "beat"}
  /\ beat \in [next : Nat, from : Streams, ts : Int]
  /\ in_finished \in [Streams -> BOOLEAN]
  /\ closed \in [Streams -> BOOLEAN]
  /\ eof \in BOOLEAN
  /\ sent \in [Streams -> Nat]
  /\ got \in [Streams -> Nat]
  /\ samples_got \in [Streams -> Nat]
  /\ lastEnd \in [Streams -> Int] /\ \A i \in Streams : lastEnd[i] >= NOPTS

(* Streams are only added before anything is sent.                         *)
Unused(i) ==
  /\ sent[i] = 0 /\ ~closed[i] /\ ~in_finished[i] /\ lastEnd[i] = NOPTS
  /\ sq.streams[i].head_ts = NOPTS

SetupOK ==
  /\ pc = "setup" <=> sq.nb_streams < NbStreams
  /\ \A i \in Streams \ Indices(sq) : sq.streams[i] = NoStream
  /\ pc = "setup" => /\ sq.head_stream = None /\ sq.head_finished_stream = None
                     /\ \A i \in Streams : Unused(i)
                     /\ ~eof

NothingSent ==
  \A i \in Streams :
     sent[i] = 0 => /\ sq.streams[i].fifo = << >> /\ sq.streams[i].samples_sent = 0
                    /\ got[i] = 0 /\ samples_got[i] = 0

(* The streams that have ended for a reason of their own.                  *)
EndedStreams ==
  {i \in Streams : \/ closed[i]
                   \/ in_finished[i]
                   \/ sq.streams[i].frames_sent >= sq.streams[i].frames_max}

EndsOK ==
  /\ EndedStreams \subseteq Finished(sq)
  /\ EnderOK(sq) /\ EarliestOK(sq) /\ AllOK(sq)
  /\ CutOK(sq, EndedStreams)

IInv == Types /\ SetupOK /\ NothingSent /\ EndsOK /\ SamplesAddUp

HeadsConvert == \A i \in Streams : Converts(sq, i)

LinedUp == HeadOK(sq) /\ ReachedOK(sq, {}) /\ NoneGetsAhead

ShortOK ==
  \A i \in Streams :
     LET st == sq.streams[i]
     IN /\ st.frame_samples # 0 => Sizes[i] # {}
        /\ Sizes[i] # {} => NoneEmpty(st.fifo)
        /\ st.frame_samples # 0 =>
             \/ samples_got[i] = got[i] * st.frame_samples
             \/ /\ samples_got[i] \in (got[i] - 1) * st.frame_samples .. got[i] * st.frame_samples
                /\ st.finished /\ st.fifo = << >>

OverOK ==
  /\ pc = "setup" => ~sq.finished
  /\ OnlyAllOK(sq)
  /\ eof => NoneReady /\ \A i \in Streams : sq.streams[i].finished

-----------------------------------------------------------------------------
(* Receiving.                                                              *)

LEMMA NbSamplesTaken ==
  ASSUME NEW st \in StreamType, st.fifo # << >>, st.samples_queued = Samples(st.fifo),
         st.frame_samples <= st.samples_queued \/ st.finished
  PROVE  /\ NbSamples(st) \in Nat /\ NbSamples(st) <= Samples(st.fifo)
         /\ NbTaken(st) \in Nat
         /\ NbSamples(st) # 0 => NbTaken(st) = NbSamples(st)
         /\ NbSamples(st) = 0 => NbTaken(st) = st.fifo[1].n
         /\ st.frame_samples # 0 /\ NoneEmpty(st.fifo) =>
              \/ NbTaken(st) = st.frame_samples /\ NbSamples(st) # 0
              \/ /\ NbTaken(st) \in 1 .. st.frame_samples /\ NbSamples(st) # 0
                 /\ NbTaken(st) = Samples(st.fifo) /\ st.finished
<1> DEFINE n == NbSamples(st)
<1>1. /\ st.fifo \in Seq(FrameType) /\ st.frame_samples \in Nat
      /\ Samples(st.fifo) \in Nat
  BY SamplesType DEF StreamType
<1>2. st.fifo[1].n \in Nat
  <2>1. st.fifo[1] \in FrameType
    BY <1>1
  <2> QED BY <2>1 DEF FrameType
<1>3. n = IF st.finished /\ Samples(st.fifo) < st.frame_samples
          THEN Samples(st.fifo) ELSE st.frame_samples
  BY DEF NbSamples
<1>4. n \in Nat /\ n <= Samples(st.fifo)
  <2> HIDE DEF n
  <2> QED BY <1>1, <1>3
<1>5. NbTaken(st) = IF n = 0 THEN st.fifo[1].n ELSE n
  BY DEF NbTaken
<1>6. NoneEmpty(st.fifo) => Samples(st.fifo) > 0
  BY <1>1, SamplesPositive
<1> HIDE DEF n
<1> QED BY <1>1, <1>2, <1>3, <1>4, <1>5, <1>6 DEF n

LEMMA SqReceive ==
  ASSUME NEW q \in SyncQueueType, NEW i \in Streams,
         q.streams[i].fifo # << >>, q.streams[i].samples_queued = Samples(q.streams[i].fifo),
         q.streams[i].frame_samples <= q.streams[i].samples_queued \/ q.streams[i].finished
  PROVE  LET r == receive_for_stream(q, i)
             st == q.streams[i]
         IN /\ r \in SyncQueueType /\ SameCore(q, r)
            /\ r.head_stream = q.head_stream
            /\ \E g \in Seq(FrameType) :
                 /\ r.streams = [q.streams EXCEPT ![i] =
                                   [st EXCEPT !.fifo = g,
                                              !.samples_queued = Samples(g)]]
                 /\ Samples(g) = Samples(st.fifo) - NbTaken(st)
                 /\ NoneEmpty(st.fifo) => NoneEmpty(g)
                 /\ NbSamples(st) # 0 /\ NbTaken(st) = Samples(st.fifo) => g = << >>
<1> DEFINE st == q.streams[i]
           r == receive_for_stream(q, i)
           g == IF NbSamples(st) = 0 THEN Tail(st.fifo) ELSE Without(i, st.fifo, NbSamples(st))
           k == st.samples_queued - NbTaken(st)
           s == [st EXCEPT !.fifo = g, !.samples_queued = k]
<1>1. r = [q EXCEPT !.streams[i] = s]
  BY DEF receive_for_stream
<1>2. st \in StreamType /\ st.fifo \in Seq(FrameType)
  BY QueueTypes DEF StreamType
<1>3. /\ NbSamples(st) \in Nat /\ NbSamples(st) <= Samples(st.fifo)
      /\ NbTaken(st) \in Nat
      /\ NbSamples(st) # 0 => NbTaken(st) = NbSamples(st)
      /\ NbSamples(st) = 0 => NbTaken(st) = st.fifo[1].n
  BY <1>2, NbSamplesTaken
<1>4. Samples(st.fifo) \in Nat /\ st.samples_queued = Samples(st.fifo)
  BY <1>2, SamplesType
<1> DEFINE f == st.fifo
<1>5. /\ g \in Seq(FrameType)
      /\ Samples(g) = Samples(f) - NbTaken(st)
      /\ NoneEmpty(f) => NoneEmpty(g)
      /\ NbSamples(st) # 0 /\ NbTaken(st) = Samples(f) => g = << >>
  <2>1. CASE NbSamples(st) = 0
    <3>1. g = Tail(f) /\ f # << >> /\ f \in Seq(FrameType)
      BY <1>2, <2>1
    <3>2. Tail(f) \in Seq(FrameType) /\ Samples(f) = f[1].n + Samples(Tail(f))
      <4> HIDE DEF f
      <4> QED BY <3>1, SamplesTail
    <3>3. NoneEmpty(f) => NoneEmpty(Tail(f))
      <4> HIDE DEF f
      <4> QED BY <3>1 DEF NoneEmpty
    <3>4. f[1].n \in Nat /\ Samples(Tail(f)) \in Nat
      <4>1. f[1] \in FrameType
        <5> HIDE DEF f
        <5> QED BY <3>1
      <4>2. Samples(Tail(f)) \in Nat
        BY <3>2, SamplesType
      <4> HIDE DEF f
      <4> QED BY <4>1, <4>2 DEF FrameType
    <3> HIDE DEF g, st
    <3> QED BY <1>3, <1>4, <2>1, <3>1, <3>2, <3>3, <3>4
  <2>2. CASE NbSamples(st) # 0
    <3>1. g = Without(i, f, NbSamples(st))
      BY <2>2
    <3> HIDE DEF st, f, g
    <3>2. f \in Seq(FrameType) /\ NbSamples(st) <= Samples(f) /\ NbSamples(st) \in Nat
      BY <1>2, <1>3 DEF f
    <3> QED BY <1>3, <2>2, <3>1, <3>2, WithoutTakes
  <2> QED BY <2>1, <2>2
<1>6. k = Samples(g) /\ k \in Int
  <2> HIDE DEF g, st
  <2> QED BY <1>3, <1>4, <1>5
<1> HIDE DEF g, k
<1>7. /\ s \in StreamType /\ s.tb = st.tb /\ s.head_ts = st.head_ts
      /\ s.limiting = st.limiting /\ s.finished = st.finished
  <2> HIDE DEF st
  <2> QED BY <1>2, <1>5, <1>6 DEF StreamType
<1>8. r \in SyncQueueType /\ SameCore(q, r) /\ r.streams = [q.streams EXCEPT ![i] = s]
  <2>1. st = q.streams[i]
    OBVIOUS
  <2> HIDE DEF s, r, st
  <2> QED BY <1>1, <1>7, <2>1, Replace
<1>9. r.streams = [q.streams EXCEPT ![i] = [st EXCEPT !.fifo = g, !.samples_queued = Samples(g)]]
  BY <1>6, <1>8
<1> HIDE DEF s, r
<1> QED BY <1>5, <1>8, <1>9 DEF r, SameCore

-----------------------------------------------------------------------------
(* The invariant holds.                                                    *)

LEMMA FrameTypes ==
  ASSUME NEW i \in Streams, NEW f \in Frames[i]
  PROVE  f \in FrameType
<1>1. f \in [pts : NOPTS .. Int64 - 1, dur : Nat, n : Nat]
  BY SyncQueueAssumption DEF SyncQueueAssumption
<1> QED BY <1>1, Constants DEF FrameType

LEMMA AllAdded ==
  ASSUME Types, SetupOK, pc # "setup"
  PROVE  Indices(sq) = Streams
<1>1. sq.nb_streams \in 0 .. NbStreams /\ ~(sq.nb_streams < NbStreams)
  BY DEF Types, SetupOK, SyncQueueType
<1>2. sq.nb_streams = NbStreams
  BY <1>1, Constants
<1> QED BY <1>2 DEF Indices, Streams

(* A stream whose frames are left alone.                                   *)
LEMMA StreamStays ==
  ASSUME NothingSent, SamplesAddUp, NEW j \in Streams,
         SameData(sq.streams[j], sq'.streams[j]),
         got'[j] = got[j], samples_got'[j] = samples_got[j], sent'[j] = sent[j]
  PROVE  /\ sent'[j] = 0 => /\ sq'.streams[j].fifo = << >>
                            /\ sq'.streams[j].samples_sent = 0
                            /\ got'[j] = 0 /\ samples_got'[j] = 0
         /\ sq'.streams[j].samples_queued = Samples(sq'.streams[j].fifo)
         /\ samples_got'[j] + sq'.streams[j].samples_queued = sq'.streams[j].samples_sent
BY DEF NothingSent, SamplesAddUp, SameData

LEMMA NoStreamType ==
  /\ NoStream \in StreamType /\ NoStream.fifo = << >> /\ NoStream.head_ts = NOPTS
  /\ NoStream.finished = FALSE /\ NoStream.limiting = FALSE
  /\ NoStream.frames_sent = 0 /\ NoStream.samples_sent = 0
  /\ NoStream.samples_queued = 0 /\ NoStream.frame_samples = 0
  /\ NoStream.frames_max \in Nat \ {0} /\ NoStream.tb = OneSecond
<1>1. << >> \in Seq(FrameType)
  OBVIOUS
<1> QED BY <1>1, Constants DEF NoStream, StreamType

LEMMA InitIInv == Init => IInv
<1> SUFFICES ASSUME Init PROVE IInv
  OBVIOUS
<1>1. /\ sq.streams = [i \in Streams |-> NoStream] /\ sq.nb_streams = 0
      /\ sq.finished = FALSE /\ sq.head_stream = None /\ sq.head_finished_stream = None
      /\ \A i \in Streams : sq.streams[i] = NoStream
  BY DEF Init
<1>2. sq \in SyncQueueType
  BY NoStreamType, Constants DEF Init, SyncQueueType
<1>3. 0 \in Streams /\ NOPTS \in Int
  BY Constants DEF Streams
<1>4. Indices(sq) = {}
  BY <1>1 DEF Indices
<1>5. Types
  <2>1. beat \in [next : Nat, from : Streams, ts : Int]
    BY <1>3 DEF Init, NoBeat
  <2>2. /\ in_finished \in [Streams -> BOOLEAN] /\ closed \in [Streams -> BOOLEAN]
        /\ sent \in [Streams -> Nat] /\ got \in [Streams -> Nat]
        /\ samples_got \in [Streams -> Nat]
    BY DEF Init
  <2>3. lastEnd \in [Streams -> Int] /\ \A i \in Streams : lastEnd[i] >= NOPTS
    BY <1>3 DEF Init
  <2>4. eof \in BOOLEAN /\ pc = "setup"
    BY DEF Init
  <2> QED BY <1>2, <2>1, <2>2, <2>3, <2>4 DEF Types
<1>6. SetupOK
  BY <1>1, Constants, NoStreamType DEF Init, SetupOK, Unused
<1>7. NothingSent /\ SamplesAddUp
  BY <1>1, NoStreamType, SamplesOfOne DEF Init, NothingSent, SamplesAddUp
<1>8. EndedStreams = {}
  BY <1>1, NoStreamType DEF Init, EndedStreams
<1>9. Heads(sq) = {} /\ Finished(sq) = {} /\ Enders(sq) = {}
  BY <1>4 DEF Heads, Finished, Enders
<1>10. EndsOK
  BY <1>1, <1>4, <1>8, <1>9 DEF EndsOK, EnderOK, EarliestOK, AllOK, CutOK
<1> QED BY <1>5, <1>6, <1>7, <1>10 DEF IInv

LEMMA FrameSamplesIInv ==
  ASSUME IInv, NEW i \in Streams, NEW k \in Sizes[i], sq_frame_samples(i, k)
  PROVE  /\ IInv' /\ SameCore(sq, sq')
         /\ \A j \in Streams : sq'.streams[j].tb = sq.streams[j].tb
<1> DEFINE s == [sq.streams[i] EXCEPT !.frame_samples = k]
<1>1. Types /\ SetupOK /\ NothingSent /\ EndsOK /\ SamplesAddUp
  BY DEF IInv
<1>2. k \in Nat
  BY SyncQueueAssumption DEF SyncQueueAssumption
<1>3. sq \in SyncQueueType /\ sq.streams[i] \in StreamType /\ sq.streams \in [Streams -> StreamType]
  BY <1>1, QueueTypes DEF Types, SyncQueueType
<1>4. sq' = [sq EXCEPT !.streams[i] = s]
  BY <1>3 DEF sq_frame_samples
<1>5. /\ s \in StreamType /\ s.tb = sq.streams[i].tb /\ s.head_ts = sq.streams[i].head_ts
      /\ s.limiting = sq.streams[i].limiting /\ s.finished = sq.streams[i].finished
      /\ s.fifo = sq.streams[i].fifo /\ s.samples_queued = sq.streams[i].samples_queued
      /\ s.samples_sent = sq.streams[i].samples_sent
      /\ s.frames_sent = sq.streams[i].frames_sent /\ s.frames_max = sq.streams[i].frames_max
  BY <1>2, <1>3 DEF StreamType
<1> HIDE DEF s
<1>6. sq' \in SyncQueueType /\ SameCore(sq, sq') /\ sq'.streams = [sq.streams EXCEPT ![i] = s]
  BY <1>3, <1>4, <1>5, Replace
<1>7. sq'.streams[i] = s /\ \A j \in Streams \ {i} : sq'.streams[j] = sq.streams[j]
  BY <1>3, <1>6
<1>8. KeepsEnds(sq, sq', {}) /\ \A E : CutOK(sq, E) => CutOK(sq', E)
  BY <1>1, <1>3, <1>6, SameCoreKeeps DEF EndsOK
<1>9. /\ pc = "idle" /\ pc' = pc /\ beat' = beat /\ in_finished' = in_finished
      /\ closed' = closed /\ eof' = eof /\ sent' = sent /\ got' = got
      /\ samples_got' = samples_got /\ lastEnd' = lastEnd
  BY DEF sq_frame_samples
<1>10. Types'
  BY <1>1, <1>6, <1>9 DEF Types
<1>11. Indices(sq) = Streams
  BY <1>1, <1>9, AllAdded
<1>12. SetupOK'
  BY <1>1, <1>6, <1>9, <1>11 DEF SetupOK, SameCore
<1>13. NothingSent' /\ SamplesAddUp'
  BY <1>1, <1>5, <1>7, <1>9 DEF NothingSent, SamplesAddUp
<1>14. EndedStreams' = EndedStreams
  BY <1>5, <1>7, <1>9 DEF EndedStreams
<1>15. EndsOK'
  BY <1>1, <1>6, <1>8, <1>14 DEF EndsOK, KeepsEnds, SameCore
<1> QED BY <1>5, <1>6, <1>7, <1>10, <1>12, <1>13, <1>15 DEF IInv

(* Steps that leave the queue alone.                                       *)
LEMMA QueueStaysIInv ==
  ASSUME IInv, Types', pc # "setup", pc' # "setup",
         UNCHANGED <<sq, in_finished, closed, sent, got, samples_got, lastEnd>>
  PROVE  IInv'
<1>1. SetupOK'
  BY AllAdded DEF IInv, SetupOK
<1>2. NothingSent' /\ SamplesAddUp'
  BY DEF IInv, NothingSent, SamplesAddUp
<1>3. EndedStreams' = EndedStreams
  BY DEF EndedStreams
<1>4. EndsOK'
  BY <1>3 DEF IInv, EndsOK
<1> QED BY <1>1, <1>2, <1>4 DEF IInv

(* What adding a stream makes of the queue.                                *)
LEMMA AddStreamResult ==
  ASSUME IInv, NEW limiting \in BOOLEAN, NEW frames_max \in Limits,
         sq_add_stream(limiting, frames_max)
  PROVE  /\ IInv'
         /\ frames_max # 0 => Finished(sq') = Finished(sq) /\ sq'.finished = sq.finished
         /\ sq'.head_stream = None /\ sq'.head_finished_stream = None
         /\ \A j \in Streams : /\ sq'.streams[j].frame_samples = sq.streams[j].frame_samples
                               /\ sq'.streams[j].tb = sq.streams[j].tb
<1> DEFINE i == sq.nb_streams
           s == [sq.streams[i] EXCEPT !.limiting = limiting, !.frames_max = frames_max]
           added == [sq EXCEPT !.nb_streams = i + 1, !.streams[i].limiting = limiting,
                               !.streams[i].frames_max = frames_max]
<1>1. Types /\ SetupOK /\ NothingSent /\ EndsOK /\ SamplesAddUp
  BY DEF IInv
<1>2. /\ pc = "setup" /\ i < NbStreams
      /\ sq' = IF frames_max = 0 THEN finish_stream(added, i) ELSE added
      /\ pc' = IF i + 1 = NbStreams THEN "idle" ELSE "setup"
      /\ beat' = beat /\ in_finished' = in_finished
      /\ closed' = closed /\ eof' = eof /\ sent' = sent /\ got' = got
      /\ samples_got' = samples_got /\ lastEnd' = lastEnd
  BY <1>1 DEF sq_add_stream, SetupOK
<1>3. /\ sq \in SyncQueueType /\ sq.streams \in [Streams -> StreamType]
      /\ i \in 0 .. NbStreams /\ NbStreams \in Nat
      /\ i \in Streams /\ i \notin Indices(sq) /\ Indices(sq) \cup {i} = 0 .. i
      /\ Indices(sq) \subseteq Streams
  <2>1. /\ sq \in SyncQueueType /\ sq.streams \in [Streams -> StreamType]
        /\ i \in 0 .. NbStreams /\ NbStreams \in Nat
    BY <1>1, Constants DEF Types, SyncQueueType
  <2>2. Streams = 0 .. NbStreams - 1 /\ Indices(sq) = 0 .. i - 1
    BY DEF Streams, Indices
  <2> HIDE DEF i
  <2>3. /\ i \in 0 .. NbStreams - 1 /\ i \notin 0 .. i - 1
        /\ 0 .. i - 1 \subseteq 0 .. NbStreams - 1
    BY <1>2, <2>1
  <2>4. (0 .. i - 1) \cup {i} = 0 .. i
    BY <2>1
  <2> QED BY <2>1, <2>2, <2>3, <2>4
<1>4. sq.streams[i] = NoStream
  BY <1>1, <1>3 DEF SetupOK
<1>5. frames_max \in Nat
  BY SyncQueueAssumption DEF SyncQueueAssumption
<1>6. /\ s \in StreamType /\ s.head_ts = NOPTS /\ s.finished = FALSE
      /\ s.fifo = << >> /\ s.samples_queued = 0 /\ s.samples_sent = 0
      /\ s.frames_sent = 0 /\ s.frames_max = frames_max
      /\ s.frame_samples = 0 /\ s.tb = NoStream.tb
  BY <1>4, <1>5, NoStreamType DEF StreamType
<1> HIDE DEF s
<1>7. /\ added \in SyncQueueType
      /\ added.streams = [sq.streams EXCEPT ![i] = s] /\ added.nb_streams = i + 1
      /\ added.head_stream = sq.head_stream /\ added.finished = sq.finished
      /\ added.head_finished_stream = sq.head_finished_stream
  <2>1. added = [sq EXCEPT !.nb_streams = i + 1, !.streams = [sq.streams EXCEPT ![i] = s]]
    BY <1>3 DEF s, SyncQueueType
  <2>2. [sq.streams EXCEPT ![i] = s] \in [Streams -> StreamType] /\ i + 1 \in 0 .. NbStreams
    BY <1>2, <1>3, <1>6
  <2> HIDE DEF added
  <2> QED BY <1>3, <2>1, <2>2 DEF SyncQueueType
<1>8. added.streams[i] = s /\ \A j \in Streams \ {i} : added.streams[j] = sq.streams[j]
  BY <1>3, <1>7
<1> HIDE DEF added
<1>9. Indices(added) = Indices(sq) \cup {i}
  BY <1>3, <1>7 DEF Indices
<1>10. \A j \in Streams : Unused(j) /\ sq.streams[j].head_ts = NOPTS
  BY <1>1, <1>2 DEF SetupOK, Unused
<1>11. \A j \in Streams : added.streams[j].head_ts = NOPTS
  BY <1>6, <1>8, <1>10
<1>12. /\ Heads(added) = {} /\ Enders(added) = {} /\ Finished(added) = Finished(sq)
       /\ added.head_stream = None /\ added.head_finished_stream = None
  <2>1. Heads(added) = {}
    BY <1>3, <1>9, <1>11 DEF Heads, HasHead
  <2>2. Finished(added) = Finished(sq)
    BY <1>3, <1>6, <1>8, <1>9 DEF Finished
  <2> QED BY <1>1, <1>2, <1>7, <2>1, <2>2 DEF Enders, SetupOK
<1>13. EnderOK(added) /\ EarliestOK(added) /\ AllOK(added)
  <2>1. i \in Indices(added) /\ i \notin Finished(added)
    BY <1>3, <1>9, <1>12 DEF Finished
  <2> QED BY <1>12, <2>1 DEF EnderOK, EarliestOK, AllOK
<1>14. CutOK(added, EndedStreams)
  <2>1. sq.head_finished_stream = None
    BY <1>1, <1>2 DEF SetupOK
  <2> QED BY <1>1, <1>12, <2>1 DEF EndsOK, CutOK
<1>15. /\ sq' \in SyncQueueType /\ Moves(added, sq')
       /\ Indices(sq') = Indices(added)
       /\ Heads(sq') = {}
       /\ sq'.head_stream = None /\ sq'.head_finished_stream = None
       /\ EnderOK(sq') /\ EarliestOK(sq') /\ AllOK(sq')
       /\ \A j \in Streams : sq'.streams[j].head_ts = NOPTS
       /\ \A j \in Streams \ Indices(sq') : sq'.streams[j] = NoStream
       /\ Finished(sq) \subseteq Finished(sq')
       /\ frames_max = 0 => i \in Finished(sq')
       /\ frames_max # 0 => Finished(sq') = Finished(sq) /\ sq'.finished = sq.finished
  <2>1. \A j \in Streams \ Indices(added) : added.streams[j] = NoStream
    BY <1>1, <1>3, <1>8, <1>9 DEF SetupOK
  <2>2. CASE frames_max # 0
    <3>1. Moves(added, added)
      BY <1>7, SameAdvances DEF Advances
    <3> QED BY <1>2, <1>7, <1>11, <1>12, <1>13, <2>1, <2>2, <3>1
  <2>3. CASE frames_max = 0
    <3> DEFINE r == finish_stream(added, i)
    <3>1. i \in Indices(added)
      BY <1>9
    <3>2. /\ r \in SyncQueueType /\ Indices(r) = Indices(added)
          /\ Heads(r) = Heads(added) /\ r.head_stream = added.head_stream
          /\ r.head_finished_stream = added.head_finished_stream
          /\ Finished(added) \subseteq Finished(r) /\ i \in Finished(r)
          /\ \A j \in Streams \ Indices(added) : r.streams[j] = added.streams[j]
          /\ \A j \in Streams :
               \E b \in BOOLEAN : r.streams[j] = [added.streams[j] EXCEPT !.finished = b]
      <4>1. i \notin Enders(added)
        BY <1>12
      <4>2. /\ r \in SyncQueueType /\ Indices(r) = Indices(added)
            /\ Heads(r) = Heads(added) /\ r.head_stream = added.head_stream
            /\ Finished(r) =
                 Finished(added) \cup {i}
                   \cup {j \in Heads(added) :
                          /\ i \in Enders(added)
                          /\ HeadTime(added, r.head_finished_stream) <= HeadTime(added, j)}
            /\ \A j \in Streams \ Indices(added) : r.streams[j] = added.streams[j]
            /\ \A j \in Streams :
                 \E b \in BOOLEAN : r.streams[j] = [added.streams[j] EXCEPT !.finished = b]
        BY <1>7, <3>1, FinishStream
      <4>3. r.head_finished_stream = added.head_finished_stream
        BY <1>7, <3>1, <4>1, FinishStream
      <4>4. Finished(added) \subseteq Finished(r) /\ i \in Finished(r)
        <5> HIDE DEF r
        <5> QED BY <4>2
      <4> QED BY <4>2, <4>3, <4>4
    <3>3. Moves(added, r)
      BY <1>7, <3>1, FinishMoves
    <3>4. EnderOK(r) /\ EarliestOK(r) /\ AllOK(r)
      BY <1>7, <1>13, <3>1, FinishKeeps
    <3> HIDE DEF r
    <3>5. ASSUME NEW j \in Streams PROVE r.streams[j].head_ts = NOPTS
      <4>1. added.streams[j] \in StreamType
        BY <1>7, QueueTypes
      <4> QED BY <1>11, <3>2, <4>1 DEF StreamType
    <3>6. sq' = r
      BY <1>2, <2>3 DEF r
    <3> QED BY <1>12, <2>1, <2>3, <3>2, <3>3, <3>4, <3>5, <3>6
  <2> QED BY <2>2, <2>3
<1>16. \A j \in Streams : SameData(added.streams[j], sq'.streams[j])
  BY <1>7, <1>15, MovesSameData
<1>17. EndedStreams \subseteq EndedStreams'
  <2>1. SUFFICES ASSUME NEW j \in EndedStreams PROVE j \in EndedStreams'
    OBVIOUS
  <2>2. j \in Streams /\ j # i
    BY <1>1, <1>3 DEF EndsOK, Finished, EndedStreams
  <2>3. SameData(sq.streams[j], sq'.streams[j])
    BY <1>8, <1>16, <2>2
  <2> QED BY <1>2, <2>2, <2>3 DEF EndedStreams, SameData
<1>18. EndedStreams' \subseteq Finished(sq')
  <2>1. SUFFICES ASSUME NEW j \in EndedStreams' PROVE j \in Finished(sq')
    OBVIOUS
  <2>2. j \in Streams
    BY DEF EndedStreams
  <2>3. CASE j = i
    <3>1. sq'.streams[i].frames_sent = 0 /\ sq'.streams[i].frames_max = frames_max
      BY <1>3, <1>6, <1>8, <1>16 DEF SameData
    <3>2. ~closed[i] /\ ~in_finished[i]
      BY <1>3, <1>10 DEF Unused
    <3>3. frames_max = 0
      BY <1>2, <1>5, <2>1, <2>3, <3>1, <3>2 DEF EndedStreams
    <3> QED BY <1>15, <2>3, <3>3
  <2>4. CASE j # i
    <3>1. SameData(sq.streams[j], sq'.streams[j])
      BY <1>8, <1>16, <2>2, <2>4
    <3>2. j \in EndedStreams
      BY <1>2, <2>1, <3>1 DEF EndedStreams, SameData
    <3> QED BY <1>1, <1>15, <3>2 DEF EndsOK
  <2> QED BY <2>3, <2>4
<1>19. CutOK(sq', EndedStreams')
  <2>1. i \in Indices(added)
    BY <1>9
  <2>2. CASE frames_max = 0
    <3>1. i \in EndedStreams'
      <4>1. sq'.streams[i].frames_sent = 0 /\ sq'.streams[i].frames_max = 0
        BY <1>3, <1>6, <1>8, <1>16, <2>2 DEF SameData
      <4> QED BY <1>3, <4>1 DEF EndedStreams
    <3> QED BY <1>2, <1>7, <1>13, <1>14, <1>17, <2>1, <2>2, <3>1, FinishCuts
  <2>3. CASE frames_max # 0
    BY <1>2, <1>14, <1>17, <2>3 DEF CutOK
  <2> QED BY <2>2, <2>3
<1>20. EndsOK'
  BY <1>15, <1>18, <1>19 DEF EndsOK
<1>21. Types'
  BY <1>1, <1>2, <1>15 DEF Types
<1>22. SetupOK'
  <2>1. sq'.nb_streams = i + 1
    BY <1>7, <1>15 DEF Moves
  <2>2. pc' = "setup" <=> sq'.nb_streams < NbStreams
    BY <1>2, <1>3, <2>1
  <2>3. \A j \in Streams : Unused(j)'
    BY <1>2, <1>10, <1>15 DEF Unused
  <2>4. ~eof'
    BY <1>1, <1>2 DEF SetupOK
  <2> QED BY <1>15, <2>2, <2>3, <2>4 DEF SetupOK
<1>23. ASSUME NEW j \in Streams
       PROVE  /\ sent'[j] = 0 => /\ sq'.streams[j].fifo = << >>
                                 /\ sq'.streams[j].samples_sent = 0
                                 /\ got'[j] = 0 /\ samples_got'[j] = 0
              /\ sq'.streams[j].samples_queued = Samples(sq'.streams[j].fifo)
              /\ samples_got'[j] + sq'.streams[j].samples_queued = sq'.streams[j].samples_sent
  <2>1. CASE j # i
    <3>1. SameData(sq.streams[j], sq'.streams[j])
      BY <1>8, <1>16, <2>1
    <3> QED BY <1>1, <1>2, <3>1, StreamStays
  <2>2. CASE j = i
    <3>1. /\ sq'.streams[i].fifo = << >> /\ sq'.streams[i].samples_sent = 0
          /\ sq'.streams[i].samples_queued = 0
      BY <1>3, <1>6, <1>8, <1>16 DEF SameData
    <3>2. got[i] = 0 /\ samples_got[i] = 0
      BY <1>1, <1>3, <1>10 DEF NothingSent, Unused
    <3> QED BY <1>2, <2>2, <3>1, <3>2, SamplesOfOne
  <2> QED BY <2>1, <2>2
<1>24. NothingSent' /\ SamplesAddUp'
  BY <1>23 DEF NothingSent, SamplesAddUp
<1>25. ASSUME NEW j \in Streams
       PROVE  /\ sq'.streams[j].frame_samples = sq.streams[j].frame_samples
              /\ sq'.streams[j].tb = sq.streams[j].tb
  <2>1. CASE j # i
    BY <1>8, <1>16, <2>1 DEF SameData
  <2>2. CASE j = i
    BY <1>3, <1>4, <1>6, <1>8, <1>16, <2>2, NoStreamType DEF SameData
  <2> QED BY <2>1, <2>2
<1> QED BY <1>15, <1>20, <1>21, <1>22, <1>24, <1>25 DEF IInv

LEMMA SendFrameIInv ==
  ASSUME IInv, NEW i \in Streams, NEW f \in Frames[i], SendFrame(i, f)
  PROVE  IInv'
<1>1. Types /\ SetupOK /\ NothingSent /\ EndsOK /\ SamplesAddUp
  BY DEF IInv
<1>2. /\ pc = "idle" /\ ~closed[i] /\ ~sq.streams[i].finished
      /\ sq' = sq_send(sq, i, f) /\ sent' = [sent EXCEPT ![i] = @ + 1] /\ pc' = "receive"
      /\ beat' = beat /\ in_finished' = in_finished
      /\ closed' = closed /\ eof' = eof /\ got' = got
      /\ samples_got' = samples_got /\ lastEnd' = lastEnd
  BY DEF SendFrame
<1>3. Indices(sq) = Streams
  BY <1>1, <1>2, AllAdded
<1>4. sq \in SyncQueueType /\ f \in FrameType /\ i \in Indices(sq) /\ i \notin Finished(sq)
      /\ EnderOK(sq) /\ sent \in [Streams -> Nat]
  BY <1>1, <1>2, <1>3, FrameTypes DEF Types, Finished, EndsOK
<1> DEFINE s == sq.streams[i]
           t == sq'.streams[i]
<1>5. /\ sq' \in SyncQueueType /\ sq'.nb_streams = sq.nb_streams
      /\ Indices(sq') = Indices(sq)
      /\ Finished(sq) \subseteq Finished(sq')
      /\ EnderOK(sq')
      /\ AllOK(sq) => AllOK(sq')
      /\ EarliestOK(sq) => EarliestOK(sq')
      /\ \A D, E : /\ CutOK(sq, D) /\ D \subseteq E
                   /\ t.frames_sent >= t.frames_max => i \in E
                   => CutOK(sq', E)
      /\ \A j \in Streams \ {i} : SameData(sq.streams[j], sq'.streams[j])
      /\ t.samples_queued = s.samples_queued + f.n
      /\ t.samples_sent = s.samples_sent + f.n
      /\ t.frames_sent >= t.frames_max => i \in Finished(sq')
      /\ \E g \in FrameType : g.n = f.n /\ t.fifo = Append(s.fifo, g)
  <2>1. SendResult(sq, sq', i, f)
    BY <1>2, <1>4, SqSend
  <2> QED BY <2>1 DEF SendResult
<1>6. Types'
  BY <1>1, <1>2, <1>5 DEF Types
<1>7. SetupOK'
  BY <1>1, <1>2, <1>3, <1>5 DEF SetupOK
<1>8. ASSUME NEW j \in Streams
      PROVE  /\ sent'[j] = 0 => /\ sq'.streams[j].fifo = << >>
                                /\ sq'.streams[j].samples_sent = 0
                                /\ got'[j] = 0 /\ samples_got'[j] = 0
             /\ sq'.streams[j].samples_queued = Samples(sq'.streams[j].fifo)
             /\ samples_got'[j] + sq'.streams[j].samples_queued = sq'.streams[j].samples_sent
  <2>1. CASE j # i
    <3>1. SameData(sq.streams[j], sq'.streams[j]) /\ sent'[j] = sent[j]
      BY <1>2, <1>4, <1>5, <2>1
    <3> QED BY <1>1, <1>2, <3>1, StreamStays
  <2>2. CASE j = i
    <3>1. sent'[i] # 0
      BY <1>2, <1>4
    <3>2. s \in StreamType
      BY <1>4, QueueTypes
    <3>3. Samples(t.fifo) = Samples(s.fifo) + f.n
      BY <1>5, <3>2, SamplesAppend DEF StreamType
    <3>4. /\ s.samples_queued = Samples(s.fifo)
          /\ samples_got[i] + s.samples_queued = s.samples_sent
          /\ f.n \in Nat /\ samples_got[i] \in Nat
          /\ s.samples_queued \in Int /\ s.samples_sent \in Int
      BY <1>1, <1>4, <3>2 DEF SamplesAddUp, FrameType, Types, StreamType
    <3> HIDE DEF s, t
    <3>5. /\ t.samples_queued = Samples(t.fifo)
          /\ samples_got[i] + t.samples_queued = t.samples_sent
      BY <1>5, <3>3, <3>4
    <3> QED BY <1>2, <2>2, <3>1, <3>5 DEF t
  <2> QED BY <2>1, <2>2
<1>9. NothingSent' /\ SamplesAddUp'
  BY <1>8 DEF NothingSent, SamplesAddUp
<1>10. \A j \in Streams : j # i => (j \in EndedStreams' <=> j \in EndedStreams)
  BY <1>2, <1>5 DEF EndedStreams, SameData
<1>11. i \notin EndedStreams /\ EndedStreams \subseteq Streams /\ EndedStreams' \subseteq Streams
  BY <1>1, <1>4 DEF EndsOK, EndedStreams
<1>12. t.frames_sent >= t.frames_max <=> i \in EndedStreams'
  <2>1. ~in_finished[i]
    BY <1>11 DEF EndedStreams
  <2> QED BY <1>2, <2>1 DEF EndedStreams
<1>13. EndsOK'
  <2>1. EndedStreams' \subseteq Finished(sq')
    BY <1>1, <1>5, <1>10, <1>11, <1>12 DEF EndsOK
  <2>2. CutOK(sq', EndedStreams')
    <3>1. EndedStreams \subseteq EndedStreams'
      BY <1>10, <1>11
    <3> QED BY <1>1, <1>5, <1>12, <3>1 DEF EndsOK
  <2> QED BY <1>1, <1>5, <2>1, <2>2 DEF EndsOK
<1> QED BY <1>6, <1>7, <1>9, <1>13 DEF IInv

(* A stream is finished and now has a reason of its own to be.             *)
LEMMA FinishedIInv ==
  ASSUME NEW q \in SyncQueueType, NEW i \in Streams,
         NothingSent, EndsOK, SamplesAddUp,
         Indices(q) = Streams, EnderOK(q), EarliestOK(q), CutOK(q, EndedStreams),
         Finished(q) = Finished(sq),
         \A j \in Streams : /\ q.streams[j].frames_sent = sq.streams[j].frames_sent
                            /\ q.streams[j].frames_max = sq.streams[j].frames_max,
         sq' = finish_stream(q, i),
         closed'[i] \/ in_finished'[i],
         \A j \in Streams : /\ closed[j] => closed'[j]
                            /\ in_finished[j] => in_finished'[j]
                            /\ j # i => closed'[j] = closed[j] /\ in_finished'[j] = in_finished[j]
  PROVE  /\ sq' \in SyncQueueType /\ sq'.nb_streams = q.nb_streams
         /\ \A j \in Streams : SameData(q.streams[j], sq'.streams[j])
         /\ EndsOK'
<1>1. Moves(q, sq') /\ sq' \in SyncQueueType /\ Finished(q) \cup {i} \subseteq Finished(sq')
  <2> DEFINE r == finish_stream(q, i)
  <2>1. /\ r \in SyncQueueType
        /\ Finished(r) = Finished(q) \cup {i}
                            \cup {j \in Heads(q) :
                                   /\ i \in Enders(q)
                                   /\ HeadTime(q, r.head_finished_stream) <= HeadTime(q, j)}
    BY FinishStream
  <2>2. Moves(q, r)
    BY FinishMoves
  <2> HIDE DEF r
  <2> QED BY <2>1, <2>2 DEF r
<1>2. ASSUME NEW j \in Streams PROVE SameData(q.streams[j], sq'.streams[j])
  BY <1>1, MovesSameData
<1>3. EndedStreams \subseteq EndedStreams'
  <2>1. SUFFICES ASSUME NEW j \in Streams, j \in EndedStreams PROVE j \in EndedStreams'
    BY DEF EndedStreams
  <2>2. /\ sq'.streams[j].frames_sent = sq.streams[j].frames_sent
        /\ sq'.streams[j].frames_max = sq.streams[j].frames_max
    BY <1>2 DEF SameData
  <2> QED BY <2>1, <2>2 DEF EndedStreams
<1>4. i \in EndedStreams'
  BY DEF EndedStreams
<1>5. EndedStreams' \subseteq Finished(sq')
  <2>1. SUFFICES ASSUME NEW j \in Streams, j \in EndedStreams', j # i PROVE j \in Finished(sq')
    BY <1>1 DEF EndedStreams
  <2>2. /\ sq'.streams[j].frames_sent = sq.streams[j].frames_sent
        /\ sq'.streams[j].frames_max = sq.streams[j].frames_max
    BY <1>2 DEF SameData
  <2>3. j \in EndedStreams
    BY <2>1, <2>2 DEF EndedStreams
  <2> QED BY <1>1, <2>3 DEF EndsOK
<1>6. EnderOK(sq') /\ EarliestOK(sq') /\ AllOK(sq')
  BY FinishKeeps
<1>7. CutOK(sq', EndedStreams')
  BY <1>3, <1>4, FinishCuts
<1> QED BY <1>1, <1>2, <1>5, <1>6, <1>7 DEF EndsOK, Moves

LEMMA SendEofIInv ==
  ASSUME IInv, NEW i \in Streams, SendEof(i)
  PROVE  IInv'
<1>1. Types /\ SetupOK /\ NothingSent /\ EndsOK /\ SamplesAddUp
  BY DEF IInv
<1>2. /\ pc = "idle" /\ sq' = finish_stream(sq, i)
      /\ closed' = [closed EXCEPT ![i] = TRUE] /\ pc' = "receive"
      /\ beat' = beat /\ in_finished' = in_finished /\ sent' = sent
      /\ eof' = eof /\ got' = got
      /\ samples_got' = samples_got /\ lastEnd' = lastEnd
  BY DEF SendEof
<1>3. Indices(sq) = Streams
  BY <1>1, <1>2, AllAdded
<1>4. closed \in [Streams -> BOOLEAN] /\ sq \in SyncQueueType
  BY <1>1 DEF Types
<1>5. /\ closed'[i]
      /\ \A j \in Streams : /\ closed[j] => closed'[j]
                            /\ j # i => closed'[j] = closed[j]
  BY <1>2, <1>4
<1>6. /\ sq' \in SyncQueueType /\ sq'.nb_streams = sq.nb_streams
      /\ \A j \in Streams : SameData(sq.streams[j], sq'.streams[j])
      /\ EndsOK'
  BY <1>1, <1>2, <1>3, <1>4, <1>5, FinishedIInv DEF EndsOK
<1>7. Types'
  BY <1>1, <1>2, <1>4, <1>6 DEF Types
<1>8. SetupOK'
  <2>1. Indices(sq') = Streams
    BY <1>3, <1>6 DEF Indices
  <2> QED BY <1>1, <1>2, <1>6, <2>1 DEF SetupOK
<1>9. NothingSent' /\ SamplesAddUp'
  BY <1>1, <1>2, <1>6, StreamStays DEF NothingSent, SamplesAddUp
<1> QED BY <1>6, <1>7, <1>8, <1>9 DEF IInv

(* What a fake heartbeat makes of the queue.                               *)
LEMMA BeatStreamResult ==
  ASSUME IInv, NEW i \in Streams, BeatStream(i)
  PROVE  /\ IInv'
         /\ Advances(sq, sq') /\ KeepsEnds(sq, sq', {})
         /\ HeadOK(sq) => HeadOK(sq')
<1>1. Types /\ SetupOK /\ NothingSent /\ EndsOK /\ SamplesAddUp
  BY DEF IInv
<1> DEFINE ts == FakeTs(sq, i, beat.from, beat.ts)
<1>2. /\ pc = "beat" /\ ~sq.streams[i].finished
      /\ sq' = stream_update_ts(sq, i, ts)
      /\ beat' = [beat EXCEPT !.next = i + 1]
      /\ pc' = pc /\ closed' = closed /\ in_finished' = in_finished /\ sent' = sent
      /\ eof' = eof /\ got' = got
      /\ samples_got' = samples_got /\ lastEnd' = lastEnd
  BY DEF BeatStream, LagsNow, Lags
<1>3. Indices(sq) = Streams
  BY <1>1, <1>2, AllAdded
<1>4. sq \in SyncQueueType /\ beat.from \in Streams /\ beat.ts \in Int
  BY <1>1 DEF Types
<1>5. ts \in Int
  <2>1. /\ sq.streams[i].tb \in Nat \ {0} /\ sq.streams[beat.from].tb \in Nat \ {0}
        /\ sq.streams[i].head_ts \in Int
    BY <1>4, QueueTypes DEF StreamType
  <2>2. av_rescale_q(beat.ts, sq.streams[beat.from].tb, sq.streams[i].tb) \in Int
    BY <1>4, <2>1, RescaleType
  <2> QED BY <2>1, <2>2 DEF FakeTs
<1> HIDE DEF ts
<1>6. i \in Indices(sq) /\ i \notin Finished(sq) /\ EnderOK(sq)
  BY <1>1, <1>2, <1>3 DEF Finished, EndsOK
<1>7. /\ sq' \in SyncQueueType /\ Advances(sq, sq') /\ KeepsEnds(sq, sq', {})
      /\ \A E : CutOK(sq, E) => CutOK(sq', E)
      /\ HeadOK(sq) => HeadOK(sq')
  BY <1>2, <1>4, <1>5, <1>6, UpdateTs
<1>8. \A j \in Streams : SameData(sq.streams[j], sq'.streams[j])
  BY <1>4, <1>7, MovesSameData DEF Advances
<1>9. Types'
  <2>1. i + 1 \in Nat
    BY QueueTypes, <1>4
  <2>2. beat' \in [next : Nat, from : Streams, ts : Int]
    BY <1>1, <1>2, <2>1 DEF Types
  <2> QED BY <1>1, <1>2, <1>7, <2>2 DEF Types
<1>10. SetupOK'
  BY <1>1, <1>2, <1>3, <1>7 DEF SetupOK, Advances, Moves
<1>11. NothingSent' /\ SamplesAddUp'
  BY <1>1, <1>2, <1>8, StreamStays DEF NothingSent, SamplesAddUp
<1>12. EndedStreams' = EndedStreams
  BY <1>2, <1>8 DEF EndedStreams, SameData
<1>13. EndsOK'
  BY <1>1, <1>7, <1>12 DEF EndsOK, KeepsEnds, Advances, Moves
<1> QED BY <1>7, <1>9, <1>10, <1>11, <1>13 DEF IInv

(* What a step that receives a frame of stream i makes of the streams.     *)
LEMMA ReceiveFrameResult ==
  ASSUME IInv, NEW i \in Streams, NEW refused \in BOOLEAN, ReceiveFrame(i, refused)
  PROVE  LET st == sq.streams[i]
         IN /\ IInv'
            /\ sq'.nb_streams = sq.nb_streams /\ Indices(sq) = Streams
            /\ Limiting(sq') = Limiting(sq)
            /\ Finished(sq) \subseteq Finished(sq')
            /\ Heads(sq') = Heads(sq)
            /\ \A j \in Heads(sq) : HeadTime(sq', j) = HeadTime(sq, j)
            /\ HeadOK(sq) => HeadOK(sq')
            /\ ReachedOK(sq, {}) => ReachedOK(sq', {})
            /\ OnlyAllOK(sq) => OnlyAllOK(sq')
            /\ \A j \in Streams \ {i} : SameData(sq.streams[j], sq'.streams[j])
            /\ sq'.streams[i].frame_samples = st.frame_samples /\ sq'.streams[i].tb = st.tb
            /\ st.fifo # << >>
            /\ st.samples_queued = Samples(st.fifo)
            /\ st.frame_samples <= st.samples_queued \/ st.finished
            /\ NoneEmpty(st.fifo) => NoneEmpty(sq'.streams[i].fifo)
            /\ NbSamples(st) # 0 /\ NbTaken(st) = Samples(st.fifo) => sq'.streams[i].fifo = << >>
<1> DEFINE st == sq.streams[i]
           received == receive_for_stream(sq, i)
<1>1. Types /\ SetupOK /\ NothingSent /\ EndsOK /\ SamplesAddUp
  BY DEF IInv
<1>2. /\ pc \in {"receive", "again"} /\ Releasable(sq, i)
      /\ in_finished[i] => refused
      /\ sq' = IF refused THEN finish_stream(received, i) ELSE received
      /\ in_finished' = [in_finished EXCEPT ![i] = refused]
      /\ got' = [got EXCEPT ![i] = @ + 1]
      /\ samples_got' = [samples_got EXCEPT ![i] = @ + NbTaken(st)]
      /\ lastEnd' = [lastEnd EXCEPT ![i] =
                       IF frame_end(i, st.fifo[1], NbSamples(st)) * st.tb > @
                       THEN frame_end(i, st.fifo[1], NbSamples(st)) * st.tb ELSE @]
      /\ pc' = "receive" /\ beat' = beat /\ closed' = closed /\ eof' = eof /\ sent' = sent
  BY DEF ReceiveFrame, Receiving
<1>3. Indices(sq) = Streams
  BY <1>1, <1>2, AllAdded
<1>4. /\ sq \in SyncQueueType /\ st \in StreamType /\ sq.streams \in [Streams -> StreamType]
      /\ in_finished \in [Streams -> BOOLEAN] /\ got \in [Streams -> Nat]
      /\ samples_got \in [Streams -> Nat] /\ lastEnd \in [Streams -> Int]
      /\ \A j \in Streams : lastEnd[j] >= NOPTS
  BY <1>1, QueueTypes DEF Types, SyncQueueType
<1>5. /\ st.fifo # << >> /\ st.samples_queued = Samples(st.fifo)
      /\ st.frame_samples <= st.samples_queued \/ st.finished
  BY <1>1, <1>2 DEF Releasable, SamplesAddUp
<1>6. /\ NbSamples(st) \in Nat /\ NbTaken(st) \in Nat
      /\ st.fifo \in Seq(FrameType) /\ st.tb \in Nat \ {0}
  <2>1. st.fifo \in Seq(FrameType) /\ st.tb \in Nat \ {0}
    BY <1>4 DEF StreamType
  <2> HIDE DEF st
  <2> QED BY <1>4, <1>5, <2>1, NbSamplesTaken
<1>7. /\ received \in SyncQueueType /\ SameCore(sq, received)
      /\ \E g \in Seq(FrameType) :
           /\ received.streams = [sq.streams EXCEPT ![i] =
                                    [st EXCEPT !.fifo = g, !.samples_queued = Samples(g)]]
           /\ Samples(g) = Samples(st.fifo) - NbTaken(st)
           /\ NoneEmpty(st.fifo) => NoneEmpty(g)
           /\ NbSamples(st) # 0 /\ NbTaken(st) = Samples(st.fifo) => g = << >>
  BY <1>4, <1>5, SqReceive
<1> HIDE DEF received
<1>8. PICK g \in Seq(FrameType) :
        /\ received.streams = [sq.streams EXCEPT ![i] =
                                 [st EXCEPT !.fifo = g, !.samples_queued = Samples(g)]]
        /\ Samples(g) = Samples(st.fifo) - NbTaken(st)
        /\ NoneEmpty(st.fifo) => NoneEmpty(g)
        /\ NbSamples(st) # 0 /\ NbTaken(st) = Samples(st.fifo) => g = << >>
  BY <1>7
<1>9. /\ received.streams[i] = [st EXCEPT !.fifo = g, !.samples_queued = Samples(g)]
      /\ \A j \in Streams \ {i} : received.streams[j] = sq.streams[j]
  BY <1>4, <1>8
<1>10. /\ received.streams[i].fifo = g /\ received.streams[i].samples_queued = Samples(g)
       /\ received.streams[i].samples_sent = st.samples_sent
       /\ received.streams[i].frames_sent = st.frames_sent
       /\ received.streams[i].frames_max = st.frames_max
       /\ received.streams[i].frame_samples = st.frame_samples
       /\ received.streams[i].tb = st.tb
  <2> HIDE DEF st
  <2> QED BY <1>4, <1>9 DEF StreamType
<1>11. /\ KeepsEnds(sq, received, {})
       /\ HeadOK(sq) => HeadOK(received)
       /\ \A E : CutOK(sq, E) => CutOK(received, E)
  BY <1>1, <1>4, <1>7, SameCoreKeeps DEF EndsOK
<1>12. /\ received.nb_streams = sq.nb_streams /\ Indices(received) = Streams
       /\ Finished(received) = Finished(sq) /\ Limiting(received) = Limiting(sq)
       /\ Heads(received) = Heads(sq)
       /\ \A j \in Heads(sq) : HeadTime(received, j) = HeadTime(sq, j)
  BY <1>3, <1>7 DEF SameCore
<1>13. /\ EnderOK(received) /\ EarliestOK(received) /\ AllOK(received)
       /\ CutOK(received, EndedStreams)
       /\ ReachedOK(sq, {}) => ReachedOK(received, {})
       /\ OnlyAllOK(sq) => OnlyAllOK(received)
  BY <1>1, <1>11 DEF KeepsEnds, EndsOK
<1>14. \A j \in Streams : /\ received.streams[j].frames_sent = sq.streams[j].frames_sent
                          /\ received.streams[j].frames_max = sq.streams[j].frames_max
  BY <1>9, <1>10
<1>15. \A j \in Streams : j # i => in_finished'[j] = in_finished[j]
  BY <1>2, <1>4
<1>16. /\ sq' \in SyncQueueType /\ sq'.nb_streams = sq.nb_streams
       /\ Limiting(sq') = Limiting(sq) /\ Heads(sq') = Heads(sq)
       /\ Finished(sq) \subseteq Finished(sq')
       /\ \A j \in Heads(sq) : HeadTime(sq', j) = HeadTime(sq, j)
       /\ HeadOK(sq) => HeadOK(sq')
       /\ ReachedOK(sq, {}) => ReachedOK(sq', {})
       /\ OnlyAllOK(sq) => OnlyAllOK(sq')
       /\ \A j \in Streams : SameData(received.streams[j], sq'.streams[j])
       /\ EndsOK'
  <2>1. CASE refused
    <3>1. sq' = finish_stream(received, i)
      BY <1>2, <2>1
    <3>2. in_finished'[i] /\ \A j \in Streams : in_finished[j] => in_finished'[j]
      BY <1>2, <1>4, <2>1
    <3>3. /\ sq' \in SyncQueueType /\ sq'.nb_streams = received.nb_streams
          /\ \A j \in Streams : SameData(received.streams[j], sq'.streams[j])
          /\ EndsOK'
      BY <1>1, <1>2, <1>7, <1>12, <1>13, <1>14, <1>15, <3>1, <3>2, FinishedIInv
    <3> DEFINE r == finish_stream(received, i)
    <3>4. /\ Limiting(r) = Limiting(received) /\ Heads(r) = Heads(received)
          /\ \A j \in Streams : HeadTime(r, j) = HeadTime(received, j)
          /\ Finished(r) =
                 Finished(received) \cup {i}
                   \cup {j \in Heads(received) :
                          /\ i \in Enders(received)
                          /\ HeadTime(received, r.head_finished_stream) <= HeadTime(received, j)}
      BY <1>7, <1>12, FinishStream
    <3>5. /\ HeadOK(received) => HeadOK(r)
          /\ OnlyAllOK(received) => OnlyAllOK(r)
          /\ ReachedOK(received, {i}) => ReachedOK(r, {})
      BY <1>7, <1>12, <1>13, FinishKeeps
    <3>6. ReachedOK(received, {}) => ReachedOK(received, {i})
      BY DEF ReachedOK
    <3>7. sq' = r
      BY <3>1
    <3> HIDE DEF r
    <3>8. /\ Limiting(sq') = Limiting(sq) /\ Heads(sq') = Heads(sq)
          /\ Finished(sq) \subseteq Finished(sq')
      BY <1>12, <3>4, <3>7
    <3>9. \A j \in Heads(sq) : HeadTime(sq', j) = HeadTime(sq, j)
      <4>1. Heads(sq) \subseteq Streams
        BY <1>4, QueueTypes
      <4> QED BY <1>12, <3>4, <3>7, <4>1
    <3>10. /\ HeadOK(sq) => HeadOK(sq')
           /\ ReachedOK(sq, {}) => ReachedOK(sq', {})
           /\ OnlyAllOK(sq) => OnlyAllOK(sq')
      BY <1>11, <1>13, <3>5, <3>6, <3>7
    <3> QED BY <1>12, <3>3, <3>8, <3>9, <3>10
  <2>2. CASE ~refused
    <3>1. sq' = received
      BY <1>2, <2>2
    <3>2. in_finished' = in_finished
      BY <1>2, <1>4, <2>2
    <3>3. EndedStreams' = EndedStreams
      BY <1>2, <1>14, <3>1, <3>2 DEF EndedStreams
    <3>4. EndsOK'
      BY <1>1, <1>12, <1>13, <3>1, <3>3 DEF EndsOK
    <3>5. \A j \in Streams : SameData(received.streams[j], sq'.streams[j])
      BY <3>1 DEF SameData
    <3> QED BY <1>7, <1>11, <1>12, <1>13, <3>1, <3>4, <3>5
  <2> QED BY <2>1, <2>2
<1>17. Types'
  <2>1. lastEnd' \in [Streams -> Int] /\ \A j \in Streams : lastEnd'[j] >= NOPTS
    <3> DEFINE e == frame_end(i, st.fifo[1], NbSamples(st)) * st.tb
    <3>1. e \in Int
      <4>1. st.fifo[1] \in FrameType
        BY <1>5, <1>6
      <4>2. frame_end(i, st.fifo[1], NbSamples(st)) \in Int
        <5> DEFINE x == st.fifo[1]
                   n == NbSamples(st)
        <5>1. x \in FrameType /\ n \in Int
          BY <1>6, <4>1
        <5> HIDE DEF x, n
        <5>2. frame_end(i, x, n) \in Int
          BY <5>1, FrameEndType
        <5> QED BY <5>2 DEF x, n
      <4> QED BY <1>6, <4>2
    <3>2. lastEnd' = [lastEnd EXCEPT ![i] = IF e > @ THEN e ELSE @]
      BY <1>2
    <3> HIDE DEF e
    <3>3. lastEnd' \in [Streams -> Int]
      BY <1>4, <3>1, <3>2
    <3>4. ASSUME NEW j \in Streams PROVE lastEnd'[j] >= NOPTS
      <4>1. lastEnd[j] \in Int /\ lastEnd[j] >= NOPTS /\ lastEnd'[j] \in {lastEnd[j], e}
        BY <1>4, <3>2
      <4>2. lastEnd'[j] = lastEnd[j] \/ (lastEnd'[j] = e /\ e > lastEnd[j])
        BY <1>4, <3>2
      <4> QED BY <3>1, <4>1, <4>2, Constants
    <3> QED BY <3>3, <3>4
  <2>2. /\ in_finished' \in [Streams -> BOOLEAN] /\ got' \in [Streams -> Nat]
        /\ samples_got' \in [Streams -> Nat]
    BY <1>2, <1>4, <1>6
  <2> QED BY <1>1, <1>2, <1>16, <2>1, <2>2 DEF Types
<1>18. SetupOK'
  <2>1. Indices(sq') = Streams
    BY <1>3, <1>16 DEF Indices
  <2> QED BY <1>1, <1>2, <1>16, <2>1 DEF SetupOK
<1>19. \A j \in Streams \ {i} : SameData(sq.streams[j], sq'.streams[j])
  BY <1>9, <1>16
<1>20. ASSUME NEW j \in Streams
      PROVE  /\ sent'[j] = 0 => /\ sq'.streams[j].fifo = << >>
                                /\ sq'.streams[j].samples_sent = 0
                                /\ got'[j] = 0 /\ samples_got'[j] = 0
             /\ sq'.streams[j].samples_queued = Samples(sq'.streams[j].fifo)
             /\ samples_got'[j] + sq'.streams[j].samples_queued = sq'.streams[j].samples_sent
  <2>1. CASE j # i
    <3>1. SameData(sq.streams[j], sq'.streams[j])
      BY <1>19, <2>1
    <3>2. got'[j] = got[j] /\ samples_got'[j] = samples_got[j]
      BY <1>2, <1>4, <2>1
    <3> QED BY <1>1, <1>2, <3>1, <3>2, StreamStays
  <2>2. CASE j = i
    <3>1. sent[i] # 0
      BY <1>1, <1>5 DEF NothingSent
    <3>2. /\ samples_got[i] + st.samples_queued = st.samples_sent
          /\ samples_got[i] \in Nat /\ st.samples_queued \in Int
          /\ Samples(g) \in Nat /\ st.samples_sent \in Int
      BY <1>1, <1>4, SamplesType DEF SamplesAddUp, StreamType
    <3>3. samples_got'[i] = samples_got[i] + NbTaken(st)
      BY <1>2, <1>4
    <3>4. /\ sq'.streams[i].fifo = g /\ sq'.streams[i].samples_queued = Samples(g)
          /\ sq'.streams[i].samples_sent = st.samples_sent
      BY <1>10, <1>16 DEF SameData
    <3> HIDE DEF st
    <3>5. samples_got'[i] + Samples(g) = st.samples_sent
      BY <1>5, <1>6, <1>8, <3>2, <3>3
    <3> QED BY <1>2, <2>2, <3>1, <3>4, <3>5
  <2> QED BY <2>1, <2>2
<1>21. NothingSent' /\ SamplesAddUp'
  BY <1>20 DEF NothingSent, SamplesAddUp
<1>22. IInv'
  BY <1>16, <1>17, <1>18, <1>21 DEF IInv
<1>23. /\ sq'.streams[i].fifo = g
       /\ sq'.streams[i].frame_samples = st.frame_samples
       /\ sq'.streams[i].tb = st.tb
  BY <1>10, <1>16 DEF SameData
<1> QED BY <1>3, <1>5, <1>8, <1>16, <1>19, <1>22, <1>23

(* overflow_heartbeat() finds the stream that is most ahead, and the end   *)
(* of its tail.                                                            *)
LEMMA AheadIsIn ==
  ASSUME NEW q \in SyncQueueType, Heads(q) # {}
  PROVE  Ahead(q) \in Heads(q) /\ \A j \in Heads(q) : HeadTime(q, j) <= HeadTime(q, Ahead(q))
<1> DEFINE A == {i \in Indices(q) :
                   /\ HasHead(q, i)
                   /\ \A j \in Indices(q) : HasHead(q, j) => HeadTime(q, j) <= HeadTime(q, i)}
           t == [i \in 0 .. NbStreams - 1 |-> - HeadTime(q, i)]
<1>1. /\ Heads(q) \subseteq 0 .. NbStreams - 1 /\ NbStreams \in Nat
      /\ \A i \in 0 .. NbStreams - 1 : HeadTime(q, i) \in Int
      /\ Indices(q) \subseteq Nat
  BY QueueTypes, Constants DEF Streams
<1>2. t \in [0 .. NbStreams - 1 -> Int] /\ \A i \in 0 .. NbStreams - 1 : t[i] = - HeadTime(q, i)
  BY <1>1
<1> HIDE DEF t
<1>3. PICK i \in Heads(q) : \A j \in Heads(q) : t[i] <= t[j]
  BY <1>1, <1>2, Earliest
<1>4. ASSUME NEW j \in Heads(q) PROVE HeadTime(q, j) <= HeadTime(q, i)
  <2>1. i \in 0 .. NbStreams - 1 /\ j \in 0 .. NbStreams - 1
    BY <1>1
  <2>2. /\ t[i] = - HeadTime(q, i) /\ t[j] = - HeadTime(q, j) /\ t[i] <= t[j]
        /\ HeadTime(q, i) \in Int /\ HeadTime(q, j) \in Int
    BY <1>1, <1>2, <1>3, <2>1
  <2> QED BY <2>2
<1>5. i \in A
  BY <1>4 DEF Heads
<1>6. A \in SUBSET Nat /\ A # {}
  BY <1>1, <1>5
<1>7. Ahead(q) \in A
  <2>1. Ahead(q) = First(A)
    BY DEF Ahead
  <2> HIDE DEF A
  <2> QED BY <1>6, <2>1, FirstIsIn
<1> QED BY <1>7 DEF Heads

LEMMA TailTsType ==
  ASSUME NEW q \in SyncQueueType, NEW i \in Streams, WithEnd(q, i) # {}
  PROVE  TailTs(q, i) \in Int
<1> DEFINE fifo == q.streams[i].fifo
           k == First(WithEnd(q, i))
<1>1. fifo \in Seq(FrameType)
  BY QueueTypes DEF StreamType
<1>2. WithEnd(q, i) \in SUBSET Nat /\ WithEnd(q, i) \subseteq DOMAIN fifo
  BY <1>1 DEF WithEnd
<1>3. k \in DOMAIN fifo
  BY <1>2, FirstIsIn
<1>4. TailTs(q, i) = frame_end(i, fifo[k], 0)
  BY DEF TailTs
<1> HIDE DEF k, fifo
<1>5. fifo[k] \in FrameType
  BY <1>1, <1>3
<1> QED BY <1>4, <1>5, FrameEndType

LEMMA NoBeatType == NoBeat \in [next : Nat, from : Streams, ts : Int]
<1>1. 0 \in Streams
  BY Constants DEF Streams
<1> QED BY <1>1 DEF NoBeat

LEMMA NextIInv == IInv /\ [Next]_vars => IInv'
<1> SUFFICES ASSUME IInv, [Next]_vars PROVE IInv'
  OBVIOUS
<1>1. Types
  BY DEF IInv
<1>2. ASSUME NEW limiting \in BOOLEAN, NEW frames_max \in Limits,
             sq_add_stream(limiting, frames_max)
      PROVE  IInv'
  BY <1>2, AddStreamResult
<1>3. ASSUME NEW i \in Streams, NEW k \in Sizes[i], sq_frame_samples(i, k)
      PROVE  IInv'
  BY <1>3, FrameSamplesIInv
<1>4. ASSUME NEW i \in Streams, NEW f \in Frames[i], SendFrame(i, f)
      PROVE  IInv'
  BY <1>4, SendFrameIInv
<1>5. ASSUME NEW i \in Streams, SendEof(i)
      PROVE  IInv'
  BY <1>5, SendEofIInv
<1>6. CASE ReceiveEof
  <2>1. /\ pc # "setup" /\ pc' = "idle" /\ eof' = TRUE /\ beat' = beat
        /\ UNCHANGED <<sq, in_finished, closed, sent, got, samples_got, lastEnd>>
    BY <1>6 DEF ReceiveEof, Receiving
  <2>2. Types'
    BY <1>1, <2>1 DEF Types
  <2>3. pc' # "setup"
    BY <2>1
  <2> QED BY <2>1, <2>2, <2>3, QueueStaysIInv
<1>7. CASE ReceiveAgain
  <2>1. /\ pc # "setup" /\ pc' \in {"beat", "idle"} /\ eof' = eof
        /\ UNCHANGED <<sq, in_finished, closed, sent, got, samples_got, lastEnd>>
    BY <1>7 DEF ReceiveAgain, Receiving
  <2>2. \/ beat' = beat
        \/ /\ Overflows(sq)
           /\ beat' = [next |-> 0, from |-> Ahead(sq), ts |-> TailTs(sq, Ahead(sq)) + 1]
    BY <1>7 DEF ReceiveAgain
  <2>3. CASE Overflows(sq)
    <3>1. Heads(sq) # {} /\ sq \in SyncQueueType
      BY <1>1, <2>3 DEF Overflows, Heads, Types
    <3>2. Ahead(sq) \in Streams
      BY <3>1, AheadIsIn, QueueTypes
    <3>3. TailTs(sq, Ahead(sq)) \in Int
      BY <2>3, <3>1, <3>2, TailTsType DEF Overflows
    <3>4. [next |-> 0, from |-> Ahead(sq), ts |-> TailTs(sq, Ahead(sq)) + 1]
            \in [next : Nat, from : Streams, ts : Int]
      BY <3>2, <3>3
    <3>5. beat' \in [next : Nat, from : Streams, ts : Int]
      BY <1>1, <2>2, <3>4 DEF Types
    <3>6. Types'
      BY <1>1, <2>1, <3>5 DEF Types
    <3> QED BY <2>1, <3>6, QueueStaysIInv
  <2>4. CASE ~Overflows(sq)
    <3>1. Types'
      BY <1>1, <2>1, <2>2, <2>4 DEF Types
    <3> QED BY <2>1, <3>1, QueueStaysIInv
  <2> QED BY <2>3, <2>4
<1>8. CASE BeatEnds
  <2>1. /\ pc # "setup" /\ pc' = "again" /\ eof' = eof /\ beat' = NoBeat
        /\ UNCHANGED <<sq, in_finished, closed, sent, got, samples_got, lastEnd>>
    BY <1>8 DEF BeatEnds
  <2>2. Types'
    BY <1>1, <2>1, NoBeatType DEF Types
  <2>3. pc' # "setup"
    BY <2>1
  <2> QED BY <2>1, <2>2, <2>3, QueueStaysIInv
<1>9. ASSUME NEW i \in Streams, BeatStream(i)
      PROVE  IInv'
  BY <1>9, BeatStreamResult
<1>10. ASSUME NEW i \in Streams, NEW refused \in BOOLEAN, ReceiveFrame(i, refused)
       PROVE  IInv'
  BY <1>10, ReceiveFrameResult
<1>11. CASE UNCHANGED vars
  <2>1. EndedStreams' = EndedStreams
    BY <1>11 DEF vars, EndedStreams
  <2>2. EndsOK'
    BY <1>11, <2>1 DEF vars, IInv, EndsOK
  <2>3. Types' /\ NothingSent' /\ SamplesAddUp'
    BY <1>11 DEF vars, IInv, Types, NothingSent, SamplesAddUp
  <2>4. SetupOK'
    BY <1>11 DEF vars, IInv, SetupOK, Unused
  <2> QED BY <2>2, <2>3, <2>4 DEF IInv
<1> QED BY <1>2, <1>3, <1>4, <1>5, <1>6, <1>7, <1>8, <1>9, <1>10, <1>11 DEF Next, Receive

(* The invariant holds in every state.                                     *)
THEOREM SyncQueueInvariant == Spec => []IInv
<1>1. Init => IInv
  BY InitIInv
<1>2. IInv /\ [Next]_vars => IInv'
  BY NextIInv
<1> QED BY <1>1, <1>2, PTL DEF Spec

(* The counters of the samples of a stream agree with its FIFO, whatever   *)
(* sizes the frames come and go in.                                        *)
THEOREM SamplesAddUpHolds == Spec => []SamplesAddUp
<1>1. IInv => SamplesAddUp
  BY DEF IInv
<1> QED BY <1>1, SyncQueueInvariant, PTL

(* No stream is finished but for one of the reasons finish_stream() is     *)
(* called for.                                                             *)
THEOREM CutOffForAReasonHolds == Spec => []CutOffForAReason
<1>1. IInv => CutOffForAReason
  <2> SUFFICES ASSUME IInv PROVE CutOffForAReason
    OBVIOUS
  <2>1. Types /\ EndsOK /\ SetupOK
    BY DEF IInv
  <2>2. SUFFICES ASSUME NEW i \in Streams, sq.streams[i].finished, i \notin EndedStreams
                 PROVE  \E l \in Limiting(sq) : /\ l \in EndedStreams
                                                /\ HasHead(sq, l) /\ HasHead(sq, i)
                                                /\ HeadTime(sq, l) <= HeadTime(sq, i)
    <3>1. \A i \in Streams : i \in EndedStreams <=>
            \/ closed[i]
            \/ in_finished[i]
            \/ sq.streams[i].frames_sent >= sq.streams[i].frames_max
      BY DEF EndedStreams
    <3>2. Limiting(sq) \subseteq Streams
      BY <2>1, QueueTypes DEF Types
    <3> QED BY <2>2, <3>1, <3>2 DEF CutOffForAReason
  <2>3. i \in Indices(sq)
    BY <2>1, <2>2, NoStreamType DEF SetupOK
  <2>4. /\ sq.head_finished_stream # None /\ i \in Heads(sq)
        /\ HeadTime(sq, sq.head_finished_stream) <= HeadTime(sq, i)
        /\ sq.head_finished_stream \in EndedStreams
    BY <2>1, <2>2, <2>3 DEF EndsOK, CutOK, Finished
  <2>5. sq.head_finished_stream \in Limiting(sq) \cap Heads(sq)
    BY <2>1, <2>4 DEF EndsOK, EnderOK, Enders
  <2> QED BY <2>4, <2>5 DEF Heads
<1> QED BY <1>1, SyncQueueInvariant, PTL

(* Once all senders have closed their streams, the queue does not go idle  *)
(* without having returned AVERROR_EOF: all streams are finished then, and *)
(* with them the queue.                                                    *)
THEOREM EofWhenAllClosedHolds == Spec => []EofWhenAllClosed
<1>1. Init => EofWhenAllClosed
  BY DEF Init, EofWhenAllClosed
<1>2. IInv /\ EofWhenAllClosed /\ [Next]_vars => EofWhenAllClosed'
  <2> SUFFICES ASSUME IInv, EofWhenAllClosed, [Next]_vars,
                      pc' = "idle", \A i \in Streams : closed'[i]
               PROVE  eof'
    BY DEF EofWhenAllClosed
  <2>1. Types /\ SetupOK /\ EndsOK
    BY DEF IInv
  <2>2. 0 \in Streams
    BY Constants DEF Streams
  <2>3. ASSUME NEW limiting \in BOOLEAN, NEW frames_max \in Limits,
               sq_add_stream(limiting, frames_max)
        PROVE  FALSE
    <3>1. closed' = closed /\ pc = "setup"
      BY <2>3 DEF sq_add_stream
    <3> QED BY <2>1, <2>2, <3>1 DEF SetupOK, Unused
  <2>4. ASSUME NEW i \in Streams, NEW k \in Sizes[i], sq_frame_samples(i, k)
        PROVE  FALSE
    BY <2>4 DEF sq_frame_samples
  <2>5. ASSUME NEW i \in Streams, NEW f \in Frames[i], SendFrame(i, f)
        PROVE  FALSE
    BY <2>5 DEF SendFrame
  <2>6. ASSUME NEW i \in Streams, SendEof(i)
        PROVE  FALSE
    BY <2>6 DEF SendEof
  <2>7. CASE ReceiveEof
    BY <2>7 DEF ReceiveEof
  <2>8. CASE ReceiveAgain
    <3>1. closed' = closed /\ pc # "setup" /\ \E i \in Streams : ~AtEof(sq, i)
      BY <2>8 DEF ReceiveAgain, Receiving
    <3>2. Streams \subseteq EndedStreams
      BY <3>1 DEF EndedStreams
    <3>3. Indices(sq) = Streams
      BY <2>1, <3>1, AllAdded
    <3>4. sq.finished
      BY <2>1, <2>2, <3>2, <3>3 DEF EndsOK, AllOK
    <3> QED BY <3>1, <3>4 DEF AtEof
  <2>9. CASE BeatEnds
    BY <2>9 DEF BeatEnds
  <2>10. ASSUME NEW i \in Streams, BeatStream(i)
         PROVE  FALSE
    BY <2>10 DEF BeatStream
  <2>11. ASSUME NEW i \in Streams, NEW refused \in BOOLEAN, ReceiveFrame(i, refused)
         PROVE  FALSE
    BY <2>11 DEF ReceiveFrame
  <2>12. CASE UNCHANGED vars
    BY <2>12 DEF vars, EofWhenAllClosed
  <2> QED BY <2>3, <2>4, <2>5, <2>6, <2>7, <2>8, <2>9, <2>10, <2>11, <2>12 DEF Next, Receive
<1> QED BY <1>1, <1>2, SyncQueueInvariant, PTL DEF Spec

-----------------------------------------------------------------------------
(* Frames of a constant size.                                              *)

(* What ShortOK says of stream i.                                          *)
ShortStream(i, st, n, samples) ==
  /\ st.frame_samples # 0 => Sizes[i] # {}
  /\ Sizes[i] # {} => NoneEmpty(st.fifo)
  /\ st.frame_samples # 0 =>
       \/ samples = n * st.frame_samples
       \/ /\ samples \in (n - 1) * st.frame_samples .. n * st.frame_samples
          /\ st.finished /\ st.fifo = << >>

LEMMA ShortOKIs ==
  ShortOK <=> \A i \in Streams : ShortStream(i, sq.streams[i], got[i], samples_got[i])
BY DEF ShortOK, ShortStream

(* A stream whose frames are left alone.                                   *)
LEMMA ShortStays ==
  ASSUME ShortOK, NEW i \in Streams, SameData(sq.streams[i], sq'.streams[i]),
         sq.streams[i].finished => sq'.streams[i].finished,
         got'[i] = got[i], samples_got'[i] = samples_got[i]
  PROVE  ShortStream(i, sq'.streams[i], got'[i], samples_got'[i])
BY DEF ShortOK, ShortStream, SameData

(* The frame that is received is of the size the encoder asked for, or is  *)
(* the last one.                                                           *)
LEMMA ShortReceive ==
  ASSUME NEW i \in Streams, NEW s \in StreamType, NEW t \in StreamType,
         NEW n \in Nat, NEW samples \in Nat,
         ShortStream(i, s, n, samples),
         s.fifo # << >>, s.samples_queued = Samples(s.fifo),
         s.frame_samples <= s.samples_queued \/ s.finished,
         t.frame_samples = s.frame_samples,
         s.finished => t.finished,
         NoneEmpty(s.fifo) => NoneEmpty(t.fifo),
         NbSamples(s) # 0 /\ NbTaken(s) = Samples(s.fifo) => t.fifo = << >>
  PROVE  ShortStream(i, t, n + 1, samples + NbTaken(s))
<1>1. NoneEmpty(s.fifo) => NoneEmpty(t.fifo)
  OBVIOUS
<1>2. SUFFICES ASSUME s.frame_samples # 0
               PROVE  \/ samples + NbTaken(s) = (n + 1) * s.frame_samples
                      \/ /\ samples + NbTaken(s) \in n * s.frame_samples .. (n + 1) * s.frame_samples
                         /\ t.finished /\ t.fifo = << >>
  BY <1>1 DEF ShortStream
<1>3. NoneEmpty(s.fifo) /\ samples = n * s.frame_samples
  BY <1>2 DEF ShortStream
<1>4. \/ NbTaken(s) = s.frame_samples
      \/ /\ NbTaken(s) \in 1 .. s.frame_samples
         /\ s.finished /\ t.fifo = << >>
  BY <1>2, <1>3, NbSamplesTaken
<1>5. s.frame_samples \in Nat /\ NbTaken(s) \in Nat
  BY NbSamplesTaken DEF StreamType
<1> DEFINE k == s.frame_samples
           m == NbTaken(s)
<1>6. k \in Nat /\ m \in Nat /\ (n + 1) * k = n * k + k /\ n * k \in Nat
  BY <1>5
<1>7. samples = n * k /\ (m = k \/ (m \in 1 .. k /\ t.finished /\ t.fifo = << >>))
  BY <1>3, <1>4
<1> HIDE DEF k, m
<1>8. \/ samples + m = (n + 1) * k
      \/ /\ samples + m \in n * k .. (n + 1) * k
         /\ t.finished /\ t.fifo = << >>
  <2> DEFINE p == n * k
             p1 == (n + 1) * k
  <2>1. p \in Nat /\ p1 = p + k /\ samples = p
    BY <1>6, <1>7
  <2> HIDE DEF p, p1
  <2>2. \/ samples + m = p1
        \/ samples + m \in p .. p1 /\ t.finished /\ t.fifo = << >>
    BY <1>6, <1>7, <2>1
  <2> QED BY <2>2 DEF p, p1
<1> QED BY <1>8 DEF k, m

LEMMA FrameHasSamples ==
  ASSUME NEW i \in Streams, NEW f \in Frames[i], Sizes[i] # {}
  PROVE  f.n > 0
<1>1. f.n # 0 /\ f.n \in Nat
  BY SyncQueueAssumption, FrameTypes DEF SyncQueueAssumption, FrameType
<1> QED BY <1>1

LEMMA NoneEmptyAppend ==
  ASSUME NEW s \in Seq(FrameType), NEW x \in FrameType, NoneEmpty(s), x.n > 0
  PROVE  NoneEmpty(Append(s, x))
<1>1. ASSUME NEW k \in 1 .. Len(s) + 1
      PROVE  Append(s, x)[k].n > 0
  <2>1. CASE k = Len(s) + 1
    BY <2>1
  <2>2. CASE k # Len(s) + 1
    <3>1. k \in 1 .. Len(s) /\ Append(s, x)[k] = s[k]
      BY <2>2
    <3> QED BY <3>1 DEF NoneEmpty
  <2> QED BY <2>1, <2>2
<1> QED BY <1>1 DEF NoneEmpty

LEMMA NextShortOK == IInv /\ ShortOK /\ [Next]_vars => ShortOK'
<1> SUFFICES ASSUME IInv, ShortOK, [Next]_vars PROVE ShortOK'
  OBVIOUS
<1> DEFINE Good(i) == ShortStream(i, sq'.streams[i], got'[i], samples_got'[i])
<1>1. Types /\ SetupOK /\ NothingSent /\ EndsOK /\ SamplesAddUp
  BY DEF IInv
<1>2. IInv'
  BY NextIInv
<1>3. SUFFICES ASSUME NEW j \in Streams PROVE Good(j)
  <2>1. ShortOK' <=> \A i \in Streams : Good(i)
    BY DEF ShortOK, ShortStream
  <2> QED BY <2>1
<1>4. sq.streams[j] \in StreamType /\ got[j] \in Nat /\ samples_got[j] \in Nat
  BY <1>1, QueueTypes DEF Types
<1>5. ShortStream(j, sq.streams[j], got[j], samples_got[j])
  BY ShortOKIs
<1>6. CASE sq' = sq /\ got' = got /\ samples_got' = samples_got
  BY <1>5, <1>6
<1>7. ASSUME NEW limiting \in BOOLEAN, NEW frames_max \in Limits,
             sq_add_stream(limiting, frames_max)
      PROVE  Good(j)
  <2>1. sent[j] = 0 /\ sent' = sent
    BY <1>1, <1>7 DEF sq_add_stream, SetupOK, Unused
  <2>2. sq'.streams[j].fifo = << >> /\ got'[j] = 0 /\ samples_got'[j] = 0
    BY <1>2, <2>1 DEF IInv, NothingSent
  <2>3. sq'.streams[j].frame_samples = sq.streams[j].frame_samples
    BY <1>7, AddStreamResult
  <2>4. sq.streams[j].frame_samples \in Nat
    BY <1>4 DEF StreamType
  <2> QED BY <1>5, <2>2, <2>3, <2>4 DEF ShortStream, NoneEmpty
<1>8. ASSUME NEW i \in Streams, NEW k \in Sizes[i], sq_frame_samples(i, k)
      PROVE  Good(j)
  <2>1. /\ sq' = [sq EXCEPT !.streams[i].frame_samples = k] /\ sent[i] = 0
        /\ got' = got /\ samples_got' = samples_got
    BY <1>8 DEF sq_frame_samples
  <2>2. sq \in SyncQueueType /\ sq.streams \in [Streams -> StreamType]
    BY <1>1 DEF Types, SyncQueueType
  <2>3. CASE j # i
    <3>1. sq'.streams[j] = sq.streams[j]
      BY <2>1, <2>2, <2>3
    <3> QED BY <1>5, <2>1, <3>1
  <2>4. CASE j = i
    <3>1. sq'.streams[j] = [sq.streams[j] EXCEPT !.frame_samples = k]
      BY <2>1, <2>2, <2>4
    <3>2. sq'.streams[j].frame_samples = k /\ sq'.streams[j].fifo = sq.streams[j].fifo
      BY <1>4, <3>1 DEF StreamType
    <3>3. sq.streams[j].fifo = << >> /\ got[j] = 0 /\ samples_got[j] = 0
      BY <1>1, <2>1, <2>4 DEF NothingSent
    <3>4. k \in Nat /\ Sizes[j] # {}
      BY <2>4, SyncQueueAssumption DEF SyncQueueAssumption
    <3> QED BY <2>1, <3>2, <3>3, <3>4 DEF ShortStream, NoneEmpty
  <2> QED BY <2>3, <2>4
<1>9. ASSUME NEW i \in Streams, NEW f \in Frames[i], SendFrame(i, f)
      PROVE  Good(j)
  <2>1. /\ pc = "idle" /\ ~sq.streams[i].finished /\ sq' = sq_send(sq, i, f)
        /\ got' = got /\ samples_got' = samples_got
    BY <1>9 DEF SendFrame
  <2>2. Indices(sq) = Streams
    BY <1>1, <2>1, AllAdded
  <2>3. SendResult(sq, sq', i, f)
    BY <1>1, <2>1, <2>2, SqSend, FrameTypes DEF Types, EndsOK, Finished
  <2>4. sq.streams[j].finished => sq'.streams[j].finished
    BY <2>2, <2>3 DEF SendResult, Finished
  <2>5. CASE j # i
    BY <2>1, <2>3, <2>4, <2>5, ShortStays DEF SendResult
  <2>6. CASE j = i
    <3>1. PICK g \in FrameType : g.n = f.n /\ sq'.streams[j].fifo = Append(sq.streams[j].fifo, g)
      BY <2>3, <2>6 DEF SendResult
    <3>2. sq'.streams[j].frame_samples = sq.streams[j].frame_samples
      BY <2>3, <2>6 DEF SendResult
    <3>3. sq.streams[j].fifo \in Seq(FrameType)
      BY <1>4 DEF StreamType
    <3>4. Sizes[j] # {} => NoneEmpty(sq'.streams[j].fifo)
      BY <1>5, <2>6, <3>1, <3>3, FrameHasSamples, NoneEmptyAppend DEF ShortStream
    <3>5. ~sq.streams[j].finished
      BY <2>1, <2>6
    <3> QED BY <1>5, <2>1, <3>2, <3>4, <3>5 DEF ShortStream
  <2> QED BY <2>5, <2>6
<1>10. ASSUME NEW i \in Streams, SendEof(i)
       PROVE  Good(j)
  <2>1. /\ pc = "idle" /\ sq' = finish_stream(sq, i) /\ got' = got /\ samples_got' = samples_got
    BY <1>10 DEF SendEof
  <2>2. Indices(sq) = Streams /\ sq \in SyncQueueType
    BY <1>1, <2>1, AllAdded DEF Types
  <2>3. Moves(sq, sq')
    BY <2>1, <2>2, FinishMoves
  <2>4. SameData(sq.streams[j], sq'.streams[j])
    BY <2>2, <2>3, MovesSameData
  <2>5. sq.streams[j].finished => sq'.streams[j].finished
    BY <2>2, <2>3 DEF Moves, Finished
  <2> QED BY <2>1, <2>4, <2>5, ShortStays
<1>11. CASE ReceiveEof \/ ReceiveAgain \/ BeatEnds \/ UNCHANGED vars
  BY <1>6, <1>11 DEF ReceiveEof, ReceiveAgain, BeatEnds, vars
<1>12. ASSUME NEW i \in Streams, BeatStream(i)
       PROVE  Good(j)
  <2>1. /\ pc = "beat" /\ ~sq.streams[i].finished /\ got' = got /\ samples_got' = samples_got
    BY <1>12 DEF BeatStream, LagsNow, Lags
  <2>2. Moves(sq, sq') /\ sq \in SyncQueueType
    BY <1>1, <1>12, BeatStreamResult DEF Types, Advances
  <2>3. Indices(sq) = Streams
    BY <1>1, <2>1, AllAdded
  <2>4. SameData(sq.streams[j], sq'.streams[j])
    BY <2>2, MovesSameData
  <2>5. sq.streams[j].finished => sq'.streams[j].finished
    BY <2>2, <2>3 DEF Moves, Finished
  <2> QED BY <2>1, <2>4, <2>5, ShortStays
<1>13. ASSUME NEW i \in Streams, NEW refused \in BOOLEAN, ReceiveFrame(i, refused)
       PROVE  Good(j)
  <2>1. /\ got' = [got EXCEPT ![i] = @ + 1]
        /\ samples_got' = [samples_got EXCEPT ![i] = @ + NbTaken(sq.streams[i])]
        /\ got \in [Streams -> Nat] /\ samples_got \in [Streams -> Nat]
    BY <1>1, <1>13 DEF ReceiveFrame, Types
  <2> DEFINE st == sq.streams[i]
  <2>2. /\ Indices(sq) = Streams /\ Finished(sq) \subseteq Finished(sq')
        /\ \A h \in Streams \ {i} : SameData(sq.streams[h], sq'.streams[h])
        /\ sq'.streams[i].frame_samples = st.frame_samples
        /\ st.fifo # << >>
        /\ st.samples_queued = Samples(st.fifo)
        /\ st.frame_samples <= st.samples_queued \/ st.finished
        /\ NoneEmpty(st.fifo) => NoneEmpty(sq'.streams[i].fifo)
        /\ NbSamples(st) # 0 /\ NbTaken(st) = Samples(st.fifo) => sq'.streams[i].fifo = << >>
    BY <1>13, ReceiveFrameResult
  <2>3. sq.streams[j].finished => sq'.streams[j].finished
    BY <2>2 DEF Finished
  <2>4. CASE j # i
    BY <2>1, <2>2, <2>3, <2>4, ShortStays
  <2>5. CASE j = i
    <3>1. sq'.streams[j] \in StreamType
      BY <1>2, QueueTypes DEF IInv, Types
    <3>2. got'[j] = got[j] + 1 /\ samples_got'[j] = samples_got[j] + NbTaken(sq.streams[j])
      BY <2>1, <2>5
    <3>3. ShortStream(j, sq'.streams[j], got[j] + 1, samples_got[j] + NbTaken(sq.streams[j]))
      BY <1>4, <1>5, <2>2, <2>3, <2>5, <3>1, ShortReceive
    <3> QED BY <3>2, <3>3
  <2> QED BY <2>4, <2>5
<1> QED BY <1>7, <1>8, <1>9, <1>10, <1>11, <1>12, <1>13 DEF Next, Receive

(* All frames an encoder gets that wants a constant size have that size,   *)
(* except for the last one.                                                *)
THEOREM OnlyTheLastIsShortHolds == Spec => []OnlyTheLastIsShort
<1>1. Init => ShortOK
  <2> SUFFICES ASSUME Init PROVE ShortOK
    OBVIOUS
  <2>1. \A i \in Streams : sq.streams[i] = NoStream
    BY DEF Init
  <2> QED BY <2>1, NoStreamType DEF ShortOK, NoneEmpty
<1>2. IInv /\ ShortOK /\ [Next]_vars => ShortOK'
  BY NextShortOK
<1>3. ShortOK => OnlyTheLastIsShort
  BY DEF ShortOK, OnlyTheLastIsShort
<1> QED BY <1>1, <1>2, <1>3, SyncQueueInvariant, PTL DEF Spec

-----------------------------------------------------------------------------
(* No stream gets ahead.                                                   *)

(* Nothing is received, and heads do not move back.                        *)
LEMMA AheadStays ==
  ASSUME Types, Types', NoneGetsAhead, lastEnd' = lastEnd, Limiting(sq') = Limiting(sq),
         \A l \in Heads(sq) : l \in Heads(sq') /\ HeadTime(sq, l) <= HeadTime(sq', l)
  PROVE  NoneGetsAhead'
<1>1. SUFFICES ASSUME NEW i \in Streams, NEW l \in Limiting(sq), lastEnd[i] > NOPTS
               PROVE  HasHead(sq', l) /\ lastEnd[i] <= HeadTime(sq', l)
  BY DEF NoneGetsAhead, HasHead, HeadTime
<1>2. HasHead(sq, l) /\ lastEnd[i] <= HeadTime(sq, l)
  BY <1>1 DEF NoneGetsAhead
<1>3. l \in Heads(sq) /\ l \in Streams
  BY <1>2, QueueTypes DEF Heads, Limiting, Types
<1>4. HasHead(sq', l) /\ HeadTime(sq, l) <= HeadTime(sq', l)
  BY <1>3 DEF Heads
<1>5. lastEnd[i] \in Int /\ HeadTime(sq, l) \in Int /\ HeadTime(sq', l) \in Int
  BY <1>3, QueueTypes DEF Types
<1> QED BY <1>2, <1>4, <1>5

(* What is received ends before the head of the head stream, which is the  *)
(* earliest of the limiting streams.                                       *)
LEMMA AheadReceive ==
  ASSUME IInv, LinedUp, NEW i \in Streams, NEW refused \in BOOLEAN, ReceiveFrame(i, refused)
  PROVE  NoneGetsAhead'
<1>1. Types /\ Types' /\ HeadOK(sq) /\ NoneGetsAhead
  BY ReceiveFrameResult DEF IInv, LinedUp
<1>2. /\ Limiting(sq') = Limiting(sq) /\ Heads(sq') = Heads(sq)
      /\ \A j \in Heads(sq) : HeadTime(sq', j) = HeadTime(sq, j)
  BY ReceiveFrameResult
<1> DEFINE st == sq.streams[i]
           ts == frame_end(i, st.fifo[1], NbSamples(st))
<1>3. /\ lastEnd' = [lastEnd EXCEPT ![i] = IF ts * st.tb > @ THEN ts * st.tb ELSE @]
      /\ \/ ts = NOPTS
         \/ ~have_limiting(sq)
         \/ sq.head_stream # None /\ ts * st.tb <= HeadTime(sq, sq.head_stream)
  BY DEF ReceiveFrame, Releasable
<1>4. lastEnd \in [Streams -> Int] /\ lastEnd' \in [Streams -> Int] /\ st.tb \in Nat \ {0}
      /\ lastEnd[i] >= NOPTS
  BY <1>1, QueueTypes DEF Types, StreamType
<1> HIDE DEF ts, st
<1>5. SUFFICES ASSUME NEW j \in Streams, NEW l \in Limiting(sq), lastEnd'[j] > NOPTS
               PROVE  l \in Heads(sq) /\ lastEnd'[j] <= HeadTime(sq, l)
  BY <1>2 DEF NoneGetsAhead, Heads
<1>6. l \in Indices(sq) /\ l \in Streams /\ HeadTime(sq, l) \in Int
  BY <1>1, QueueTypes DEF Limiting, Types
<1>7. CASE lastEnd'[j] = lastEnd[j]
  BY <1>1, <1>5, <1>6, <1>7 DEF NoneGetsAhead, Heads
<1>8. CASE lastEnd'[j] # lastEnd[j]
  <2>1. j = i /\ lastEnd'[j] = ts * st.tb /\ lastEnd'[j] > lastEnd[i]
    BY <1>3, <1>4, <1>8
  <2>2. ts # NOPTS
    <3>1. NOPTS * st.tb <= NOPTS
      <4>1. NOPTS \in Int /\ NOPTS < 0
        BY Constants
      <4> QED BY <1>4, <4>1
    <3>2. NOPTS * st.tb \in Int /\ NOPTS \in Int /\ lastEnd[i] \in Int
      BY <1>4, Constants
    <3> QED BY <1>4, <2>1, <3>1, <3>2
  <2>3. have_limiting(sq)
    BY <1>5 DEF have_limiting
  <2>4. sq.head_stream # None /\ lastEnd'[j] <= HeadTime(sq, sq.head_stream)
    BY <1>3, <2>1, <2>2, <2>3
  <2>5. l \in Heads(sq) /\ HeadTime(sq, sq.head_stream) <= HeadTime(sq, l)
    BY <1>1, <2>4 DEF HeadOK
  <2>6. HeadTime(sq, sq.head_stream) \in Int /\ lastEnd'[j] \in Int
    BY <1>1, <1>4, <2>4, QueueTypes DEF Types
  <2> QED BY <1>6, <2>4, <2>5, <2>6
<1> QED BY <1>7, <1>8

(* Nothing is received and heads only move on, which is all but receiving. *)
LEMMA LinedUpStays ==
  ASSUME IInv, IInv', LinedUp, lastEnd' = lastEnd, Limiting(sq') = Limiting(sq),
         \A l \in Heads(sq) : l \in Heads(sq') /\ HeadTime(sq, l) <= HeadTime(sq', l),
         HeadOK(sq) => HeadOK(sq'), ReachedOK(sq, {}) => ReachedOK(sq', {})
  PROVE  LinedUp'
<1>1. NoneGetsAhead'
  BY AheadStays DEF IInv, LinedUp
<1>2. HeadOK(sq') /\ ReachedOK(sq', {})
  BY DEF LinedUp
<1> QED BY <1>1, <1>2 DEF LinedUp

LEMMA NextLinedUp == IInv /\ LinedUp /\ HeadsConvert /\ [Next]_vars => LinedUp'
<1> SUFFICES ASSUME IInv, LinedUp, HeadsConvert, [Next]_vars PROVE LinedUp'
  OBVIOUS
<1>1. Types /\ SetupOK /\ EndsOK
  BY DEF IInv
<1>2. IInv' /\ Types'
  BY NextIInv DEF IInv
<1>3. \A l \in Heads(sq) : HeadTime(sq, l) \in Int
  BY <1>1, QueueTypes DEF Types
<1>4. ASSUME sq' = sq, lastEnd' = lastEnd PROVE LinedUp'
  BY <1>4 DEF LinedUp, NoneGetsAhead
<1>5. ASSUME NEW limiting \in BOOLEAN, NEW frames_max \in Limits,
             sq_add_stream(limiting, frames_max)
      PROVE  LinedUp'
  <2>1. sq'.head_stream = None /\ sq'.head_finished_stream = None
    BY <1>5, AddStreamResult
  <2>2. \A i \in Streams : lastEnd'[i] = NOPTS
    BY <1>1, <1>5 DEF sq_add_stream, SetupOK, Unused
  <2> QED BY <2>1, <2>2, Constants DEF LinedUp, HeadOK, ReachedOK, NoneGetsAhead
<1>6. ASSUME NEW i \in Streams, NEW k \in Sizes[i], sq_frame_samples(i, k)
      PROVE  LinedUp'
  <2>1. SameCore(sq, sq') /\ lastEnd' = lastEnd
    BY <1>6, FrameSamplesIInv DEF sq_frame_samples
  <2>2. /\ HeadOK(sq) => HeadOK(sq')
        /\ KeepsEnds(sq, sq', {})
    BY <1>1, <2>1, SameCoreKeeps DEF EndsOK, Types
  <2> QED BY <1>2, <1>3, <2>1, <2>2, LinedUpStays DEF SameCore, KeepsEnds
<1>7. ASSUME NEW i \in Streams, NEW f \in Frames[i], SendFrame(i, f)
      PROVE  LinedUp'
  <2>1. pc = "idle" /\ ~sq.streams[i].finished /\ sq' = sq_send(sq, i, f) /\ lastEnd' = lastEnd
    BY <1>7 DEF SendFrame
  <2>2. Indices(sq) = Streams
    BY <1>1, <2>1, AllAdded
  <2>3. SendResult(sq, sq', i, f)
    BY <1>1, <2>1, <2>2, SqSend, FrameTypes DEF Types, EndsOK, Finished
  <2>4. Converts(sq, i)
    BY DEF HeadsConvert
  <2>5. /\ Limiting(sq') = Limiting(sq)
        /\ HeadOK(sq) => HeadOK(sq')
        /\ ReachedOK(sq, {}) => ReachedOK(sq', {})
        /\ \A j \in Heads(sq) : j \in Heads(sq') /\ HeadTime(sq, j) <= HeadTime(sq', j)
    BY <2>3, <2>4 DEF SendResult
  <2> QED BY <1>2, <2>1, <2>5, LinedUpStays
<1>8. ASSUME NEW i \in Streams, SendEof(i)
      PROVE  LinedUp'
  <2>1. pc = "idle" /\ sq' = finish_stream(sq, i) /\ lastEnd' = lastEnd
    BY <1>8 DEF SendEof
  <2>2. i \in Indices(sq) /\ sq \in SyncQueueType
    BY <1>1, <2>1, AllAdded DEF Types
  <2>3. Advances(sq, sq')
    BY <2>1, <2>2, FinishAdvances
  <2>4. ReachedOK(sq, {}) => ReachedOK(sq, {i})
    BY DEF ReachedOK
  <2>5. /\ HeadOK(sq) => HeadOK(sq')
        /\ ReachedOK(sq, {}) => ReachedOK(sq', {})
    BY <1>1, <2>1, <2>2, <2>4, FinishKeeps DEF EndsOK
  <2> QED BY <1>2, <2>1, <2>3, <2>5, LinedUpStays DEF Advances
<1>9. CASE ReceiveEof \/ ReceiveAgain \/ BeatEnds \/ UNCHANGED vars
  BY <1>4, <1>9 DEF ReceiveEof, ReceiveAgain, BeatEnds, vars
<1>10. ASSUME NEW i \in Streams, BeatStream(i)
       PROVE  LinedUp'
  <2>1. lastEnd' = lastEnd
    BY <1>10 DEF BeatStream
  <2> QED BY <1>2, <1>10, <2>1, BeatStreamResult, LinedUpStays DEF Advances, KeepsEnds
<1>11. ASSUME NEW i \in Streams, NEW refused \in BOOLEAN, ReceiveFrame(i, refused)
       PROVE  LinedUp'
  <2>1. NoneGetsAhead'
    BY <1>11, AheadReceive
  <2>2. HeadOK(sq') /\ ReachedOK(sq', {})
    BY <1>11, ReceiveFrameResult DEF LinedUp
  <2> QED BY <2>1, <2>2 DEF LinedUp
<1> QED BY <1>5, <1>6, <1>7, <1>8, <1>9, <1>10, <1>11 DEF Next, Receive

LEMMA InitLinedUp == Init => LinedUp
<1> SUFFICES ASSUME Init PROVE LinedUp
  OBVIOUS
<1>1. sq.head_stream = None /\ sq.head_finished_stream = None
  BY DEF Init
<1>2. \A i \in Streams : lastEnd[i] = NOPTS
  BY DEF Init
<1> QED BY <1>1, <1>2, Constants DEF LinedUp, HeadOK, ReachedOK, NoneGetsAhead

(* No stream gets ahead of a limiting stream as long as heads stay where   *)
(* they are when the time base of their stream changes (tb_update()).      *)
THEOREM NoneGetsAheadHolds == Spec /\ []HeadsConvert => []NoneGetsAhead
<1>1. Init => LinedUp
  BY InitLinedUp
<1>2. IInv /\ LinedUp /\ HeadsConvert /\ [Next]_vars => LinedUp'
  BY NextLinedUp
<1>3. LinedUp => NoneGetsAhead
  BY DEF LinedUp
<1> QED BY <1>1, <1>2, <1>3, SyncQueueInvariant, PTL DEF Spec

(* Under the same condition a stream that has reached the head of a        *)
(* limiting stream that has ended is finished.                             *)
THEOREM NoneOutlivesTheShortestHolds == Spec /\ []HeadsConvert => []NoneOutlivesTheShortest
<1>1. Init => LinedUp
  BY InitLinedUp
<1>2. IInv /\ LinedUp /\ HeadsConvert /\ [Next]_vars => LinedUp'
  BY NextLinedUp
<1>3. IInv /\ LinedUp => NoneOutlivesTheShortest
  <2> SUFFICES ASSUME IInv, LinedUp,
                      NEW l \in Limiting(sq), NEW i \in Streams,
                      sq.streams[l].finished, HasHead(sq, l),
                      HasHead(sq, i), HeadTime(sq, i) >= HeadTime(sq, l)
               PROVE  sq.streams[i].finished
    BY DEF NoneOutlivesTheShortest
  <2>1. Types /\ EndsOK /\ SetupOK /\ ReachedOK(sq, {})
    BY DEF IInv, LinedUp
  <2>2. l \in Indices(sq) /\ l \in Streams /\ l \in Enders(sq) \cap Finished(sq)
    BY <2>1, QueueTypes DEF Limiting, Enders, Heads, Finished, Types
  <2>3. i \in Heads(sq)
    BY <2>1, NoStreamType DEF SetupOK, Heads, HasHead
  <2>4. /\ sq.head_finished_stream # None
        /\ HeadTime(sq, sq.head_finished_stream) <= HeadTime(sq, l)
    BY <2>1, <2>2 DEF EndsOK, EarliestOK
  <2>5. /\ HeadTime(sq, sq.head_finished_stream) \in Int
        /\ HeadTime(sq, l) \in Int /\ HeadTime(sq, i) \in Int
    BY <2>1, <2>2, <2>4, QueueTypes DEF Types
  <2>6. HeadTime(sq, sq.head_finished_stream) <= HeadTime(sq, i)
    BY <2>4, <2>5
  <2> QED BY <2>1, <2>3, <2>4, <2>6 DEF ReachedOK, Finished
<1> QED BY <1>1, <1>2, <1>3, SyncQueueInvariant, PTL DEF Spec

-----------------------------------------------------------------------------
(* When heads stay where they are: a stream without frames counts seconds, *)
(* and its first frame brings it a time base that divides a second.        *)

LEMMA Quotient ==
  ASSUME NEW d \in Nat \ {0}, NEW q \in Int, NEW e \in 0 .. d - 1
  PROVE  (d * q + e) \div d = q
<1> DEFINE x == d * q + e
           y == x \div d
<1>1. x \in Int /\ y \in Int /\ d * y <= x /\ x < d * y + d
  OBVIOUS
<1>2. d * (y - q) <= e /\ e < d * (y - q) + d
  <2>1. d * (y - q) = d * y - d * q
    BY <1>1
  <2> HIDE DEF y
  <2> QED BY <1>1, <2>1
<1>3. y - q \in Int
  BY <1>1
<1> DEFINE z == y - q
<1>4. z \in Int /\ d * z <= e /\ e < d * z + d
  BY <1>2, <1>3
<1> HIDE DEF z
<1>5. ~ z >= 1
  <2>1. z >= 1 => d * z >= d
    BY <1>4
  <2> QED BY <1>4, <2>1
<1>6. ~ z <= -1
  <2>1. z <= -1 => d * z <= - d
    BY <1>4
  <2> QED BY <1>4, <2>1
<1>7. z = 0
  BY <1>4, <1>5, <1>6
<1> QED BY <1>1, <1>7 DEF z

LEMMA RescaleExact ==
  ASSUME NEW ts \in Int, NEW to \in Nat \ {0}, NEW k \in Nat \ {0},
         -Int64 < ts * k, ts * k < Int64
  PROVE  av_rescale_q(ts, k * to, to) = ts * k
<1> DEFINE abs == IF ts < 0 THEN -ts ELSE ts
           r == (2 * abs * (k * to) + to) \div (2 * to)
<1>1. abs \in Nat /\ abs * k \in Nat /\ abs * k < Int64
  <2>1. ts * k \in Int /\ (-ts) * k = -(ts * k)
    OBVIOUS
  <2>2. abs * k \in Int /\ (abs * k = ts * k \/ abs * k = -(ts * k)) /\ abs \in Nat
    BY <2>1
  <2>3. abs * k >= 0
    BY <2>2
  <2> HIDE DEF abs
  <2> QED BY <2>1, <2>2, <2>3, Constants
<1>2. ts < 0 => ts * k = -(abs * k)
  OBVIOUS
<1>3. ts >= 0 => ts * k = abs * k
  OBVIOUS
<1>4. av_rescale_q(ts, k * to, to) = IF r >= Int64 THEN NOPTS ELSE IF ts < 0 THEN -r ELSE r
  BY DEF av_rescale_q
<1> HIDE DEF abs
<1>5. 2 * abs * (k * to) + to = (2 * to) * (abs * k) + to
  BY <1>1
<1>6. r = abs * k
  <2> DEFINE d == 2 * to
             q == abs * k
  <2>1. d \in Nat \ {0} /\ q \in Int /\ to \in 0 .. d - 1
    BY <1>1
  <2>2. r = (d * q + to) \div d
    BY <1>5
  <2> HIDE DEF d, q, r
  <2>3. r = q
    BY <2>1, <2>2, Quotient
  <2> QED BY <2>3 DEF q
<1> HIDE DEF r
<1> QED BY <1>1, <1>2, <1>3, <1>4, <1>6, Constants

(* The heads that are counted in seconds fit into 64 bits in the time base *)
(* of the frames, too.                                                     *)
HeadsFit ==
  \A i \in Streams, k \in Nat :
     OneSecond = k * Tb[i] /\ HasHead(sq, i) /\ sq.streams[i].tb = OneSecond =>
       -Int64 < sq.streams[i].head_ts * k /\ sq.streams[i].head_ts * k < Int64

(* The time base of a stream is that of its frames once it has some.       *)
BasesOK == \A i \in Streams : sq.streams[i].tb \in {OneSecond, Tb[i]}

LEMMA ConvertsExactly ==
  ASSUME NEW q \in SyncQueueType, NEW i \in Streams, NEW k \in Nat \ {0},
         q.streams[i].tb = k * Tb[i],
         HasHead(q, i) => /\ -Int64 < q.streams[i].head_ts * k
                          /\ q.streams[i].head_ts * k < Int64
  PROVE  Converts(q, i)
<1> DEFINE st == q.streams[i]
           h == av_rescale_q(st.head_ts, st.tb, Tb[i])
           s == [st EXCEPT !.head_ts = h, !.tb = Tb[i]]
<1>1. SUFFICES ASSUME HasHead(q, i), st.tb # Tb[i]
               PROVE  /\ HasHead(tb_update(q, i), i)
                      /\ HeadTime(tb_update(q, i), i) = HeadTime(q, i)
  BY DEF Converts, tb_update
<1>2. q.streams \in [Streams -> StreamType] /\ st \in StreamType /\ Tb[i] \in Nat \ {0}
  BY QueueTypes, Constants DEF SyncQueueType
<1>3. tb_update(q, i).streams[i] = s
  BY <1>1, <1>2 DEF tb_update, HasHead, SyncQueueType
<1>4. s.head_ts = h /\ s.tb = Tb[i]
  BY <1>2 DEF StreamType
<1>5. st.head_ts \in Int
  BY <1>2 DEF StreamType
<1>6. h = st.head_ts * k
  BY <1>1, <1>2, <1>5, RescaleExact
<1> DEFINE t == Tb[i]
           x == st.head_ts
<1>7. h # NOPTS /\ h * t = x * (k * t)
  <2>1. x \in Int /\ t \in Nat \ {0} /\ h = x * k /\ -Int64 < x * k
    BY <1>1, <1>2, <1>5, <1>6
  <2> HIDE DEF x, t, h
  <2>2. h # NOPTS
    BY <2>1, Constants DEF NOPTS
  <2>3. h * t = x * (k * t)
    BY <2>1
  <2> QED BY <2>2, <2>3
<1> HIDE DEF h, s
<1> QED BY <1>3, <1>4, <1>7 DEF HasHead, HeadTime

LEMMA NextBasesOK == IInv /\ BasesOK /\ [Next]_vars => BasesOK'
<1> SUFFICES ASSUME IInv, BasesOK, [Next]_vars PROVE BasesOK'
  OBVIOUS
<1>1. Types /\ SetupOK /\ EndsOK
  BY DEF IInv
<1>2. SUFFICES ASSUME NEW j \in Streams
               PROVE  sq'.streams[j].tb \in {sq.streams[j].tb, Tb[j]}
  BY DEF BasesOK
<1>3. ASSUME NEW limiting \in BOOLEAN, NEW frames_max \in Limits,
             sq_add_stream(limiting, frames_max)
      PROVE  sq'.streams[j].tb = sq.streams[j].tb
  BY <1>3, AddStreamResult
<1>4. ASSUME NEW i \in Streams, NEW k \in Sizes[i], sq_frame_samples(i, k)
      PROVE  sq'.streams[j].tb = sq.streams[j].tb
  BY <1>4, FrameSamplesIInv
<1>5. ASSUME NEW i \in Streams, NEW f \in Frames[i], SendFrame(i, f)
      PROVE  sq'.streams[j].tb \in {sq.streams[j].tb, Tb[j]}
  <2>1. pc = "idle" /\ ~sq.streams[i].finished /\ sq' = sq_send(sq, i, f)
    BY <1>5 DEF SendFrame
  <2>2. Indices(sq) = Streams
    BY <1>1, <2>1, AllAdded
  <2>3. SendResult(sq, sq', i, f)
    BY <1>1, <2>1, <2>2, SqSend, FrameTypes DEF Types, EndsOK, Finished
  <2>4. CASE j = i
    BY <2>3, <2>4 DEF SendResult
  <2>5. CASE j # i
    BY <2>3, <2>5 DEF SendResult, SameData
  <2> QED BY <2>4, <2>5
<1>6. ASSUME NEW i \in Streams, SendEof(i)
      PROVE  sq'.streams[j].tb = sq.streams[j].tb
  <2>1. pc = "idle" /\ sq' = finish_stream(sq, i)
    BY <1>6 DEF SendEof
  <2>2. i \in Indices(sq) /\ sq \in SyncQueueType
    BY <1>1, <2>1, AllAdded DEF Types
  <2> QED BY <2>1, <2>2, FinishMoves, MovesSameData DEF SameData
<1>7. CASE ReceiveEof \/ ReceiveAgain \/ BeatEnds \/ UNCHANGED vars
  BY <1>7 DEF ReceiveEof, ReceiveAgain, BeatEnds, vars
<1>8. ASSUME NEW i \in Streams, BeatStream(i)
      PROVE  sq'.streams[j].tb = sq.streams[j].tb
  <2>1. Moves(sq, sq') /\ sq \in SyncQueueType
    BY <1>1, <1>8, BeatStreamResult DEF Advances, Types
  <2> QED BY <2>1, MovesSameData DEF SameData
<1>9. ASSUME NEW i \in Streams, NEW refused \in BOOLEAN, ReceiveFrame(i, refused)
      PROVE  sq'.streams[j].tb = sq.streams[j].tb
  <2>1. CASE j = i
    BY <1>9, <2>1, ReceiveFrameResult
  <2>2. CASE j # i
    <3>1. SameData(sq.streams[j], sq'.streams[j])
      BY <1>9, <2>2, ReceiveFrameResult
    <3> QED BY <3>1 DEF SameData
  <2> QED BY <2>1, <2>2
<1> QED BY <1>3, <1>4, <1>5, <1>6, <1>7, <1>8, <1>9 DEF Next, Receive

(* Where all time bases divide a second, heads stay where they are when    *)
(* they fit (tb_update() rounds, and otherwise it may move a head).        *)
THEOREM HeadsConvertHolds ==
  ASSUME NEW K \in [Streams -> Nat \ {0}], \A i \in Streams : OneSecond = K[i] * Tb[i]
  PROVE  Spec /\ []HeadsFit => []HeadsConvert
<1>1. Init => BasesOK
  BY NoStreamType DEF Init, BasesOK
<1>2. IInv /\ BasesOK /\ [Next]_vars => BasesOK'
  BY NextBasesOK
<1>3. IInv /\ BasesOK /\ HeadsFit => HeadsConvert
  <2> SUFFICES ASSUME IInv, BasesOK, HeadsFit, NEW i \in Streams
               PROVE  Converts(sq, i)
    BY DEF HeadsConvert
  <2>1. sq \in SyncQueueType
    BY DEF IInv, Types
  <2>2. CASE sq.streams[i].tb = Tb[i]
    BY <2>2 DEF Converts, tb_update
  <2>3. CASE sq.streams[i].tb = OneSecond
    <3>1. /\ K[i] \in Nat \ {0} /\ OneSecond = K[i] * Tb[i]
          /\ HasHead(sq, i) => /\ -Int64 < sq.streams[i].head_ts * K[i]
                               /\ sq.streams[i].head_ts * K[i] < Int64
      BY <2>3 DEF HeadsFit
    <3> QED BY <2>1, <2>3, <3>1, ConvertsExactly
  <2> QED BY <2>2, <2>3 DEF BasesOK
<1> QED BY <1>1, <1>2, <1>3, SyncQueueInvariant, PTL DEF Spec

-----------------------------------------------------------------------------
(* Nothing comes after AVERROR_EOF.                                        *)

LEMMA FrameSamplesReady ==
  ASSUME IInv, NoneReady, NEW i \in Streams, NEW k \in Sizes[i], sq_frame_samples(i, k)
  PROVE  NoneReady'
<1>1. Types /\ NothingSent
  BY DEF IInv
<1>2. sq' = [sq EXCEPT !.streams[i].frame_samples = k] /\ sent[i] = 0
  BY DEF sq_frame_samples
<1>3. sq \in SyncQueueType /\ sq.streams \in [Streams -> StreamType]
  BY <1>1 DEF Types, SyncQueueType
<1>4. /\ \A j \in Streams \ {i} : sq'.streams[j] = sq.streams[j]
      /\ sq'.streams[i].fifo = sq.streams[i].fifo
      /\ sq'.streams[i].head_ts = sq.streams[i].head_ts
      /\ sq'.streams[i].tb = sq.streams[i].tb
      /\ sq'.head_stream = sq.head_stream
  <2>1. sq'.streams = [sq.streams EXCEPT ![i] = [sq.streams[i] EXCEPT !.frame_samples = k]]
    BY <1>2, <1>3
  <2>2. sq'.streams[i] = [sq.streams[i] EXCEPT !.frame_samples = k]
    BY <1>3, <2>1
  <2> QED BY <1>2, <1>3, <2>1, <2>2 DEF StreamType
<1>5. \A j \in Streams : HeadTime(sq', j) = HeadTime(sq, j)
  BY <1>4 DEF HeadTime
<1>6. have_limiting(sq') = have_limiting(sq)
  BY FrameSamplesIInv DEF SameCore, have_limiting
<1>7. SUFFICES ASSUME NEW j \in Streams PROVE ~Releasable(sq', j)
  BY DEF NoneReady, Releasable, have_limiting, Limiting, Indices, HeadTime
<1>8. CASE j = i
  BY <1>1, <1>2, <1>4, <1>8 DEF NothingSent, Releasable
<1>9. CASE j # i
  <2>1. sq.head_stream \in Streams \cup {None}
    BY <1>3, QueueTypes
  <2>2. ~Releasable(sq, j)
    BY DEF NoneReady
  <2> QED BY <1>4, <1>5, <1>6, <1>9, <2>1, <2>2 DEF Releasable
<1> QED BY <1>8, <1>9

LEMMA SendEofReady ==
  ASSUME IInv, NoneReady, \A j \in Streams : sq.streams[j].finished,
         NEW i \in Streams, SendEof(i)
  PROVE  NoneReady' /\ \A j \in Streams : sq'.streams[j].finished
<1>1. Types /\ SetupOK
  BY DEF IInv
<1>2. pc = "idle" /\ sq' = finish_stream(sq, i)
  BY DEF SendEof
<1>3. i \in Indices(sq) /\ sq \in SyncQueueType /\ Indices(sq) = Streams
  BY <1>1, <1>2, AllAdded DEF Types
<1>4. /\ Finished(sq') = Streams
      /\ Limiting(sq') = Limiting(sq) /\ sq'.head_stream = sq.head_stream
      /\ \A j \in Streams : HeadTime(sq', j) = HeadTime(sq, j)
      /\ \A j \in Streams :
           \E b \in BOOLEAN : sq'.streams[j] = [sq.streams[j] EXCEPT !.finished = b]
  <2> DEFINE r == finish_stream(sq, i)
  <2>1. /\ r \in SyncQueueType /\ Indices(r) = Indices(sq) /\ Finished(sq) \subseteq Finished(r)
        /\ Limiting(r) = Limiting(sq) /\ r.head_stream = sq.head_stream
        /\ \A j \in Streams : HeadTime(r, j) = HeadTime(sq, j)
        /\ \A j \in Streams :
             \E b \in BOOLEAN : r.streams[j] = [sq.streams[j] EXCEPT !.finished = b]
    BY <1>3, FinishStream
  <2>2. Finished(sq) = Streams
    BY <1>3 DEF Finished
  <2> HIDE DEF r
  <2>3. Finished(r) = Streams
    BY <1>3, <2>1, <2>2, QueueTypes
  <2> QED BY <1>2, <2>1, <2>3 DEF r
<1>5. \A j \in Streams : sq'.streams[j].finished
  BY <1>4 DEF Finished
<1>6. ASSUME NEW j \in Streams PROVE sq'.streams[j] = sq.streams[j]
  <2>1. PICK b \in BOOLEAN : sq'.streams[j] = [sq.streams[j] EXCEPT !.finished = b]
    BY <1>4
  <2>2. sq.streams[j] \in StreamType /\ sq.streams[j].finished /\ sq'.streams[j].finished
    BY <1>3, <1>5, QueueTypes
  <2>3. sq.streams[j].finished = TRUE /\ b = TRUE
    BY <2>1, <2>2 DEF StreamType
  <2> QED BY <2>1, <2>2, <2>3 DEF StreamType
<1>7. SUFFICES ASSUME NEW j \in Streams PROVE ~Releasable(sq', j)
  BY <1>5 DEF NoneReady, Releasable, have_limiting, Limiting, Indices, HeadTime
<1>8. sq.head_stream \in Streams \cup {None} /\ ~Releasable(sq, j)
  BY <1>3, QueueTypes DEF NoneReady
<1>9. have_limiting(sq') = have_limiting(sq)
  BY <1>4 DEF have_limiting
<1> QED BY <1>4, <1>6, <1>8, <1>9 DEF Releasable

LEMMA NextOverOK == 0 \notin Limits /\ IInv /\ OverOK /\ [Next]_vars => OverOK'
<1> SUFFICES ASSUME 0 \notin Limits, IInv, OverOK, [Next]_vars PROVE OverOK'
  OBVIOUS
<1>1. Types /\ SetupOK /\ EndsOK
  BY DEF IInv
<1>2. pc # "setup" => Indices(sq) = Streams
  BY <1>1, AllAdded
<1>3. IInv' /\ Types'
  BY NextIInv DEF IInv
<1>4. \A i \in Streams : eof => sq.streams[i].finished /\ ~Releasable(sq, i)
  BY DEF OverOK, NoneReady
<1>5. ASSUME NEW limiting \in BOOLEAN, NEW frames_max \in Limits,
             sq_add_stream(limiting, frames_max)
      PROVE  OverOK'
  <2>1. /\ Finished(sq') = Finished(sq) /\ sq'.finished = sq.finished
        /\ pc = "setup" /\ eof' = eof /\ ~eof
    BY <1>1, <1>5, AddStreamResult DEF sq_add_stream, SetupOK
  <2>2. ~sq'.finished
    BY <2>1 DEF OverOK
  <2> QED BY <2>1, <2>2 DEF OverOK, OnlyAllOK
<1>6. ASSUME NEW i \in Streams, NEW k \in Sizes[i], sq_frame_samples(i, k)
      PROVE  OverOK'
  <2>1. SameCore(sq, sq') /\ pc = "idle" /\ pc' = "idle" /\ eof' = eof
    BY <1>6, FrameSamplesIInv DEF sq_frame_samples
  <2>2. OnlyAllOK(sq')
    BY <2>1 DEF OverOK, OnlyAllOK, SameCore
  <2>3. ASSUME eof PROVE NoneReady' /\ \A j \in Streams : sq'.streams[j].finished
    <3>1. NoneReady'
      BY <1>6, <2>3, FrameSamplesReady DEF OverOK
    <3>2. Finished(sq') = Finished(sq) /\ Finished(sq) = Streams
      BY <1>2, <1>4, <2>1, <2>3 DEF SameCore, Finished
    <3> QED BY <3>1, <3>2 DEF Finished
  <2> QED BY <2>1, <2>2, <2>3 DEF OverOK
<1>7. ASSUME NEW i \in Streams, NEW f \in Frames[i], SendFrame(i, f)
      PROVE  OverOK'
  <2>1. /\ pc = "idle" /\ ~sq.streams[i].finished /\ sq' = sq_send(sq, i, f)
        /\ eof' = eof /\ pc' = "receive"
    BY <1>7 DEF SendFrame
  <2>2. SendResult(sq, sq', i, f)
    BY <1>1, <1>2, <2>1, SqSend, FrameTypes DEF Types, EndsOK, Finished
  <2>3. OnlyAllOK(sq') /\ ~eof
    BY <1>4, <2>1, <2>2 DEF OverOK, SendResult
  <2> QED BY <2>1, <2>3 DEF OverOK
<1>8. ASSUME NEW i \in Streams, SendEof(i)
      PROVE  OverOK'
  <2>1. pc = "idle" /\ sq' = finish_stream(sq, i) /\ pc' = "receive" /\ eof' = eof
    BY <1>8 DEF SendEof
  <2>2. OnlyAllOK(sq')
    BY <1>1, <1>2, <2>1, FinishKeeps DEF OverOK, Types
  <2>3. ASSUME eof PROVE NoneReady' /\ \A j \in Streams : sq'.streams[j].finished
    BY <1>8, <2>3, SendEofReady DEF OverOK
  <2> QED BY <2>1, <2>2, <2>3 DEF OverOK
<1>9. CASE ReceiveEof
  <2>1. /\ sq' = sq /\ NoneReady /\ pc # "setup" /\ pc' = "idle"
        /\ \A i \in Streams : AtEof(sq, i)
    BY <1>9 DEF ReceiveEof, Receiving
  <2>2. ASSUME NEW i \in Streams PROVE sq.streams[i].finished
    <3>1. CASE sq.finished
      BY <1>2, <2>1, <3>1 DEF OverOK, OnlyAllOK, Finished
    <3>2. CASE ~sq.finished
      BY <2>1, <3>2 DEF AtEof
    <3> QED BY <3>1, <3>2
  <2>3. NoneReady'
    BY <2>1 DEF NoneReady
  <2> QED BY <2>1, <2>2, <2>3 DEF OverOK
<1>10. CASE ReceiveAgain \/ BeatEnds
  <2>1. sq' = sq /\ eof' = eof /\ pc # "setup" /\ pc' # "setup"
    BY <1>10 DEF ReceiveAgain, BeatEnds, Receiving
  <2>2. NoneReady' <=> NoneReady
    BY <2>1 DEF NoneReady
  <2> QED BY <2>1, <2>2 DEF OverOK
<1>11. ASSUME NEW i \in Streams, BeatStream(i)
       PROVE  OverOK'
  <2>1. pc = "beat" /\ pc' = pc /\ ~sq.streams[i].finished /\ eof' = eof
    BY <1>11 DEF BeatStream, LagsNow, Lags
  <2>2. OnlyAllOK(sq')
    BY <1>11, BeatStreamResult DEF OverOK, KeepsEnds
  <2> QED BY <1>4, <2>1, <2>2 DEF OverOK
<1>12. ASSUME NEW i \in Streams, NEW refused \in BOOLEAN, ReceiveFrame(i, refused)
       PROVE  OverOK'
  <2>1. Releasable(sq, i) /\ eof' = eof /\ pc' = "receive"
    BY <1>12 DEF ReceiveFrame
  <2>2. OnlyAllOK(sq')
    BY <1>12, ReceiveFrameResult DEF OverOK
  <2> QED BY <1>4, <2>1, <2>2 DEF OverOK
<1>13. CASE UNCHANGED vars
  <2>1. sq' = sq /\ eof' = eof /\ pc' = pc
    BY <1>13 DEF vars
  <2>2. NoneReady' <=> NoneReady
    BY <2>1 DEF NoneReady
  <2> QED BY <2>1, <2>2 DEF OverOK
<1> QED BY <1>5, <1>6, <1>7, <1>8, <1>9, <1>10, <1>11, <1>12, <1>13 DEF Next, Receive

(* After AVERROR_EOF there are no frames, unless a stream was limited to   *)
(* no frames at all: if it is the first one that is added, the queue is    *)
(* finished before the others are there.                                   *)
THEOREM NothingAfterEofHolds ==
  ASSUME 0 \notin Limits
  PROVE  Spec => NothingAfterEof
<1>1. Init => OverOK
  BY DEF Init, OverOK, OnlyAllOK
<1>2. IInv /\ OverOK /\ [Next]_vars => OverOK'
  BY NextOverOK
<1>3. OverOK /\ [Next]_vars => [eof => got' = got]_vars
  <2> SUFFICES ASSUME OverOK, [Next]_vars, eof PROVE got' = got
    OBVIOUS
  <2>1. ASSUME NEW i \in Streams, NEW refused \in BOOLEAN, ReceiveFrame(i, refused)
        PROVE  FALSE
    BY <2>1 DEF ReceiveFrame, OverOK, NoneReady
  <2> QED BY <2>1 DEF Next, Receive, sq_add_stream, sq_frame_samples, SendFrame, SendEof,
                      ReceiveEof, ReceiveAgain, BeatEnds, BeatStream, vars
<1> QED BY <1>1, <1>2, <1>3, SyncQueueInvariant, PTL DEF Spec, NothingAfterEof
=============================================================================
