----------------------------- MODULE SyncQueue -----------------------------
(***************************************************************************)
(* The sync queue of ffmpeg (fftools/sync_queue.c): a FIFO of frames or    *)
(* packets for each stream, and the rule that decides when they may go on  *)
(* and when a stream is over because another one has ended.  With it, its  *)
(* two users: send_to_enc_sq() (ffmpeg_sched.c) and sync_queue_process()   *)
(* (ffmpeg_mux.c).                                                         *)
(*                                                                         *)
(* Both call sq_send() once and then sq_receive() until there is nothing   *)
(* more to receive, the one under the lock of the queue, the other in the  *)
(* only thread that uses it.  One action is one call, except that a fake   *)
(* heartbeat (overflow_heartbeat()) takes an action for each stream.       *)
(***************************************************************************)
EXTENDS Integers, Sequences

CONSTANTS
  NbStreams,    \* number of streams that are added
  OneSecond,    \* length of 1/1, the time base of a stream without frames
  Tb,           \* length of the time base of the frames of each stream
  SampleTime,   \* length of an audio sample of each stream
  BufSize,      \* buf_size_us
  Int64,        \* timestamps are -Int64 .. Int64 - 1
  Frames,       \* frames each stream may be sent
  Sizes,        \* constant frame sizes the encoder of each stream may ask for
  Limits,       \* values of frames_max
  MaxSent       \* bound: frames sent to a stream

Streams == 0 .. NbStreams - 1

(* AV_NOPTS_VALUE, and -1 as the index of a stream.                        *)
NOPTS == -Int64
None  == -1

(* frames_max of a stream that is not limited (UINT64_MAX).                *)
NoLimit == Int64

(* The frames of an encoder that wants a constant size have samples: it is *)
(* an audio encoder (sync_queue.c:415).                                    *)
ASSUME SyncQueueAssumption ==
  /\ NbStreams \in Nat \ {0}
  /\ {OneSecond, BufSize, Int64} \subseteq Nat \ {0}
  /\ Tb \in [Streams -> Nat \ {0}]
  /\ SampleTime \in [Streams -> Nat \ {0}]
  /\ \A i \in Streams :
        /\ Frames[i] \subseteq [pts : NOPTS .. Int64 - 1, dur : Nat, n : Nat]
        /\ Sizes[i] \subseteq Nat \ {0}
        /\ Sizes[i] # {} => \A f \in Frames[i] : f.n # 0
  /\ Limits \subseteq Nat
  /\ MaxSent \in [Streams -> Nat]

VARIABLES
  sq,           \* the SyncQueue
  pc,           \* "setup", "idle", or where sq_receive() is
  beat,         \* overflow_heartbeat(): next stream, overflowing one, tail_ts
  in_finished,  \* SchEnc.in_finished: the encoder takes no more frames
  closed,       \* the sender of the stream has sent EOF
  eof,          \* sq_receive() has returned EOF
  sent,         \* number of frames sq_send() was called with
  got,          \* number of frames received of each stream
  samples_got,  \* number of samples received of each stream
  lastEnd       \* latest end of a frame received of each stream

vars == <<sq, pc, beat, in_finished, closed, eof, sent, got, samples_got, lastEnd>>

-----------------------------------------------------------------------------
(* Time.                                                                   *)

(* What is left of an integer in 64 bits.                                  *)
Wrap(x) == ((x + Int64) % (2 * Int64)) - Int64

(* av_rescale_q(), which rounds to the nearest and away from zero.         *)
av_rescale_q(ts, from, to) ==
  LET abs == IF ts < 0 THEN -ts ELSE ts
      r   == (2 * abs * from + to) \div (2 * to)
  IN IF r >= Int64 THEN NOPTS ELSE IF ts < 0 THEN -r ELSE r

(* How long n samples of stream i last, in its time base.                  *)
SamplesDuration(i, n) == av_rescale_q(n, SampleTime[i], Tb[i])

frame_end(i, f, nb_samples) ==
  Wrap(f.pts + IF nb_samples # 0 THEN SamplesDuration(i, nb_samples) ELSE f.dur)

(* When a stream's head is, in units all streams share (av_compare_ts()).  *)
HeadTime(q, i) == q.streams[i].head_ts * q.streams[i].tb
HasHead(q, i)  == q.streams[i].head_ts # NOPTS

-----------------------------------------------------------------------------
(* The functions of the sync queue, on a queue q.                          *)

Indices(q)        == 0 .. q.nb_streams - 1
Limiting(q)       == {i \in Indices(q) : q.streams[i].limiting}
have_limiting(q)  == Limiting(q) # {}

(* The first of the streams in I.                                          *)
First(I) == CHOOSE i \in I : \A j \in I : i <= j

(* Mutant: streams that are not limiting end others, too.                  *)
FinishStreamAny(q, i) ==
  LET over(j) == \/ q.streams[j].finished
                 \/ j = i
                 \/ (HasHead(q, i) /\ HasHead(q, j) /\ HeadTime(q, i) <= HeadTime(q, j))
  IN [q EXCEPT !.streams = [j \in Streams |->
                  [q.streams[j] EXCEPT !.finished = @ \/ (j \in Indices(q) /\ over(j))]],
               !.finished = @ \/ \A j \in Indices(q) : over(j)]

(* Mutant: the queue is never finished.                                    *)
FinishStreamOnly(q, i) == [q EXCEPT !.streams[i].finished = TRUE]

finish_stream(q, i) ==
  LET counts == q.streams[i].limiting /\ HasHead(q, i)
      ended  == IF /\ counts
                   /\ \/ q.head_finished_stream = None
                      \/ HeadTime(q, i) < HeadTime(q, q.head_finished_stream)
                THEN i ELSE q.head_finished_stream
      over(j) == \/ q.streams[j].finished
                 \/ j = i
                 \/ (counts /\ HasHead(q, j) /\ HeadTime(q, ended) <= HeadTime(q, j))
  IN [q EXCEPT !.streams = [j \in Streams |->
                  [q.streams[j] EXCEPT !.finished = @ \/ (j \in Indices(q) /\ over(j))]],
               !.head_finished_stream = ended,
               !.finished = @ \/ \A j \in Indices(q) : over(j)]

(* Mutant: the head stream is not looked for again.                        *)
QueueHeadOnce(q) ==
  IF q.head_stream # None \/ \E i \in Limiting(q) : ~HasHead(q, i)
  THEN q
  ELSE [q EXCEPT !.head_stream =
          First({i \in Limiting(q) : \A j \in Limiting(q) : HeadTime(q, i) <= HeadTime(q, j)})]

(* The head stream stays the head stream unless another one is behind it.  *)
queue_head_update(q) ==
  LET behind == {i \in Limiting(q) :
                   /\ HasHead(q, i)
                   /\ \A j \in Limiting(q) : HasHead(q, j) => HeadTime(q, i) <= HeadTime(q, j)}
  IN IF \/ q.head_stream = None /\ (\E i \in Limiting(q) : ~HasHead(q, i))
        \/ q.head_stream \in behind
     THEN q
     ELSE [q EXCEPT !.head_stream = First(behind)]

(* Mutant: a stream that passes the end of a finished one goes on.         *)
StreamUpdateTsGoesOn(q, i, ts) ==
  LET moved == [q EXCEPT !.streams[i].head_ts = ts]
  IN IF ts = NOPTS \/ (HasHead(q, i) /\ q.streams[i].head_ts >= ts)
     THEN q
     ELSE IF q.streams[i].limiting /\ q.head_stream \in {None, i}
          THEN queue_head_update(moved) ELSE moved

stream_update_ts(q, i, ts) ==
  LET moved == [q EXCEPT !.streams[i].head_ts = ts]
      over  == /\ q.head_finished_stream # None
               /\ HeadTime(moved, q.head_finished_stream) <= HeadTime(moved, i)
      ended == IF over THEN finish_stream(moved, i) ELSE moved
  IN IF ts = NOPTS \/ (HasHead(q, i) /\ q.streams[i].head_ts >= ts)
     THEN q
     ELSE IF q.streams[i].limiting /\ q.head_stream \in {None, i}
          THEN queue_head_update(ended) ELSE ended

tb_update(q, i) ==
  LET st == q.streams[i]
  IN IF st.tb = Tb[i] THEN q
     ELSE [q EXCEPT !.streams[i].head_ts =
                        IF @ = NOPTS THEN @ ELSE av_rescale_q(@, st.tb, Tb[i]),
                    !.streams[i].tb = Tb[i]]

(* sq_send() of a frame for a stream that is not finished.                 *)
sq_send(q, i, f) ==
  LET frame   == IF f.n = 0 THEN f ELSE [f EXCEPT !.dur = SamplesDuration(i, f.n)]
      written == [tb_update(q, i) EXCEPT !.streams[i].fifo = Append(@, frame)]
      updated == stream_update_ts(written, i, frame_end(i, frame, 0))
      st      == updated.streams[i]
      samples == st.samples_sent + f.n
      frames  == IF st.frame_samples # 0 THEN samples \div st.frame_samples
                                         ELSE st.frames_sent + 1
      counted == [updated EXCEPT
                    !.streams[i] = [st EXCEPT !.samples_queued = @ + f.n,
                                              !.samples_sent   = samples,
                                              !.frames_sent    = frames]]
  IN IF frames >= st.frames_max THEN finish_stream(counted, i) ELSE counted

-----------------------------------------------------------------------------
(* Receiving.                                                              *)

(* Mutant: all samples that are left make the last frame.                  *)
NbSamplesAll(st) ==
  IF st.finished /\ st.frame_samples # 0 THEN st.samples_queued ELSE st.frame_samples

(* Number of samples sq_receive() would take from a stream, 0 for a whole  *)
(* frame.                                                                  *)
NbSamples(st) ==
  IF st.finished /\ st.samples_queued < st.frame_samples
  THEN st.samples_queued ELSE st.frame_samples

(* May the frame at the tail of stream i go?                               *)
Releasable(q, i) ==
  LET st == q.streams[i]
      ts == frame_end(i, st.fifo[1], NbSamples(st))
  IN /\ st.fifo # <<>>
     /\ st.frame_samples <= st.samples_queued \/ st.finished
     /\ \/ ts = NOPTS
        \/ ~have_limiting(q)
        \/ q.head_stream # None /\ ts * st.tb <= HeadTime(q, q.head_stream)

(* Mutant: a stream ends when its FIFO is empty.                           *)
AtEofEmpty(q, i) == q.finished \/ q.streams[i].fifo = <<>>

AtEof(q, i) == q.finished \/ (q.streams[i].finished /\ q.streams[i].fifo = <<>>)

(* Number of samples in a FIFO.                                            *)
Samples(fifo) ==
  LET upTo[k \in 0 .. Len(fifo)] == IF k = 0 THEN 0 ELSE upTo[k - 1] + fifo[k].n
  IN upTo[Len(fifo)]

(* Mutant: the samples that were taken are still counted.                  *)
OffsetTimeOnly(i, f, n) == [f EXCEPT !.pts = Wrap(@ + SamplesDuration(i, n))]

(* offset_audio()                                                          *)
Offset(i, f, n) == [pts |-> Wrap(f.pts + SamplesDuration(i, n)),
                    dur |-> SamplesDuration(i, f.n - n),
                    n   |-> f.n - n]

(* What is left of a FIFO when receive_samples() has taken n samples.      *)
Without(i, fifo, n) ==
  LET whole == CHOOSE k \in 0 .. Len(fifo) :
                  /\ Samples(SubSeq(fifo, 1, k)) <= n
                  /\ k < Len(fifo) => Samples(SubSeq(fifo, 1, k + 1)) > n
      part  == n - Samples(SubSeq(fifo, 1, whole))
      rest  == SubSeq(fifo, whole + 1, Len(fifo))
  IN IF part = 0 THEN rest ELSE <<Offset(i, rest[1], part)>> \o Tail(rest)

(* Number of samples that are taken.                                       *)
NbTaken(st) == IF NbSamples(st) = 0 THEN st.fifo[1].n ELSE NbSamples(st)

(* The queue after a frame of stream i was received.                       *)
receive_for_stream(q, i) ==
  LET st == q.streams[i]
  IN [q EXCEPT !.streams[i] =
        [st EXCEPT !.fifo = IF NbSamples(st) = 0 THEN Tail(@) ELSE Without(i, @, NbSamples(st)),
                   !.samples_queued = @ - NbTaken(st)]]

-----------------------------------------------------------------------------
(* overflow_heartbeat()                                                    *)

(* The first of the streams whose head is ahead of all others.             *)
Ahead(q) ==
  First({i \in Indices(q) :
           /\ HasHead(q, i)
           /\ \A j \in Indices(q) : HasHead(q, j) => HeadTime(q, j) <= HeadTime(q, i)})

(* The frames in a FIFO that have an end, and the end of the first one.    *)
WithEnd(q, i) ==
  {k \in DOMAIN q.streams[i].fifo : frame_end(i, q.streams[i].fifo[k], 0) # NOPTS}

TailTs(q, i) == frame_end(i, q.streams[i].fifo[First(WithEnd(q, i))], 0)

(* Is the tail of that stream too far behind its head?  The difference is  *)
(* taken in 64 bits, where it may overflow.                                *)
Overflows(q) ==
  /\ \E i \in Indices(q) : HasHead(q, i)
  /\ LET i  == Ahead(q)
         st == q.streams[i]
     IN /\ WithEnd(q, i) # {}
        /\ TailTs(q, i) < st.head_ts
        /\ Wrap(st.head_ts - TailTs(q, i)) * st.tb >= BufSize

(* Does stream i prevent frames up to ts of the stream from to go out?     *)
Lags(q, i, from, ts) ==
  /\ i # from
  /\ ~q.streams[i].finished
  /\ HasHead(q, i) => HeadTime(q, i) < ts * q.streams[from].tb

(* The timestamp a stream gets that lags.                                  *)
FakeTs(q, i, from, ts) ==
  LET st  == q.streams[i]
      own == av_rescale_q(ts, q.streams[from].tb, st.tb)
  IN IF st.head_ts # NOPTS /\ st.head_ts + 1 > own THEN st.head_ts + 1 ELSE own

NoBeat == [next |-> 0, from |-> 0, ts |-> 0]

-----------------------------------------------------------------------------
NoStream == [fifo |-> <<>>, tb |-> OneSecond, samples_queued |-> 0, head_ts |-> NOPTS,
             limiting |-> FALSE, finished |-> FALSE, frames_sent |-> 0,
             samples_sent |-> 0, frames_max |-> NoLimit, frame_samples |-> 0]

(* sq_alloc()                                                              *)
Init ==
  /\ sq = [streams |-> [i \in Streams |-> NoStream], nb_streams |-> 0,
           finished |-> FALSE, head_stream |-> None, head_finished_stream |-> None]
  /\ pc = "setup"
  /\ beat = NoBeat
  /\ in_finished = [i \in Streams |-> FALSE]
  /\ closed = [i \in Streams |-> FALSE]
  /\ eof = FALSE
  /\ sent = [i \in Streams |-> 0]
  /\ got = [i \in Streams |-> 0]
  /\ samples_got = [i \in Streams |-> 0]
  /\ lastEnd = [i \in Streams |-> NOPTS]

(* sch_sq_add_enc() and setup_sync_queues(): sq_add_stream() and           *)
(* sq_limit_frames().  With -shortest all streams are limiting, and        *)
(* otherwise those with a limit.                                           *)
sq_add_stream(limiting, frames_max) ==
  LET i     == sq.nb_streams
      added == [sq EXCEPT !.nb_streams = i + 1,
                          !.streams[i].limiting = limiting,
                          !.streams[i].frames_max = frames_max]
  IN /\ pc = "setup"
     /\ IF frames_max = NoLimit
        THEN \A j \in Indices(sq) : sq.streams[j].frames_max = NoLimit =>
                                      sq.streams[j].limiting = limiting
        ELSE limiting
     /\ sq' = IF frames_max = 0 THEN finish_stream(added, i) ELSE added
     /\ pc' = IF i + 1 = NbStreams THEN "idle" ELSE "setup"
     /\ UNCHANGED <<beat, in_finished, closed, eof, sent, got, samples_got, lastEnd>>

(* enc_open() of an encoder that wants frames of a constant size.          *)
sq_frame_samples(i, frame_samples) ==
  /\ pc = "idle"
  /\ sent[i] = 0 /\ ~closed[i]
  /\ sq.streams[i].frame_samples = 0
  /\ sq' = [sq EXCEPT !.streams[i].frame_samples = frame_samples]
  /\ UNCHANGED <<pc, beat, in_finished, closed, eof, sent, got, samples_got, lastEnd>>

(* The sender of a stream sends a frame; once its stream is finished it    *)
(* gets AVERROR_EOF, and nothing changes.                                  *)
SendFrame(i, f) ==
  /\ pc = "idle"
  /\ ~closed[i]
  /\ ~sq.streams[i].finished
  /\ sent[i] < MaxSent[i]
  /\ sq' = sq_send(sq, i, f)
  /\ sent' = [sent EXCEPT ![i] = @ + 1]
  /\ pc' = "receive"
  /\ UNCHANGED <<beat, in_finished, closed, eof, got, samples_got, lastEnd>>

(* The sender of a stream is done.                                         *)
SendEof(i) ==
  /\ pc = "idle"
  /\ ~closed[i]
  /\ sq' = finish_stream(sq, i)
  /\ closed' = [closed EXCEPT ![i] = TRUE]
  /\ pc' = "receive"
  /\ UNCHANGED <<beat, in_finished, eof, sent, got, samples_got, lastEnd>>

Receiving == pc \in {"receive", "again"}

NoneReady == \A i \in Streams : ~Releasable(sq, i)

(* sq_receive() returns a frame, and the encoder takes it or has closed    *)
(* its queue, which finishes the stream.                                   *)
ReceiveFrame(i, refused) ==
  LET st       == sq.streams[i]
      end      == frame_end(i, st.fifo[1], NbSamples(st)) * st.tb
      received == receive_for_stream(sq, i)
  IN /\ Receiving
     /\ Releasable(sq, i) /\ \A j \in 0 .. i - 1 : ~Releasable(sq, j)
     /\ in_finished[i] => refused
     /\ sq' = IF refused THEN finish_stream(received, i) ELSE received
     /\ in_finished' = [in_finished EXCEPT ![i] = refused]
     /\ got' = [got EXCEPT ![i] = @ + 1]
     /\ samples_got' = [samples_got EXCEPT ![i] = @ + NbTaken(st)]
     /\ lastEnd' = [lastEnd EXCEPT ![i] = IF end > @ THEN end ELSE @]
     /\ pc' = "receive"
     /\ UNCHANGED <<beat, closed, eof, sent>>

(* sq_receive() returns AVERROR_EOF.                                       *)
ReceiveEof ==
  /\ Receiving
  /\ NoneReady
  /\ \A i \in Streams : AtEof(sq, i)
  /\ eof' = TRUE
  /\ pc' = "idle"
  /\ UNCHANGED <<sq, beat, in_finished, closed, sent, got, samples_got, lastEnd>>

(* Mutant: it tries again as long as the queue overflows.                  *)
ReceiveAgainAndAgain ==
  /\ Receiving
  /\ NoneReady
  /\ \E i \in Streams : ~AtEof(sq, i)
  /\ pc' = IF Overflows(sq) THEN "beat" ELSE "idle"
  /\ beat' = IF Overflows(sq)
             THEN [next |-> 0, from |-> Ahead(sq), ts |-> TailTs(sq, Ahead(sq)) + 1]
             ELSE beat
  /\ UNCHANGED <<sq, in_finished, closed, eof, sent, got, samples_got, lastEnd>>

(* There is nothing to receive: look whether the queue overflows.          *)
ReceiveAgain ==
  LET overflow == pc = "receive" /\ Overflows(sq)
  IN /\ Receiving
     /\ NoneReady
     /\ \E i \in Streams : ~AtEof(sq, i)
     /\ pc' = IF overflow THEN "beat" ELSE "idle"
     /\ beat' = IF overflow
                THEN [next |-> 0, from |-> Ahead(sq), ts |-> TailTs(sq, Ahead(sq)) + 1]
                ELSE beat
     /\ UNCHANGED <<sq, in_finished, closed, eof, sent, got, samples_got, lastEnd>>

(* The turns of the loop of overflow_heartbeat() that do something, and    *)
(* its end.                                                                *)
LagsNow(i) == i >= beat.next /\ Lags(sq, i, beat.from, beat.ts)

BeatStream(i) ==
  /\ pc = "beat"
  /\ LagsNow(i) /\ \A j \in 0 .. i - 1 : ~LagsNow(j)
  /\ sq' = stream_update_ts(sq, i, FakeTs(sq, i, beat.from, beat.ts))
  /\ beat' = [beat EXCEPT !.next = i + 1]
  /\ UNCHANGED <<pc, in_finished, closed, eof, sent, got, samples_got, lastEnd>>

BeatEnds ==
  /\ pc = "beat"
  /\ \A i \in Streams : ~LagsNow(i)
  /\ pc' = "again"
  /\ beat' = NoBeat
  /\ UNCHANGED <<sq, in_finished, closed, eof, sent, got, samples_got, lastEnd>>

Receive ==
  \/ ReceiveEof
  \/ ReceiveAgain
  \/ BeatEnds
  \/ \E i \in Streams : BeatStream(i) \/ \E refused \in BOOLEAN : ReceiveFrame(i, refused)

Next ==
  \/ \E limiting \in BOOLEAN, frames_max \in Limits : sq_add_stream(limiting, frames_max)
  \/ \E i \in Streams : \/ \E k \in Sizes[i] : sq_frame_samples(i, k)
                        \/ \E f \in Frames[i] : SendFrame(i, f)
                        \/ SendEof(i)
  \/ Receive

Spec == Init /\ [][Next]_vars

(* Whoever has sent something goes on receiving.                           *)
FairSpec == Spec /\ WF_vars(Receive)

-----------------------------------------------------------------------------
(* "The queue ensures no stream gets ahead of any of the limiting streams" *)
(* (sync_queue.h:43): no frame was received that ends after the head of a  *)
(* limiting stream.  head_stream, which decides, is only looked for again  *)
(* when the head of that stream moves.                                     *)
NoneGetsAhead ==
  \A i \in Streams, l \in Limiting(sq) :
     lastEnd[i] > NOPTS => HasHead(sq, l) /\ lastEnd[i] <= HeadTime(sq, l)

(* When a limiting stream has ended, every stream that has reached its     *)
(* head is finished, whichever of the two came first, and whether it was   *)
(* a frame or a fake heartbeat that took it there.                         *)
NoneOutlivesTheShortest ==
  \A l \in Limiting(sq), i \in Streams :
     /\ sq.streams[l].finished /\ HasHead(sq, l)
     /\ HasHead(sq, i) /\ HeadTime(sq, i) >= HeadTime(sq, l)
     => sq.streams[i].finished

(* A stream is not cut off for nothing: it is finished because its sender  *)
(* or its encoder has closed it, it has reached its limit, or it has       *)
(* reached the end of a limiting stream for which that is true.            *)
CutOffForAReason ==
  LET Ended(i) == \/ closed[i]
                  \/ in_finished[i]
                  \/ sq.streams[i].frames_sent >= sq.streams[i].frames_max
  IN \A i \in Streams :
       sq.streams[i].finished =>
         \/ Ended(i)
         \/ \E l \in Limiting(sq) : /\ Ended(l) /\ HasHead(sq, l) /\ HasHead(sq, i)
                                    /\ HeadTime(sq, l) <= HeadTime(sq, i)

(* No samples get lost or are counted twice when frames are split and      *)
(* joined (the assertions at sync_queue.c:434 and :544).                   *)
SamplesAddUp ==
  \A i \in Streams :
     LET st == sq.streams[i]
     IN /\ st.samples_queued = Samples(st.fifo)
        /\ samples_got[i] + st.samples_queued = st.samples_sent

(* "All output frames will have exactly frame_samples audio samples,       *)
(* except possibly for the last one" (sync_queue.h:78).                    *)
OnlyTheLastIsShort ==
  \A i \in Streams :
     LET st == sq.streams[i]
     IN st.frame_samples # 0 /\ samples_got[i] # got[i] * st.frame_samples =>
          /\ samples_got[i] \in (got[i] - 1) * st.frame_samples .. got[i] * st.frame_samples
          /\ st.finished /\ st.fifo = <<>>

(* After AVERROR_EOF, upon which the encoders are closed, there are no     *)
(* frames.                                                                 *)
NothingAfterEof == [][eof => got' = got]_vars

(* When all senders have closed their streams and there is nothing more to *)
(* receive, sq_receive() has returned AVERROR_EOF, also when frames are    *)
(* left that nobody may have.                                              *)
EofWhenAllClosed == pc = "idle" /\ (\A i \in Streams : closed[i]) => eof

(* sq_receive() is called until it says that there is nothing more: that   *)
(* happens, however many heartbeats there are.                             *)
ReceivingEnds == Receiving ~> pc = "idle"
=============================================================================
