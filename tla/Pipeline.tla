------------------------------ MODULE Pipeline ------------------------------
(***************************************************************************)
(* How data, EOF and errors go through the threads of ffmpeg: the data     *)
(* flow of fftools/ffmpeg_sched.c with the threads of the demuxers,        *)
(* decoders, filtergraphs, encoders and muxers that it connects, the       *)
(* looping of inputs, sch_wait() and sch_stop().                           *)
(*                                                                         *)
(* Every consumer thread has one queue (ThreadQueue), here a sequence and  *)
(* the finished flags of its streams.  Packets and frames are numbered in  *)
(* the order they are read; a frame keeps the number of its packet.  What  *)
(* codecs and filters do to the data is their delay: they hold frames back *)
(* until they are flushed.  A filtergraph waits until the formats of all   *)
(* its inputs are known, and may give no frames to some of its outputs.    *)
(* Which sources have to wait for others is left to Scheduler; packets for *)
(* a muxer that is not started yet are kept, as MuxStart shows.            *)
(***************************************************************************)
EXTENDS Integers, Sequences, FiniteSets, SequencesExt, Functions

CONSTANTS
  Demuxers, Decs, Filters, Encs, Muxes,   (* the threads                   *)
  Ports,      (* the streams of each consumer's queue; the control stream  *)
              (* of a filtergraph is closed when all others are            *)
  Outs,       (* for each output of a producer: its destinations <<t, p>>  *)
  Delay,      (* frames that a decoder, filtergraph, encoder holds back    *)
  NoFrames,   (* destinations that get no frames from their filtergraph    *)
  QueueSize,  (* room in the queue of each consumer                        *)
  EndTs,      (* decoders that report an end timestamp (send_end_ts)       *)
  Loops,      (* d->loop: how many times an input is started over          *)
  MaxRead,    (* bound: packets of each stream of an input, in each loop   *)
  MayEnd,     (* threads that may end, or close an input, before its EOF   *)
  MayFail,    (* threads that may fail                                     *)
  MaxUpsets   (* bound: how many of them do                                *)

Consumers == Decs \cup Filters \cup Encs \cup Muxes
Producers == Demuxers \cup Decs \cup Filters \cup Encs
Threads   == Consumers \cup Demuxers
Codecs    == Decs \cup Filters \cup Encs
Dsts      == UNION {{c} \X Ports[c] : c \in Consumers}
TakersOf(t) == CASE t \in Demuxers -> Decs \cup Muxes
                 [] t \in Decs     -> Filters
                 [] t \in Filters  -> Encs \cup Filters
                 [] t \in Encs     -> Muxes \cup Decs

(* sch_connect(): which threads may be connected, and every stream comes   *)
(* from one output.  An output of a filtergraph has one destination, an    *)
(* encoder if there are several outputs.  A decoder has one output, for    *)
(* filtergraphs.  End timestamps are asked of decoders of inputs.          *)
ASSUME GraphAssumption ==
  /\ Demuxers \cap Consumers = {}
  /\ Decs \cap (Filters \cup Encs \cup Muxes) = {} /\ Filters \cap (Encs \cup Muxes) = {}
  /\ Encs \cap Muxes = {}
  /\ \A c \in Consumers : Ports[c] \subseteq Nat
  /\ \A c \in Decs \cup Encs : Ports[c] = {1}
  /\ Outs \in [Producers -> Seq(Seq(Dsts))]
  /\ \A t \in Producers : \A i \in DOMAIN Outs[t] : \A j \in DOMAIN Outs[t][i] :
       Outs[t][i][j][1] \in TakersOf(t)
  /\ \A t, u \in Producers : \A i \in DOMAIN Outs[t], k \in DOMAIN Outs[u] :
       \A j \in DOMAIN Outs[t][i], l \in DOMAIN Outs[u][k] :
         Outs[t][i][j] = Outs[u][k][l] => t = u /\ i = k /\ j = l
  /\ \A f \in Filters : \A i \in DOMAIN Outs[f] :
       /\ Len(Outs[f][i]) = 1
       /\ Len(Outs[f]) > 1 => Outs[f][i][1][1] \in Encs
  /\ \A x \in Decs : Len(Outs[x]) = 1
  /\ NoFrames \subseteq Dsts
  /\ \A x \in EndTs : \E d \in Demuxers : \E s \in DOMAIN Outs[d] : <<x, 1>> \in Range(Outs[d][s])

ASSUME PipelineAssumption ==
  /\ \A c \in Consumers : Ports[c] # {} /\ QueueSize[c] \in Nat \ {0}
  /\ \A t \in Codecs : Delay[t] \in Nat
  /\ EndTs \subseteq Decs
  /\ \A d \in Demuxers : Loops[d] \in Nat
  /\ MaxRead \in Nat
  /\ MayEnd \cup MayFail \subseteq Threads
  /\ MaxUpsets \in Nat

VARIABLES
  pc,             (* what each thread does: "receiving" (reading, for a    *)
                  (* demuxer), "flushing", "waiting" for an end timestamp, *)
                  (* "draining", "cleanup"                                 *)
  todo,           (* what its calls have yet to send, in order             *)
  queue,          (* the queue of each consumer                            *)
  send_finished,  (* FINISHED_SEND: streams of the queue, ...              *)
  recv_finished,  (* ... FINISHED_RECV                                     *)
  dst_finished,   (* destinations whose producer sends nothing more        *)
  held,           (* frames held back in codecs and filters                *)
  opened,         (* SchEnc.opened                                         *)
  formats,        (* inputs of filtergraphs whose InputFilterPriv.format   *)
                  (* is known                                              *)
  got_frame,      (* FilterGraphThread.got_frame                           *)
  eof_in,         (* FilterGraphThread.eof_in                              *)
  nb_read,        (* packets read so far from each stream of an input      *)
  loop,           (* Demuxer.loop                                          *)
  expect_end_ts,  (* SchDec.expect_end_ts                                  *)
  queue_end_ts,   (* SchDec.queue_end_ts, a message queue, and ...         *)
  end_ts_closed,  (* ... its err_recv                                      *)
  last_frame,     (* DecoderPriv.last_frame_pts: the frame decoded last    *)
  terminate,      (* sch->terminate                                        *)
  main,           (* the main thread: in sch_wait(), sch_stop(), after it  *)
  failed,         (* history: threads that failed                          *)
  ended,          (* history: who stopped early, <<t, p>> to take a stream *)
                  (* in, <<t, 0>> altogether                               *)
  muxed           (* history: what a muxer wrote of each stream            *)

queueVars  == <<queue, send_finished, recv_finished, dst_finished>>
dataVars   == <<held, opened, formats, got_frame, eof_in, nb_read>>
loopVars   == <<loop, expect_end_ts, queue_end_ts, end_ts_closed, last_frame>>
mainVars   == <<terminate, main>>
historyVars == <<failed, ended, muxed>>
vars == <<pc, todo, queueVars, dataVars, loopVars, mainVars, historyVars>>

(* Items: packets and frames, flush packets, EOF frames (FRAME_OPAQUE_EOF),*)
(* frames that only initialize an encoder, and NULL, which closes.         *)
Data(n) == [kind |-> "data", num |-> n]
Flush   == [kind |-> "flush", num |-> 0]
EofFrame == [kind |-> "eof", num |-> 0]
Empty   == [kind |-> "empty", num |-> 0]
Close   == [kind |-> "close", num |-> 0]

DstsOf(t) == FlattenSeq(Outs[t])
AllOutputsDone(t) == Range(DstsOf(t)) \subseteq dst_finished

(* Items to be sent to all of some destinations, item by item.             *)
Sends(items, dsts) ==
  FlattenSeq([i \in DOMAIN items |->
    [j \in DOMAIN dsts |-> [dst |-> dsts[j], item |-> items[i]]]])
Frames(nums) == [i \in DOMAIN nums |-> Data(nums[i])]

(* The outputs of a filtergraph are served one after the other.            *)
SendsTo(items, d) == [i \in DOMAIN items |-> [dst |-> d, item |-> items[i]]]
ItemsFor(d, nums, closing) == (IF d \in NoFrames THEN <<>> ELSE Frames(nums)) \o closing
FilterSends(f, nums, closing) ==
  FlattenSeq([j \in DOMAIN DstsOf(f) |->
    SendsTo(ItemsFor(DstsOf(f)[j], nums, closing), DstsOf(f)[j])])

(* Threads that have failed or ended early so far.                         *)
Upsets == Cardinality(failed) + Cardinality(ended)
EndsEarly(t) == t \in MayEnd /\ Upsets < MaxUpsets

Set(f, t, v) == [f EXCEPT ![t] = v]

(* A muxer is started when the encoders of all its streams are opened.     *)
EncsOf(m) == {e \in Encs : \E p \in Ports[m] : <<m, p>> \in Range(DstsOf(e))}
Started(m) == EncsOf(m) \subseteq opened

-----------------------------------------------------------------------------
(* Sending, for all kinds of threads: the next item to its destination.    *)

Discarded(c, x) == x = Empty /\ c \in Encs \ opened

(* NULL, or AVERROR_EOF from the queue: the sending side is closed, too.   *)
SendClose(c, p, x) ==
  /\ x = Close \/ (p \in recv_finished[c] /\ ~Discarded(c, x))
  /\ send_finished' = [send_finished EXCEPT ![c] = @ \cup {p}]
  /\ dst_finished' = dst_finished \cup {<<c, p>>}
  /\ UNCHANGED <<queue, recv_finished>>

(* tq_send(), once there is room.                                          *)
SendItem(c, p, x) ==
  /\ x # Close /\ p \notin recv_finished[c] /\ ~Discarded(c, x)
  /\ Len(queue[c]) < QueueSize[c] \/ (c \in Muxes /\ ~Started(c))
  /\ queue' = [queue EXCEPT ![c] = Append(@, [port |-> p, item |-> x])]
  /\ UNCHANGED <<send_finished, recv_finished, dst_finished>>

(* send_to_enc(): the first frame opens an encoder, one without data goes  *)
(* no further.                                                             *)
SendNothing(c, x) == Discarded(c, x) /\ UNCHANGED queueVars
Opens(c, x) == opened' = IF c \in Encs /\ x # Close THEN opened \cup {c} ELSE opened

(* close_output(): no empty frame once any output has got a frame.         *)
NotNeeded(t, x) == x = Empty /\ t \in got_frame
GotFrame(t, c, p, x) ==
  got_frame' = IF t \in Filters /\ x.kind = "data" /\ p \notin recv_finished[c]
               THEN got_frame \cup {t} ELSE got_frame

Send(t) ==
  /\ todo[t] # <<>>
  /\ pc[t] \notin {"flushing", "waiting"}
  /\ LET c == Head(todo[t]).dst[1]
         p == Head(todo[t]).dst[2]
         x == Head(todo[t]).item
     IN  \/ /\ <<c, p>> \in dst_finished \/ NotNeeded(t, x)
            /\ UNCHANGED <<queueVars, opened, got_frame>>
         \/ /\ <<c, p>> \notin dst_finished /\ ~NotNeeded(t, x)
            /\ SendClose(c, p, x) \/ SendItem(c, p, x) \/ SendNothing(c, x)
            /\ Opens(c, x) /\ GotFrame(t, c, p, x)
  /\ todo' = [todo EXCEPT ![t] = Tail(@)]
  /\ UNCHANGED <<pc, held, formats, eof_in, nb_read, loopVars, mainVars, historyVars>>

-----------------------------------------------------------------------------
(* Receiving: tq_receive() drops what belongs to closed streams and tells  *)
(* the EOF of a stream once the queue is empty.                            *)
Live(c) == {i \in DOMAIN queue[c] : queue[c][i].port \notin recv_finished[c]}
FirstLive(c) == CHOOSE i \in Live(c) : \A j \in Live(c) : i <= j
EofPending(c) == IF Live(c) = {} THEN send_finished[c] \ recv_finished[c] ELSE {}
FirstEof(c) == CHOOSE p \in EofPending(c) : \A q \in EofPending(c) : p <= q
AllClosed(c) == Live(c) = {} /\ Ports[c] \subseteq recv_finished[c]

Got(c) == queue[c][FirstLive(c)]
Receives(c, kind) ==
  /\ Live(c) # {}
  /\ Got(c).item.kind = kind
  /\ queue' = [queue EXCEPT ![c] = SubSeq(@, FirstLive(c) + 1, Len(@))]
ReceivesEof(c) ==
  /\ EofPending(c) # {}
  /\ recv_finished' = [recv_finished EXCEPT ![c] = @ \cup {FirstEof(c)}]
  /\ queue' = Set(queue, c, <<>>)

Idle(t) == pc[t] = "receiving" /\ todo[t] = <<>>

(* A consumer that waits has dropped what it will not get.                 *)
tq_drop(c) ==
  /\ Idle(c) /\ (c \in Muxes => Started(c))
  /\ queue[c] # <<>> /\ Live(c) = {} /\ EofPending(c) = {} /\ ~AllClosed(c)
  /\ queue' = Set(queue, c, <<>>)
  /\ UNCHANGED <<pc, todo, send_finished, recv_finished, dst_finished, dataVars, loopVars, mainVars, historyVars>>

(* What codecs and filters put out for one more frame, and what they keep. *)
PutOut(t, s)   == SubSeq(s, 1, Len(s) - Delay[t])
KeepBack(t, s) == SubSeq(s, Len(PutOut(t, s)) + 1, Len(s))
Out(t, n)      == PutOut(t, Append(held[t], n))
Keep(t, n)     == KeepBack(t, Append(held[t], n))
Process(t) ==
  /\ todo' = Set(todo, t, Sends(Frames(Out(t, Got(t).item.num)), DstsOf(t)))
  /\ held' = Set(held, t, Keep(t, Got(t).item.num))
Flushed(t) == Sends(Frames(held[t]), DstsOf(t))

-----------------------------------------------------------------------------
(* The end of a thread's function and task_wrapper(): the *_done()         *)
(* functions close its queue and then all its outputs, one after another.  *)
Ends(t, items) ==
  /\ pc' = Set(pc, t, "draining")
  /\ todo' = Set(todo, t, items)

(* Mutant: a demuxer that waits for an end timestamp is not told           *)
task_cleanup_silent(t) ==
  /\ pc[t] = "draining" /\ todo[t] = <<>>
  /\ pc' = Set(pc, t, "cleanup")
  /\ recv_finished' = IF t \in Consumers THEN Set(recv_finished, t, Ports[t]) ELSE recv_finished
  /\ todo' = IF t \in Producers THEN Set(todo, t, Sends(<<Close>>, DstsOf(t))) ELSE todo
  /\ UNCHANGED end_ts_closed
  /\ UNCHANGED <<queue, send_finished, dst_finished, dataVars, mainVars, historyVars>>
  /\ UNCHANGED <<loop, expect_end_ts, queue_end_ts, last_frame>>

task_cleanup(t) ==
  /\ pc[t] = "draining" /\ todo[t] = <<>>
  /\ pc' = Set(pc, t, "cleanup")
  /\ recv_finished' = IF t \in Consumers THEN Set(recv_finished, t, Ports[t]) ELSE recv_finished
  /\ todo' = IF t \in Producers THEN Set(todo, t, Sends(<<Close>>, DstsOf(t))) ELSE todo
  /\ end_ts_closed' = IF t \in Decs THEN Set(end_ts_closed, t, TRUE) ELSE end_ts_closed
  /\ UNCHANGED <<queue, send_finished, dst_finished, dataVars, mainVars, historyVars>>
  /\ UNCHANGED <<loop, expect_end_ts, queue_end_ts, last_frame>>

(* After the last of them the thread is gone.                              *)
Done(t) == pc[t] = "cleanup" /\ todo[t] = <<>>

(* An error anywhere in the thread's function.                             *)
task_fails(t) ==
  /\ t \in MayFail /\ Upsets < MaxUpsets
  /\ pc[t] \in {"receiving", "flushing"} /\ (t \in Muxes => Started(t))
  /\ failed' = failed \cup {t}
  /\ Ends(t, <<>>)
  /\ UNCHANGED <<queueVars, dataVars, loopVars, mainVars, ended, muxed>>

-----------------------------------------------------------------------------
(* input_thread().                                                         *)
Flushes(d) ==
  FlattenSeq([i \in DOMAIN DstsOf(d) |->
    LET x == DstsOf(d)[i]
    IN  IF x[1] \in Decs /\ x \notin dst_finished THEN <<[dst |-> x, item |-> Flush]>> ELSE <<>>])
InputUnchanged == UNCHANGED <<held, opened, formats, got_frame, eof_in>>

(* A packet of a stream, unless all its consumers are done (ds->finished). *)
demux_read(d, s) ==
  /\ Idle(d) /\ ~terminate
  /\ ~(Range(Outs[d][s]) \subseteq dst_finished)
  /\ nb_read[d][s] < MaxRead * (Loops[d] - loop[d] + 1)
  /\ nb_read' = [nb_read EXCEPT ![d][s] = @ + 1]
  /\ todo' = Set(todo, d, Sends(<<Data(nb_read'[d][s])>>, Outs[d][s]))
  /\ InputUnchanged
  /\ UNCHANGED <<pc, queueVars, loopVars, mainVars, historyVars>>

(* The input ends, all consumers are done, or sch_demux_send() finds that  *)
(* it has to terminate.                                                    *)
demux_ends(d) ==
  /\ Idle(d)
  /\ loop[d] = 0 \/ AllOutputsDone(d) \/ terminate
  /\ Ends(d, <<>>)
  /\ UNCHANGED <<queueVars, dataVars, loopVars, mainVars, historyVars>>

(* The input is started over: all decoders are flushed first.              *)
demux_loop(d) ==
  /\ Idle(d) /\ ~terminate /\ ~AllOutputsDone(d)
  /\ loop[d] > 0
  /\ pc' = Set(pc, d, "flushing")
  /\ todo' = Set(todo, d, Flushes(d))
  /\ UNCHANGED <<queueVars, dataVars, loopVars, mainVars, historyVars>>

(* demux_flush() gives up when a decoder has closed its queue.             *)
demux_flush_eof(d) ==
  /\ pc[d] = "flushing" /\ todo[d] # <<>>
  /\ LET x == Head(todo[d]).dst[1]
         p == Head(todo[d]).dst[2]
     IN  /\ p \in recv_finished[x]
         /\ send_finished' = [send_finished EXCEPT ![x] = @ \cup {p}]
  /\ Ends(d, <<>>)
  /\ UNCHANGED <<queue, recv_finished, dst_finished, dataVars, loopVars, mainVars, historyVars>>

demux_flush(d) ==
  /\ pc[d] = "flushing" /\ todo[d] # <<>>
  /\ LET x == Head(todo[d]).dst[1]
         p == Head(todo[d]).dst[2]
     IN  /\ p \notin recv_finished[x]
         /\ Len(queue[x]) < QueueSize[x]
         /\ queue' = [queue EXCEPT ![x] = Append(@, [port |-> p, item |-> Flush])]
         /\ IF x \in EndTs
            THEN pc' = Set(pc, d, "waiting") /\ UNCHANGED todo
            ELSE todo' = Set(todo, d, Tail(todo[d])) /\ UNCHANGED pc
  /\ UNCHANGED <<send_finished, recv_finished, dst_finished, dataVars, loopVars, mainVars, historyVars>>

demux_end_ts(d) ==
  /\ pc[d] = "waiting"
  /\ LET x == Head(todo[d]).dst[1]
     IN  \/ /\ queue_end_ts[x] # <<>>
            /\ queue_end_ts' = Set(queue_end_ts, x, <<>>)
            /\ pc' = Set(pc, d, "flushing")
            /\ todo' = Set(todo, d, Tail(todo[d]))
         \/ /\ queue_end_ts[x] = <<>> /\ end_ts_closed[x]
            /\ Ends(d, <<>>)
            /\ UNCHANGED queue_end_ts
  /\ UNCHANGED <<queueVars, dataVars, loop, expect_end_ts, end_ts_closed, last_frame, mainVars, historyVars>>

seek_to_start(d) ==
  /\ pc[d] = "flushing" /\ todo[d] = <<>>
  /\ loop' = Set(loop, d, loop[d] - 1)
  /\ pc' = Set(pc, d, "receiving")
  /\ UNCHANGED <<todo, queueVars, dataVars, expect_end_ts, queue_end_ts, end_ts_closed, last_frame, mainVars, historyVars>>

-----------------------------------------------------------------------------
(* decoder_thread().                                                       *)
DecReceives(x) == Idle(x) /\ x \notin expect_end_ts /\ ~AllOutputsDone(x)
LastOf(seq, x) == last_frame' = Set(last_frame, x, IF seq = <<>> THEN last_frame[x] ELSE Last(seq))
DecUnchanged ==
  UNCHANGED <<opened, formats, got_frame, eof_in, nb_read, loop, queue_end_ts, end_ts_closed, mainVars, historyVars>>

(* Mutant: expect_end_ts is not reset                                      *)
dec_end_ts_again(x) ==
  /\ Idle(x) /\ x \in expect_end_ts /\ ~AllOutputsDone(x)
  /\ queue_end_ts[x] = <<>>
  /\ queue_end_ts' = Set(queue_end_ts, x, <<last_frame[x]>>)
  /\ UNCHANGED <<pc, todo, queueVars, dataVars, loop, expect_end_ts, end_ts_closed, last_frame, mainVars, historyVars>>

(* The next call of sch_dec_receive() after a flush reports the end.       *)
dec_end_ts(x) ==
  /\ Idle(x) /\ x \in expect_end_ts /\ ~AllOutputsDone(x)
  /\ queue_end_ts[x] = <<>>
  /\ queue_end_ts' = Set(queue_end_ts, x, <<last_frame[x]>>)
  /\ expect_end_ts' = expect_end_ts \ {x}
  /\ UNCHANGED <<pc, todo, queueVars, dataVars, loop, end_ts_closed, last_frame, mainVars, historyVars>>

dec_packet(x) ==
  /\ DecReceives(x)
  /\ Receives(x, "data")
  /\ Process(x)
  /\ LastOf(Out(x, Got(x).item.num), x)
  /\ DecUnchanged
  /\ UNCHANGED <<pc, send_finished, recv_finished, dst_finished, expect_end_ts>>

(* Mutant: reset without sending what is left                              *)
dec_flush_reset(x) ==
  /\ DecReceives(x)
  /\ Receives(x, "flush")
  /\ held' = Set(held, x, <<>>)
  /\ LastOf(held[x], x)
  /\ expect_end_ts' = expect_end_ts \cup ({x} \cap EndTs)
  /\ DecUnchanged
  /\ UNCHANGED <<pc, todo, send_finished, recv_finished, dst_finished>>

dec_flush(x) ==
  /\ DecReceives(x)
  /\ Receives(x, "flush")
  /\ todo' = Set(todo, x, Flushed(x))
  /\ held' = Set(held, x, <<>>)
  /\ LastOf(held[x], x)
  /\ expect_end_ts' = expect_end_ts \cup ({x} \cap EndTs)
  /\ DecUnchanged
  /\ UNCHANGED <<pc, send_finished, recv_finished, dst_finished>>

(* EOF: what is left is sent, and the EOF frame.                           *)
dec_eof(x) ==
  /\ DecReceives(x)
  /\ ReceivesEof(x)
  /\ Ends(x, Flushed(x) \o Sends(<<EofFrame>>, DstsOf(x)))
  /\ held' = Set(held, x, <<>>)
  /\ LastOf(held[x], x)
  /\ DecUnchanged
  /\ UNCHANGED <<send_finished, dst_finished, expect_end_ts>>

(* AVERROR_EXIT: nobody takes the frames any more.                         *)
dec_exit(x) ==
  /\ Idle(x) /\ AllOutputsDone(x)
  /\ Ends(x, <<>>)
  /\ UNCHANGED <<queueVars, dataVars, loopVars, mainVars, historyVars>>

-----------------------------------------------------------------------------
(* filter_thread().                                                        *)
FilterReceives(f) == Idle(f) /\ ~AllOutputsDone(f)
FilterUnchanged == UNCHANGED <<opened, nb_read, got_frame, loopVars, mainVars, failed, muxed>>

(* The graph is configured when all formats are known.                     *)
Configured(f) == formats[f] = Ports[f]
HasFormat(f, p) == formats' = [formats EXCEPT ![f] = @ \cup {p}]

(* Mutant: encoders that never got a frame are not initialized             *)
close_output_only == <<Close>>

(* close_output(): an encoder that never got a frame gets an empty one.    *)
close_output == <<Empty, Close>>

(* The frames s are in a graph or wait for it; it puts out what it can.    *)
Feed(f, s) ==
  IF Configured(f)'
  THEN /\ todo' = Set(todo, f, FilterSends(f, PutOut(f, s), <<>>))
       /\ held' = Set(held, f, KeepBack(f, s))
  ELSE held' = Set(held, f, s) /\ UNCHANGED todo

filter_frame(f) ==
  /\ FilterReceives(f)
  /\ Receives(f, "data")
  /\ HasFormat(f, Got(f).port)
  /\ Feed(f, Append(held[f], Got(f).item.num))
  /\ FilterUnchanged
  /\ UNCHANGED <<pc, send_finished, recv_finished, dst_finished, eof_in, ended>>

(* The graph takes nothing more from an input.                             *)
filter_receive_finish(f) ==
  /\ FilterReceives(f) /\ EndsEarly(f)
  /\ Receives(f, "data")
  /\ HasFormat(f, Got(f).port) /\ Configured(f)'
  /\ recv_finished' = [recv_finished EXCEPT ![f] = @ \cup {Got(f).port}]
  /\ ended' = ended \cup {<<f, Got(f).port>>}
  /\ FilterUnchanged
  /\ UNCHANGED <<pc, todo, send_finished, dst_finished, held, eof_in>>

(* Mutant: no fallback for an input that ends without a frame              *)
filter_eof_frame_unset(f) ==
  /\ FilterReceives(f)
  /\ Receives(f, "eof") \/ Receives(f, "empty")
  /\ eof_in' = [eof_in EXCEPT ![f] = @ \cup {Got(f).port}]
  /\ UNCHANGED formats
  /\ IF eof_in'[f] = Ports[f] /\ Configured(f)
     THEN /\ todo' = Set(todo, f, FilterSends(f, held[f], close_output))
          /\ held' = Set(held, f, <<>>)
     ELSE Feed(f, held[f])
  /\ FilterUnchanged
  /\ UNCHANGED <<pc, send_finished, recv_finished, dst_finished, ended>>

(* send_eof(), for any frame without data: an input that had no frame has  *)
(* its fallback format, and when all have ended the filters are flushed.   *)
filter_eof_frame(f) ==
  /\ FilterReceives(f)
  /\ Receives(f, "eof") \/ Receives(f, "empty")
  /\ eof_in' = [eof_in EXCEPT ![f] = @ \cup {Got(f).port}]
  /\ HasFormat(f, Got(f).port)
  /\ IF eof_in'[f] = Ports[f]
     THEN /\ todo' = Set(todo, f, FilterSends(f, held[f], close_output))
          /\ held' = Set(held, f, <<>>)
     ELSE Feed(f, held[f])
  /\ FilterUnchanged
  /\ UNCHANGED <<pc, send_finished, recv_finished, dst_finished, ended>>

(* sch_filter_receive() disregards the EOF of a stream.                    *)
filter_stream_eof(f) ==
  /\ FilterReceives(f)
  /\ ReceivesEof(f)
  /\ FilterUnchanged
  /\ UNCHANGED <<pc, todo, send_finished, dst_finished, held, formats, eof_in, ended>>

(* The EOF of all streams ends the thread, as do consumers that are done.  *)
filter_ends(f) ==
  /\ Idle(f)
  /\ \/ /\ AllClosed(f) /\ ~AllOutputsDone(f)
        /\ Ends(f, IF Configured(f) THEN FilterSends(f, <<>>, close_output) ELSE <<>>)
     \/ AllOutputsDone(f) /\ Ends(f, <<>>)
  /\ UNCHANGED <<queueVars, dataVars, loopVars, mainVars, historyVars>>

-----------------------------------------------------------------------------
(* encoder_thread().  EOF from the muxers is not passed on.                *)
EncUnchanged == UNCHANGED <<opened, formats, got_frame, eof_in, nb_read, loopVars, mainVars, muxed>>

enc_frame(e) ==
  /\ Idle(e)
  /\ Receives(e, "data")
  /\ Process(e)
  /\ EncUnchanged
  /\ UNCHANGED <<pc, send_finished, recv_finished, dst_finished, failed, ended>>

(* check_recording_time(): the frame is too late, the encoder is flushed.  *)
enc_finishes(e) ==
  /\ Idle(e) /\ EndsEarly(e)
  /\ Receives(e, "data")
  /\ Ends(e, Flushed(e))
  /\ held' = Set(held, e, <<>>)
  /\ ended' = ended \cup {<<e, 0>>}
  /\ EncUnchanged
  /\ UNCHANGED <<send_finished, recv_finished, dst_finished, failed>>

enc_eof(e) ==
  /\ Idle(e)
  /\ ReceivesEof(e)
  /\ IF e \in opened THEN Ends(e, Flushed(e)) /\ UNCHANGED failed
                     ELSE Ends(e, <<>>) /\ failed' = failed \cup {e}
  /\ held' = Set(held, e, <<>>)
  /\ EncUnchanged
  /\ UNCHANGED <<send_finished, dst_finished, ended>>

-----------------------------------------------------------------------------
(* muxer_thread().                                                         *)
MuxReceives(m) == Idle(m) /\ Started(m)
MuxUnchanged == UNCHANGED <<send_finished, dst_finished, dataVars, loopVars, mainVars, failed>>

mux_packet(m) ==
  /\ MuxReceives(m)
  /\ Receives(m, "data")
  /\ muxed' = [muxed EXCEPT ![m][Got(m).port] = Append(@, Got(m).item.num)]
  /\ MuxUnchanged
  /\ UNCHANGED <<pc, todo, recv_finished, ended>>

(* The stream has all it may have: sch_mux_receive_finish().               *)
mux_receive_finish(m) ==
  /\ MuxReceives(m) /\ EndsEarly(m)
  /\ Receives(m, "data")
  /\ recv_finished' = [recv_finished EXCEPT ![m] = @ \cup {Got(m).port}]
  /\ ended' = ended \cup {<<m, Got(m).port>>}
  /\ MuxUnchanged
  /\ UNCHANGED <<pc, todo, muxed>>

(* The file has all it may have.                                           *)
mux_finishes(m) ==
  /\ MuxReceives(m) /\ EndsEarly(m)
  /\ Receives(m, "data")
  /\ Ends(m, <<>>)
  /\ ended' = ended \cup {<<m, 0>>}
  /\ MuxUnchanged
  /\ UNCHANGED <<recv_finished, muxed>>

mux_eof(m) ==
  /\ MuxReceives(m)
  /\ \/ ReceivesEof(m) /\ UNCHANGED <<pc, todo>>
     \/ AllClosed(m) /\ Ends(m, <<>>) /\ UNCHANGED <<queue, recv_finished>>
  /\ MuxUnchanged
  /\ UNCHANGED <<muxed, ended>>

-----------------------------------------------------------------------------
(* The main thread: sch_wait(), which looks again after a time, a signal   *)
(* by the user, sch_stop().                                                *)
AllMuxed == \A m \in Muxes : Done(m)
task_failed == \E t \in failed : Done(t)

sch_stop ==
  /\ main = "waiting"
  /\ terminate' = TRUE
  /\ main' = "joining"
  /\ UNCHANGED <<pc, todo, queueVars, dataVars, loopVars, historyVars>>

(* All threads are joined; a muxer that was not started has none.          *)
StopJoin ==
  /\ main = "joining"
  /\ \A t \in Threads : Done(t) \/ (t \in Muxes /\ ~Started(t))
  /\ main' = "stopped"
  /\ UNCHANGED <<pc, todo, queueVars, dataVars, loopVars, terminate, historyVars>>

-----------------------------------------------------------------------------
Init ==
  /\ pc = [t \in Threads |-> "receiving"]
  /\ todo = [t \in Threads |-> <<>>]
  /\ queue = [c \in Consumers |-> <<>>]
  /\ send_finished = [c \in Consumers |-> {}]
  /\ recv_finished = [c \in Consumers |-> {}]
  /\ dst_finished = {}
  /\ held = [t \in Codecs |-> <<>>]
  /\ opened = {} /\ got_frame = {}
  /\ formats = [f \in Filters |-> {}]
  /\ eof_in = [f \in Filters |-> {}]
  /\ nb_read = [d \in Demuxers |-> [s \in DOMAIN Outs[d] |-> 0]]
  /\ loop = Loops
  /\ expect_end_ts = {}
  /\ queue_end_ts = [x \in Decs |-> <<>>]
  /\ end_ts_closed = [x \in Decs |-> FALSE]
  /\ last_frame = [x \in Decs |-> 0]
  /\ terminate = FALSE /\ main = "waiting"
  /\ failed = {} /\ ended = {}
  /\ muxed = [m \in Muxes |-> [p \in Ports[m] |-> <<>>]]

DemuxNext(d) ==
  \/ \E s \in DOMAIN Outs[d] : demux_read(d, s)
  \/ demux_ends(d) \/ demux_loop(d) \/ demux_flush_eof(d) \/ demux_flush(d)
  \/ demux_end_ts(d) \/ seek_to_start(d)
DecNext(x) == dec_end_ts(x) \/ dec_packet(x) \/ dec_flush(x) \/ dec_eof(x) \/ dec_exit(x)
FilterNext(f) ==
  \/ filter_frame(f) \/ filter_receive_finish(f) \/ filter_eof_frame(f)
  \/ filter_stream_eof(f) \/ filter_ends(f)
EncNext(e) == enc_frame(e) \/ enc_finishes(e) \/ enc_eof(e)
MuxNext(m) == mux_packet(m) \/ mux_receive_finish(m) \/ mux_finishes(m) \/ mux_eof(m)
ThreadNext(t) ==
  \/ Send(t) \/ task_cleanup(t)
  \/ t \in Demuxers /\ DemuxNext(t)
  \/ t \in Decs /\ DecNext(t)
  \/ t \in Filters /\ FilterNext(t)
  \/ t \in Encs /\ EncNext(t)
  \/ t \in Muxes /\ MuxNext(t)
  \/ t \in Consumers /\ tq_drop(t)

Next == (\E t \in Threads : ThreadNext(t) \/ task_fails(t)) \/ sch_stop \/ StopJoin

Spec == Init /\ [][Next]_vars

(* Every thread goes on when it can, and inputs end: nb_read is bounded.   *)
(* The main thread sees that all is done or that something failed, and     *)
(* joins the others; nobody has to fail, end early or press q.             *)
FairSpec ==
  /\ Spec
  /\ \A t \in Threads : WF_vars(ThreadNext(t))
  /\ WF_vars((AllMuxed \/ task_failed) /\ sch_stop)
  /\ WF_vars(StopJoin)

-----------------------------------------------------------------------------
(* The threads a stream comes from.                                        *)
ProducersOf(S) == {t \in Producers : \E d \in Range(DstsOf(t)) : d \in S}
InputsOf(T) == UNION {{c} \X Ports[c] : c \in T \cap Consumers}
Upstream(d, T) == ProducersOf({d} \cup InputsOf(T)) \subseteq T
Path(d) == {t \in Producers : \A T \in SUBSET Producers : Upstream(d, T) => t \in T}
Disturbed(t) == t \in failed \/ \E e \in ended : e[1] = t

(* The packets read from the input stream that a destination comes from.   *)
ReadFor(d) ==
  LET x == CHOOSE x \in UNION {{t} \X DOMAIN Outs[t] : t \in Demuxers} :
              x[1] \in Path(d) /\ \E o \in Range(Outs[x[1]][x[2]]) : o = d \/ o[1] \in Path(d)
  IN  nb_read[x[1]][x[2]]

(* Whoever stops, fails or closes elsewhere, and when: what was read from  *)
(* an input is muxed in full and in order on all streams on whose way      *)
(* nobody failed or ended early, also what codecs and filters held back    *)
(* (sch_stop() lets what was read be drained); not on streams to which a   *)
(* filtergraph gives no frames.                                            *)
NothingLost ==
  main = "stopped" =>
    \A m \in Muxes : Started(m) => \A p \in Ports[m] :
      \/ <<m, p>> \in ended \/ <<m, 0>> \in ended \/ m \in failed
      \/ \E t \in Path(<<m, p>>) : Disturbed(t)
      \/ InputsOf(Path(<<m, p>>)) \cap NoFrames # {}
      \/ muxed[m][p] = [i \in 1 .. ReadFor(<<m, p>>) |-> i]

(* close_output(): also an encoder that gets no frame is initialized, so   *)
(* that its file can be written, unless something failed on the way.       *)
EncodersOpened ==
  \A e \in Encs \ opened : Ports[e] \subseteq send_finished[e] =>
    Path(<<e, 1>>) \cap failed # {}

(* demux_flush(): the end timestamp that a looped input gets is that of    *)
(* this loop, after all that was read before.                              *)
EndTsOfThisLoop ==
  \A x \in EndTs : queue_end_ts[x] # <<>> =>
    /\ queue_end_ts[x] = <<ReadFor(<<x, 1>>)>>
    /\ \E d \in Demuxers : pc[d] = "waiting" /\ Head(todo[d]).dst[1] = x

(* Nobody waits for a thread that is gone: sch_stop() returns, after all   *)
(* that was read is written, a task failed, or a signal.                   *)
TranscodingEnds == <>(main = "stopped")

(* sch_filter_receive(): EOFs of specific streams "should always be        *)
(* preceded by an EOF frame".                                              *)
EofFrameFirst ==
  \A f \in Filters : pc[f] = "receiving" =>
    \A p \in recv_finished[f] : p \in eof_in[f] \/ <<f, p>> \in ended
=============================================================================
