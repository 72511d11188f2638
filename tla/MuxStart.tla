------------------------------ MODULE MuxStart ------------------------------
(***************************************************************************)
(* How a muxer comes to start: the pre-mux queues of ffmpeg_sched.c.       *)
(*                                                                         *)
(* A muxer can only be started when the parameters of all its streams are  *)
(* known.  Until then send_to_mux() keeps the packets of each stream in a  *)
(* FIFO of its own.  The thread that brings the last parameters, in        *)
(* sch_mux_stream_ready(), starts the muxer thread and moves what the      *)
(* FIFOs hold to the muxer's ThreadQueue, all with mux_ready_lock held;    *)
(* mux_started, which the senders look at without the lock, is set last.   *)
(*                                                                         *)
(* The ThreadQueue is here by what the module of that name shows of it.  A *)
(* packet is its number in its stream, from 1, and has the size 1; an EOF  *)
(* is the number 0.                                                        *)
(***************************************************************************)
EXTENDS Integers, Sequences, FiniteSets, FiniteSetsExt

CONSTANTS
  NbStreams,      (* streams of all muxers, numbered from 1                *)
  NbMux,          (* muxers                                                *)
  MuxOf,          (* the muxer of each stream                              *)
  SDP,            (* an SDP file is written: all muxers start together     *)
  ReadyAtStart,   (* streams that were ready before sch_start()            *)
  QueueSize,      (* mux->queue_size                                       *)
  InitialRoom,    (* room in a new pre-mux FIFO                            *)
  MaxPackets,     (* pre_mux_queue.max_packets                             *)
  DataThreshold,  (* pre_mux_queue.data_threshold                          *)
  Timings,        (* for each stream, the dts of the packets it may have   *)
  StopsEarly      (* TRUE: muxers may end before their input does          *)

Streams == 1 .. NbStreams
Muxes   == 1 .. NbMux
StreamsOf(m) == {s \in Streams : MuxOf[s] = m}

NOPTS == -1     (* AV_NOPTS_VALUE, which is below all others               *)
Dts   == Nat \cup {NOPTS}
Free  == 0      (* nobody has mux_ready_lock                               *)
Eof   == 0

ASSUME MuxStartAssumption ==
  /\ NbStreams \in Nat \ {0}
  /\ NbMux \in Nat \ {0}
  /\ MuxOf \in [Streams -> Muxes]
  /\ SDP \in BOOLEAN
  /\ ReadyAtStart \subseteq Streams
  /\ QueueSize \in Nat \ {0}
  /\ InitialRoom \in Nat \ {0}
  /\ MaxPackets \in Nat
  /\ DataThreshold \in Nat
  /\ Timings \subseteq [Streams -> Seq(Dts)]
  /\ StopsEarly \in BOOLEAN

VARIABLES
  timing,         (* the dts of the packets of each stream                 *)
  mux_ready_lock, (* the stream whose sch_mux_stream_ready() holds it      *)
  ready,          (* streams that were counted in nb_streams_ready         *)
  mux_ready,      (* muxers that were counted in nb_mux_ready              *)
  starting,       (* muxers mux_init() has yet to start, in order          *)
  mux_started,    (* mux->mux_started                                      *)
  premux,         (* pre_mux_queue.fifo                                    *)
  room,           (* the size of that FIFO                                 *)
  data_size,      (* pre_mux_queue.data_size                               *)
  init_eof,       (* ms->init_eof                                          *)
  queue,          (* mux->queue: the packets in it, ...                    *)
  sendClosed,     (* ... its FINISHED_SEND ...                             *)
  recvClosed,     (* ... and its FINISHED_RECV                             *)
  muxer,          (* the thread of each muxer                              *)
  pc,             (* where the sender of each stream is, ...               *)
  hand,           (* ... and what it is sending                            *)
  opened,         (* streams whose encoder is open, or that have none      *)
  accepted,       (* history: packets send_to_mux() took                   *)
  delivered,      (* history: the last packet the muxer got                *)
  eofs,           (* history: EOFs of a stream the muxer got               *)
  flushed         (* history: the largest dts flushed to each muxer        *)

startVars  == <<mux_ready_lock, ready, mux_ready, starting, mux_started, opened>>
premuxVars == <<premux, room, data_size>>
queueVars  == <<queue, sendClosed, recvClosed>>
sendVars   == <<pc, hand, accepted>>
muxerVars  == <<muxer, delivered, eofs>>
vars == <<timing, mux_ready_lock, ready, mux_ready, starting, mux_started, premux, room,
          data_size, init_eof, queue, sendClosed, recvClosed, muxer, pc, hand, opened,
          accepted, delivered, eofs, flushed>>

-----------------------------------------------------------------------------
(* tq_send() and tq_send_finish() on the queue of the muxer of stream s.   *)

TqEof(s)  == recvClosed[s]
TqRoom(s) == ~recvClosed[s] /\ Len(queue[MuxOf[s]]) < QueueSize
TqPut(s, n) ==
  queue' = [queue EXCEPT ![MuxOf[s]] = Append(@, [stream |-> s, num |-> n])]
TqClose(s) == sendClosed' = [sendClosed EXCEPT ![s] = TRUE]

-----------------------------------------------------------------------------
(* The senders: send_to_mux().                                             *)

Goto(s, l) == pc' = [pc EXCEPT ![s] = l]

(* The first look at mux_started, without the lock.                        *)
Look(s, n) ==
  /\ hand' = [hand EXCEPT ![s] = n]
  /\ Goto(s, IF mux_started[MuxOf[s]] THEN "sending" ELSE "locking")
  /\ UNCHANGED <<timing, startVars, premuxVars, init_eof, queueVars, accepted,
                 muxerVars, flushed>>

send_packet(s) ==
  /\ pc[s] = "idle"
  /\ s \in opened
  /\ accepted[s] < Len(timing[s])
  /\ Look(s, accepted[s] + 1)

send_eof(s) ==
  /\ pc[s] \in {"idle", "closing"}
  /\ Look(s, Eof)

Size(n) == IF n = Eof THEN 0 ELSE 1

(* av_fifo_grow2() doubles a full FIFO, up to max_packets once there is    *)
(* enough data.                                                            *)
ThreshReached(s) == data_size[s] + Size(hand[s]) > DataThreshold
NewRoom(s) ==
  IF Len(premux[s]) < room[s] THEN room[s]
  ELSE IF ThreshReached(s) THEN Max({room[s], Min({2 * room[s], MaxPackets})})
  ELSE 2 * room[s]
CanQueue(s) == Len(premux[s]) < NewRoom(s)

(* What is sent is taken; the sender of an EOF is through.                 *)
Sent(s) ==
  /\ Goto(s, IF hand[s] = Eof THEN "done" ELSE "idle")
  /\ accepted' = [accepted EXCEPT ![s] = @ + Size(hand[s])]

(* mux_queue_packet() succeeds, ...                                        *)
Queued(s) ==
  /\ CanQueue(s)
  /\ premux' = [premux EXCEPT ![s] = Append(@, hand[s])]
  /\ room' = [room EXCEPT ![s] = NewRoom(s)]
  /\ data_size' = [data_size EXCEPT ![s] = @ + Size(hand[s])]
  /\ Sent(s)

(* ... or fails: the task ends with an error, and its cleanup sends an EOF;*)
(* when it was the EOF that failed nobody looks at the error.              *)
NotQueued(s) ==
  /\ ~CanQueue(s)
  /\ Goto(s, IF hand[s] = Eof THEN "done" ELSE "closing")
  /\ UNCHANGED <<premuxVars, accepted>>

(* Mutant: there is no second look.                                        *)
send_locked_blind(s) ==
  /\ pc[s] = "locking"
  /\ mux_ready_lock = Free
  /\ Queued(s) \/ NotQueued(s)
  /\ UNCHANGED <<timing, startVars, init_eof, queueVars, hand, muxerVars, flushed>>

(* The second look, and mux_queue_packet(), under the lock.                *)
send_locked(s) ==
  /\ pc[s] = "locking"
  /\ mux_ready_lock = Free
  /\ \/ ~mux_started[MuxOf[s]] /\ (Queued(s) \/ NotQueued(s))
     \/ /\ mux_started[MuxOf[s]]
        /\ Goto(s, "sending")
        /\ UNCHANGED <<premuxVars, accepted>>
  /\ UNCHANGED <<timing, startVars, init_eof, queueVars, hand, muxerVars, flushed>>

(* The way around the FIFO.  When the muxer takes no more of the stream,   *)
(* the caller goes on to send an EOF.                                      *)
send_direct(s) ==
  /\ pc[s] = "sending"
  /\ \/ /\ hand[s] = Eof
        /\ TqClose(s)
        /\ Sent(s)
        /\ UNCHANGED queue
     \/ /\ hand[s] # Eof
        /\ init_eof[s] \/ TqEof(s)
        /\ IF init_eof[s] THEN UNCHANGED sendClosed ELSE TqClose(s)
        /\ Goto(s, "closing")
        /\ UNCHANGED <<queue, accepted>>
     \/ /\ hand[s] # Eof
        /\ ~init_eof[s]
        /\ TqRoom(s)
        /\ TqPut(s, hand[s])
        /\ Sent(s)
        /\ UNCHANGED sendClosed
  /\ UNCHANGED <<timing, startVars, premuxVars, init_eof, recvClosed, hand,
                 muxerVars, flushed>>

-----------------------------------------------------------------------------
(* The thread that opens the encoder of stream s: sch_mux_stream_ready().  *)

(* The muxers that mux_init() of m starts; the SDP needs all of them ready.*)
Startable(m) ==
  IF ~SDP THEN <<m>>
  ELSE IF mux_ready \cup {m} = Muxes THEN [i \in Muxes |-> i] ELSE <<>>

(* The stream is ready, but not the last of its muxer.                     *)
ReadyEarly(s) ==
  /\ ~(StreamsOf(MuxOf[s]) \subseteq ready \cup {s})
  /\ opened' = opened \cup {s}
  /\ UNCHANGED <<mux_ready_lock, mux_ready, starting, muxer>>

(* It is the last one: the muxer is initialized, and the muxers that can   *)
(* be are started, the first one at once.                                  *)
ReadyLast(s) ==
  LET m == MuxOf[s] IN
  /\ StreamsOf(m) \subseteq ready \cup {s}
  /\ mux_ready' = mux_ready \cup {m}
  /\ starting' = Startable(m)
  /\ IF starting' = <<>>
     THEN opened' = opened \cup {s} /\ UNCHANGED <<mux_ready_lock, muxer>>
     ELSE /\ mux_ready_lock' = s
          /\ muxer' = [muxer EXCEPT ![Head(starting')] = "running"]
          /\ UNCHANGED opened

(* It is the last one, and mux->init() fails: so does the opening of the   *)
(* encoder.                                                                *)
ReadyInitFails(s) ==
  /\ StreamsOf(MuxOf[s]) \subseteq ready \cup {s}
  /\ UNCHANGED <<mux_ready_lock, mux_ready, starting, opened, muxer>>

sch_mux_stream_ready(s) ==
  /\ s \notin ready
  /\ mux_ready_lock = Free
  /\ ready' = ready \cup {s}
  /\ ReadyEarly(s) \/ ReadyLast(s) \/ ReadyInitFails(s)
  /\ UNCHANGED <<timing, mux_started, premuxVars, init_eof, queueVars, pc, hand, accepted,
                 delivered, eofs, flushed>>

-----------------------------------------------------------------------------
(* mux_task_start(): the flush.                                            *)

Starting == Head(starting)
Waiting  == {s \in StreamsOf(Starting) : premux[s] # <<>>}
DtsOf(s, n) == IF n = Eof THEN NOPTS ELSE timing[s][n]
HeadDts(s)  == DtsOf(s, Head(premux[s]))

(* Mutant: the stream with the latest dts.                                 *)
MinStreamLatest ==
  CHOOSE s \in Waiting :
    /\ \A r \in Waiting : HeadDts(r) <= HeadDts(s)
    /\ \A r \in Waiting : HeadDts(r) = HeadDts(s) => s <= r

(* The stream with the earliest dts, an unknown one or EOF first, and the  *)
(* first of those that have the same.                                      *)
MinStream ==
  CHOOSE s \in Waiting :
    /\ \A r \in Waiting : HeadDts(s) <= HeadDts(r)
    /\ \A r \in Waiting : HeadDts(r) = HeadDts(s) => s <= r

MinHead == Head(premux[MinStream])

TakeMinHead ==
  /\ mux_ready_lock # Free
  /\ Waiting # {}
  /\ premux' = [premux EXCEPT ![MinStream] = Tail(@)]
  /\ UNCHANGED <<timing, startVars, room, data_size, recvClosed, sendVars, muxerVars>>

(* Mutant: the EOF is dropped.                                             *)
FlushEofDropped ==
  /\ TakeMinHead
  /\ MinHead = Eof
  /\ UNCHANGED <<init_eof, queue, sendClosed, flushed>>

FlushEof ==
  /\ TakeMinHead
  /\ MinHead = Eof
  /\ TqClose(MinStream)
  /\ UNCHANGED <<init_eof, queue, flushed>>

(* A packet goes to the muxer, as soon as there is room, unless the muxer  *)
(* takes no more of the stream: then it is freed, like those after it.     *)
FlushPacket ==
  /\ TakeMinHead
  /\ MinHead # Eof
  /\ \/ /\ init_eof[MinStream]
        /\ UNCHANGED <<init_eof, queue, sendClosed, flushed>>
     \/ /\ ~init_eof[MinStream]
        /\ TqEof(MinStream)
        /\ TqClose(MinStream)
        /\ init_eof' = [init_eof EXCEPT ![MinStream] = TRUE]
        /\ UNCHANGED <<queue, flushed>>
     \/ /\ ~init_eof[MinStream]
        /\ TqRoom(MinStream)
        /\ TqPut(MinStream, MinHead)
        /\ flushed' = [flushed EXCEPT ![Starting] = Max({@, HeadDts(MinStream)})]
        /\ UNCHANGED <<init_eof, sendClosed>>

(* All FIFOs of the muxer are empty.  The next muxer is started, or the    *)
(* lock is given up and the stream that was ready last has its packets     *)
(* come.                                                                   *)
FlushDone ==
  /\ mux_ready_lock # Free
  /\ Waiting = {}
  /\ mux_started' = [mux_started EXCEPT ![Starting] = TRUE]
  /\ starting' = Tail(starting)
  /\ IF starting' # <<>>
     THEN /\ muxer' = [muxer EXCEPT ![Head(starting')] = "running"]
          /\ UNCHANGED <<mux_ready_lock, opened>>
     ELSE /\ mux_ready_lock' = Free
          /\ opened' = opened \cup {mux_ready_lock}
          /\ UNCHANGED muxer
  /\ UNCHANGED <<timing, ready, mux_ready, premuxVars, init_eof, queueVars, sendVars,
                 delivered, eofs, flushed>>

mux_task_start == FlushEof \/ FlushPacket \/ FlushDone

-----------------------------------------------------------------------------
(* The muxer threads.                                                      *)

Deliverable(m) == {k \in DOMAIN queue[m] : ~recvClosed[queue[m][k].stream]}

(* sch_mux_receive() returns a packet, after it dropped what nobody wants. *)
sch_mux_receive(m) ==
  /\ muxer[m] = "running"
  /\ Deliverable(m) # {}
  /\ LET k == Min(Deliverable(m)) IN
     /\ delivered' = [delivered EXCEPT ![queue[m][k].stream] = queue[m][k].num]
     /\ queue' = [queue EXCEPT ![m] = SubSeq(@, k + 1, Len(@))]
  /\ UNCHANGED <<timing, startVars, premuxVars, init_eof, sendClosed, recvClosed, sendVars,
                 muxer, eofs, flushed>>

(* Mutant: it waits with the items still in the queue.                     *)
sch_mux_receive_waits_full(m) ==
  /\ muxer[m] = "running"
  /\ queue[m] # <<>>
  /\ Deliverable(m) = {}
  /\ UNCHANGED vars

(* It finds nothing for the muxer and waits; what was in the queue belonged*)
(* to streams the muxer takes no more of, and there is room again.         *)
sch_mux_receive_waits(m) ==
  /\ muxer[m] = "running"
  /\ queue[m] # <<>>
  /\ Deliverable(m) = {}
  /\ \A s \in StreamsOf(m) : sendClosed[s] => recvClosed[s]
  /\ \E s \in StreamsOf(m) : ~recvClosed[s]
  /\ queue' = [queue EXCEPT ![m] = <<>>]
  /\ UNCHANGED <<timing, startVars, premuxVars, init_eof, sendClosed, recvClosed, sendVars,
                 muxerVars, flushed>>

(* Mutant: the EOF comes before the packets.                               *)
sch_mux_receive_eof_first(m) ==
  LET ended == {s \in StreamsOf(m) : sendClosed[s] /\ ~recvClosed[s]} IN
  /\ muxer[m] = "running"
  /\ ended # {}
  /\ recvClosed' = [recvClosed EXCEPT ![Min(ended)] = TRUE]
  /\ eofs' = [eofs EXCEPT ![Min(ended)] = @ + 1]
  /\ UNCHANGED <<timing, startVars, premuxVars, init_eof, queue, sendClosed, sendVars, muxer,
                 delivered, flushed>>

(* It returns the EOF of a stream.                                         *)
sch_mux_receive_eof(m) ==
  LET ended == {s \in StreamsOf(m) : sendClosed[s] /\ ~recvClosed[s]} IN
  /\ muxer[m] = "running"
  /\ Deliverable(m) = {}
  /\ ended # {}
  /\ recvClosed' = [recvClosed EXCEPT ![Min(ended)] = TRUE]
  /\ eofs' = [eofs EXCEPT ![Min(ended)] = @ + 1]
  /\ queue' = [queue EXCEPT ![m] = <<>>]
  /\ UNCHANGED <<timing, startVars, premuxVars, init_eof, sendClosed, sendVars, muxer,
                 delivered, flushed>>

(* The muxer takes no more of a stream.                                    *)
sch_mux_receive_finish(s) ==
  /\ StopsEarly
  /\ muxer[MuxOf[s]] = "running"
  /\ ~recvClosed[s]
  /\ recvClosed' = [recvClosed EXCEPT ![s] = TRUE]
  /\ UNCHANGED <<timing, startVars, premuxVars, init_eof, queue, sendClosed, sendVars,
                 muxerVars, flushed>>

(* The thread comes to its end on the EOF of all streams, ...              *)
muxer_thread_ends(m) ==
  /\ muxer[m] = "running"
  /\ Deliverable(m) = {}
  /\ \A s \in StreamsOf(m) : recvClosed[s]
  /\ muxer' = [muxer EXCEPT ![m] = "closing"]
  /\ UNCHANGED <<timing, startVars, premuxVars, init_eof, queueVars, sendVars, delivered,
                 eofs, flushed>>

(* ... or because it will not or cannot write more.                        *)
muxer_thread_stops(m) ==
  /\ StopsEarly
  /\ muxer[m] = "running"
  /\ muxer' = [muxer EXCEPT ![m] = "closing"]
  /\ UNCHANGED <<timing, startVars, premuxVars, init_eof, queueVars, sendVars, delivered,
                 eofs, flushed>>

(* mux_done(): what is open is closed, stream by stream.                   *)
mux_done(m) ==
  LET open == {s \in StreamsOf(m) : ~recvClosed[s]} IN
  /\ muxer[m] = "closing"
  /\ IF open # {}
     THEN recvClosed' = [recvClosed EXCEPT ![Min(open)] = TRUE] /\ UNCHANGED muxer
     ELSE muxer' = [muxer EXCEPT ![m] = "done"] /\ UNCHANGED recvClosed
  /\ UNCHANGED <<timing, startVars, premuxVars, init_eof, queue, sendClosed, sendVars,
                 delivered, eofs, flushed>>

-----------------------------------------------------------------------------
(* What sch_start() leaves: the muxers run that could be started at once.  *)
ReadyMuxes == {m \in Muxes : StreamsOf(m) \subseteq ReadyAtStart}
StartedAtOnce == IF SDP /\ ReadyMuxes # Muxes THEN {} ELSE ReadyMuxes

Init ==
  /\ timing \in Timings
  /\ mux_ready_lock = Free
  /\ ready = ReadyAtStart
  /\ mux_ready = ReadyMuxes
  /\ starting = <<>>
  /\ mux_started = [m \in Muxes |-> m \in StartedAtOnce]
  /\ premux = [s \in Streams |-> <<>>]
  /\ room = [s \in Streams |-> InitialRoom]
  /\ data_size = [s \in Streams |-> 0]
  /\ init_eof = [s \in Streams |-> FALSE]
  /\ queue = [m \in Muxes |-> <<>>]
  /\ sendClosed = [s \in Streams |-> FALSE]
  /\ recvClosed = [s \in Streams |-> FALSE]
  /\ muxer = [m \in Muxes |-> IF m \in StartedAtOnce THEN "running" ELSE "none"]
  /\ pc = [s \in Streams |-> "idle"]
  /\ hand = [s \in Streams |-> Eof]
  /\ opened = ReadyAtStart
  /\ accepted = [s \in Streams |-> 0]
  /\ delivered = [s \in Streams |-> 0]
  /\ eofs = [s \in Streams |-> 0]
  /\ flushed = [m \in Muxes |-> NOPTS]

SendNext(s) == send_eof(s) \/ send_locked(s) \/ send_direct(s)
MuxerNext(m) ==
  \/ sch_mux_receive(m) \/ sch_mux_receive_waits(m) \/ sch_mux_receive_eof(m)
  \/ muxer_thread_ends(m) \/ mux_done(m)

Next ==
  \/ \E s \in Streams : send_packet(s) \/ SendNext(s)
  \/ \E s \in Streams : sch_mux_stream_ready(s) \/ sch_mux_receive_finish(s)
  \/ mux_task_start
  \/ \E m \in Muxes : MuxerNext(m) \/ muxer_thread_stops(m)

Spec == Init /\ [][Next]_vars

(* Threads run on unless they wait, and get mux_ready_lock at some point;  *)
(* every input ends; a muxer thread reads its queue, to the end if it does *)
(* not stop.  No encoder has to be opened.                                 *)
FairSpec ==
  /\ Spec
  /\ \A s \in Streams :
       /\ WF_vars(send_eof(s)) /\ SF_vars(send_locked(s)) /\ WF_vars(send_direct(s))
  /\ WF_vars(mux_task_start)
  /\ \A m \in Muxes : WF_vars(MuxerNext(m))

-----------------------------------------------------------------------------
(* Once mux_started is set nothing is left behind in a pre-mux FIFO, from  *)
(* which nobody would take it any more: the senders that saw it unset look *)
(* again under the lock.                                                   *)
NothingStranded ==
  \A s \in Streams : mux_started[MuxOf[s]] => premux[s] = <<>>

(* The flush merges the streams by dts: no packet is left with a dts below *)
(* that of one that is already in the muxer's queue.                       *)
FlushedInOrder ==
  \A s \in Streams : \A k \in DOMAIN premux[s] :
    DtsOf(s, premux[s][k]) # NOPTS => flushed[MuxOf[s]] <= DtsOf(s, premux[s][k])

(* Nothing waits for mux_ready_lock forever: the flush, which waits with   *)
(* the lock held for room in the muxer's queue, comes to its end.          *)
FlushEnds == mux_ready_lock # Free ~> mux_ready_lock = Free

(* When the senders of all its streams are done, a muxer that runs ends:   *)
(* it gets the EOF of every stream, whichever way that took.               *)
MuxerEnds ==
  \A m \in Muxes :
    muxer[m] = "running" /\ (\A s \in StreamsOf(m) : pc[s] = "done") ~> muxer[m] = "done"

(* What the senders and the muxer see of the way through the FIFO, the     *)
(* flush and the queue is one channel per stream, in which nothing is lost,*)
(* duplicated or overtaken; it holds what both FIFOs hold.                 *)
HasEof(s) == \E k \in DOMAIN premux[s] : premux[s][k] = Eof
Capacity  == QueueSize + Max({InitialRoom, MaxPackets, 2 * DataThreshold})
Channels  == INSTANCE StreamChannel WITH
  QueueSize  <- Capacity,
  sendClosed <- [s \in Streams |-> sendClosed[s] \/ HasEof(s)]
ImplementsChannels == Channels!Spec
=============================================================================
