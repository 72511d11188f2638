# Specifications of the concurrent core of FFmpeg

FFmpeg is mostly arithmetic on media data. What makes it a concurrent program
is smaller: the transcoder `ffmpeg` runs one thread for every demuxer, decoder,
filtergraph, encoder and muxer, connects them with bounded queues, and decides
in a scheduler which of them may run; below it, `libavutil` and `libavcodec`
have thread pools, message queues and reference counts. These specifications
are about that part. They are TLA+ modules translated from the C source, model
checked with TLC on small instances, and, for the parts that everything else
rests on, proved with TLAPS for instances of every size.

## 1. The system

### 1.1 Components

| Component | Source | State | Operations | Hard behaviour |
|---|---|---|---|---|
| Thread queue | `fftools/thread_queue.c` | two FIFOs (items, their stream indices), two `finished` flags per stream, `choked`, a mutex and one condition variable | `tq_send`, `tq_receive`, `tq_send_finish`, `tq_receive_finish`, `tq_choke` | blocking on both sides, half closed streams, items dropped inside a receive, choking |
| Scheduler: choking | `fftools/ffmpeg_sched.c` | a waiter per source, `last_dts` and `source_finished` per output stream, `best_input` and `finished` flags per filtergraph, `terminate` | `schedule_update_locked` and its nine callers, `waiter_wait`, `sch_stop` | updates race with sources that go to sleep and with termination |
| Scheduler: start of the muxers | `fftools/ffmpeg_sched.c`, `ffmpeg_mux.c` | a pre-mux queue per stream, `mux_started`, counts of ready streams and muxers | `send_to_mux`, `mux_queue_packet`, `sch_mux_stream_ready`, `mux_init`, `mux_task_start`, `sch_mux_receive*` | a flag that is looked at without its lock, a flush that blocks with the lock held, FIFO limits |
| Scheduler: check of the graph | `fftools/ffmpeg_sched.c` | marks and a stack | `check_acyclic` | a depth first search without recursion and with bounded memory |
| Scheduler: data flow | `fftools/ffmpeg_sched.c` | `dst_finished`, open encoders, `nb_mux_done`, `task_failed` | `sch_*_send`, `sch_*_receive`, `*_done`, `sch_wait` | propagation of EOF and errors both ways, heartbeats against the direction of the data |
| Sync queue | `fftools/sync_queue.c` | FIFO and head timestamp per stream, the head stream | `sq_send`, `sq_receive` | frames held back for other streams, finishing a stream finishes others |
| Task threads | `fftools/ffmpeg_{demux,dec,filter,enc,mux}.c` | decoder, filtergraph and encoder contexts | the thread functions | reconfiguration and flushing |
| FIFOs | `libavutil/fifo.c`, `container_fifo.c` | ring buffer, offsets, `is_empty` | write, read, peek, grow, drain | wrap around, growing while wrapped |
| Message queue | `libavutil/threadmessage.c` | FIFO, two errors, two condition variables | send, receive, set errors, flush | blocking on both sides, signalling one waiter |
| Slice threads, executor | `libavutil/slicethread.c`, `executor.c` | job counters; priority lists | execute | atomics with condition variables |
| Frame threading | `libavcodec/pthread_frame.c`, `threadprogress.c`, `frame_thread_encoder.c` | state and progress per thread | submit, receive, report, await, flush | a pipeline of threads that wait for each other |
| Buffers | `libavutil/buffer.c`, `refstruct.c` | reference counts, pools | ref, unref, pool get and uninit | the last reference races with the end of the pool |
| Async protocol, FIFO muxer | `libavformat/async.c`, `fifo.c` | ring buffer with seeks; message queue with recovery | read, seek; write, recover | a thread that retries |
| Codec, filter and bitstream filter APIs | `libavcodec/{decode,encode,bsf}.c`, `libavfilter/avfilter.c` | pending frames and packets, link status | send and receive protocols | EAGAIN and EOF in both directions |
| `ffplay` | `fftools/ffplay.c` | packet and frame queues with serials | put, get, seek | stale data after a seek |
| Codecs, formats, filters, scaling, devices | `libav*`, `libsw*` | media data | | not modelled: the data is out of a model checker's reach |
| Options, probing, printing | `fftools/ffmpeg_opt.c`, `ffprobe.c`, ... | | | not modelled: sequential code |

### 1.2 How the parts interact

```
 demuxer --tq--> decoder --tq--> filtergraph --tq--> encoder --premux/tq--> muxer
    |                                 |                                       |
    +------------- waiters -----------+        last_dts, source_finished     |
                      ^                                                       |
                      +------------ schedule_update_locked() <---------------+
```

Data goes from left to right through thread queues (`tq`), one for each
consumer thread, in which streams are multiplexed. EOF goes to the right as a
closed sending side and to the left as a closed receiving side. Whoever sends a
packet to a muxer, closes a stream, or asks for another input of a filtergraph
takes `schedule_lock` and calls `schedule_update_locked()`, which sets the
waiters of the demuxers and filtergraphs and freezes the queues behind demuxers
that have to wait. A muxer only gets a thread when the encoders of all its
streams have been opened; until then its packets are kept in pre-mux queues.
`sch_stop()` is called by the main thread, sets `terminate`, lets everybody
pass and joins all threads.

### 1.3 What makes each part correct

* Thread queue: no thread sleeps on a condition that holds; an item is
  delivered once and in order or its receiver was closed; EOF comes after the
  last item, once; the two FIFOs belong together.
* Choking: no source sleeps that may run; the sources of the output streams that
  are behind may run; someone runs as long as anybody can; termination reaches
  everybody.
* Start of the muxers: every packet and every EOF reaches the muxer, in order,
  whichever way it takes; the flush ends; a muxer ends.
* Sync queue: no stream gets ahead of or outlives a limiting one, none is cut
  off early, frames are cut without losing samples, EOF comes and is final.
* Check of the graph: exactly the graphs with a cycle are refused, within the
  memory that was allocated.
* Data flow: what was read is written in full on every way on which nobody
  failed or ended early, whatever happens on the others; encoders that never get
  a frame are opened all the same; the end timestamp a looped input gets is that
  of the loop it has just read; transcoding ends.
* Frame threads: the caller gets the frames of all packets in order, and errors
  in their place; a thread starts from the context of the packet before its own;
  a hwaccel that is not safe for threads is used in turn; every call returns.

## 2. The modules

| Module | What it is |
|---|---|
| `ThreadQueue` | `thread_queue.c` |
| `StreamChannel` | what a stream of a thread queue promises: a reliable channel with two closing ends |
| `ThreadQueueProofs` | theorems about `ThreadQueue` |
| `Scheduler`, `SchedulerProofs` | the choking part of `ffmpeg_sched.c`, and theorems about it |
| `MuxStart`, `MuxStartProofs` | the pre-mux queues and the start of the muxers, and theorems about them |
| `CheckAcyclic`, `CheckAcyclicProofs` | the check for cycles, and theorems about it |
| `SyncQueue`, `SyncQueueProofs` | `sync_queue.c` and the loops of its two users, and theorems about them |
| `Pipeline`, `PipelineProofs` | the data flow of `ffmpeg_sched.c` with the loops of the five kinds of threads, and theorems about it |
| `FrameThreads`, `FrameThreadsProofs` | `libavcodec/pthread_frame.c`, and theorems about it |
| `SequenceInduction` | induction over sets of numbers, and what follows for sequences that are defined or joined step by step; used by the proofs |
| `MCThreadQueue`, `MCScheduler`, `MCMuxStart`, `MCSyncQueue`, `MCPipeline` | instances for TLC; `CheckAcyclic` and `FrameThreads` need only a configuration |

`StreamChannel` is the interface between them: `ThreadQueue` implements it, and
so does, with a larger capacity, the whole way of a packet in `MuxStart`,
through pre-mux queue, flush and muxer queue. `Pipeline` composes the threads
and takes from these modules what they show: its queues are channels (a sequence
and the `finished` flags of each stream), and what is sent to a muxer that is not
started yet is kept. `Scheduler` has the same threads seen from the other side:
who may run, without the data.

Definitions whose comment begins with "Mutant" are variants of the definition
that follows, each with one plausible mistake. They are not used by any
specification; they are there to see that the properties notice the mistake
when the variant takes the place of the definition.

### 2.1 ThreadQueue

Every operation runs under `tq->lock` and gives it up only in
`pthread_cond_wait()`. So one critical section is one action; a call that has to
wait ends with its thread in state `"waiting"`, from where a broadcast or a
spurious wakeup takes it to `"woken"`, and the loop continues in another action.
`tq_send` is split into what one turn of its loop can come to (`SendEof`,
`SendWrite`, `SendNoMem`, `SendWait`); `tq_receive` likewise (`ReceiveItem`,
`ReceiveEof`, `ReceiveAllDone`, `ReceiveWait`), each with the items that
`receive_locked()` throws away on the way. `SendNoMem` is the second write of
`tq_send()` failing after the first; the history variable `nomem` records that
it has happened. An item is its stream and its number
in it. The history variables `accepted`, `delivered` and `eofs` record what the
callers saw.

### 2.2 Scheduler

Updates run under `schedule_lock`, but the waiters they read and set are read
by the sources and set by `sch_stop()` without it. An update therefore takes
one step for each load of a `choked` flag, one for the decision, one for each
waiter that `waiter_set()` changes and one for the `choke_demux()` that goes with
it; the steps of all other threads
come in between. `unchoke_for_stream` is a recursive function on the graph,
which is acyclic. The graph is a constant: `DemuxSeq`, `FilterSeq`, `Decs`,
`Encs`, `MuxStreams`, `Src`, `Inputs`.

Abstractions, all in the direction of more behaviour unless noted:

* Packets are counted in decoder queues only. Encoders, muxers and the sending
  half of streamcopy are the thread `worker`, which may at any time, with
  `schedule_lock`, set the `last_dts` of any stream or finish streams. That
  includes orders a real graph does not produce.
* `demux_done()` sends EOF to all decoders of the demuxer in one step, and
  `StopJoin` waits for all threads at once instead of in order (fewer
  interleavings; the joins have no effect on other threads).
* Frames between decoders and filtergraphs are not modelled; a filtergraph
  thread asks for inputs, closes them and ends as it likes.
* Loopback decoders are left out, as are the heartbeats of subtitle streams.

### 2.3 MuxStart

The sender of a stream (encoder, or demuxer for streamcopy) is a small state
machine: it looks at `mux_started` without the lock (`Look`), then queues the
packet under `mux_ready_lock` (`send_locked`) or sends it directly
(`send_direct`). `sch_mux_stream_ready` takes the lock and, for the last stream,
keeps it while `mux_task_start` moves one packet per step into the queue of the
muxer, whose thread already runs and may end or close streams at any time
(`StopsEarly`). The thread queue is used by the operations `Tq...`, which are
those of `ThreadQueue` without the sleeping. A receive that finds nothing for the
muxer empties the queue of what belongs to closed streams all the same
(`sch_mux_receive_waits`, `thread_queue.c:164-178`), which makes room for the flush. Packets have size 1 and EOF size 0;
a dts is a number, with `AV_NOPTS_VALUE` below all others.
The size of the FIFO follows `av_fifo_grow2()` as `mux_queue_packet()` calls it.

### 2.4 CheckAcyclic

One action for each way through the loop of `check_acyclic_for_output()`. The
initial states are all graphs: for each filtergraph a sequence of what
`src_filtergraph()` returns for its inputs.

### 2.5 SyncQueue

Operators with the names of the C functions take a queue `q` and return the
queue afterwards, because `sq_send()` changes it in several steps that nobody
sees in between; loops over the streams are sets. The actions are the calls:
`SendFrame` and `SendEof`, after which the caller receives (`ReceiveFrame`,
`ReceiveEof`, `ReceiveAgain`) until there is nothing more. The fake heartbeat is
one step for each stream, since a heartbeat may finish streams that come later
in the loop. An encoder that has closed its queue refuses a frame, which sends
an EOF into the sync queue. Setting up the queue is part of the behaviour, so
that one run sees every combination of limits.

Timestamps are integers of 64 bits on a smaller scale (`Int64`), with
`AV_NOPTS_VALUE` as the smallest; a sum or difference may overflow as it does in
the code. Time bases are lengths of a tick, `av_rescale_q()` rounds. A frame is
its `pts`, duration and number of samples. The encoder's frame size is set
before the first frame of the stream is sent.

### 2.6 Pipeline

The threads are the elements of `Demuxers`, `Decs`, `Filters`, `Encs` and
`Muxes`; `Outs` gives for each output of a thread its destinations, which are
streams (`Ports`) of the queues of other threads. A call that sends to several
destinations, or several frames one after the other, puts all of it into `todo`
of the thread, and `Send` sends one item to one destination; so threads
interleave between the destinations of one packet, as they do in
`demux_send_for_stream()` or `sch_filter_send()`. A thread receives when its
`todo` is empty. A receive that drops items of closed streams goes on to the first
one that is live (`FirstLive`, `thread_queue.c:164-178`) and hands that out in the
same step; when there is none the items are gone all the same (`tq_drop`). What a codec or a filtergraph does to the data is to hold back
the last `Delay` frames until it is flushed.

A filtergraph may have several inputs and outputs. It is configured when the
formats of all inputs are known (`formats`), by a frame, or by the fallback that
`send_eof()` takes for an input without any; until then frames wait (`Feed`).
Its outputs are served one after the other (`FilterSends`), and those in `NoFrames`
get none (the others get them all; which input a frame of an output is made of is
not told apart). `got_frame` is set when any output has got a frame
(`GotFrame`), and the empty frame of `close_output()` is not sent any more then
(`NotNeeded`). Run `pipe_split` has such a graph; `EncodersAreOpened` (section 4) is
about all of them.

| Code | Actions |
|---|---|
| `demux_stream_send_to_dst()`, `dec_send_to_dst()`, `send_to_filter()`, `send_to_enc()`, `enc_send_to_dst()`, `send_to_mux()` | `Send`: `SendClose`, `SendItem`, `SendNothing` |
| `input_thread()`, `demux_flush()`, `seek_to_start()` | `demux_read`, `demux_loop`, `demux_flush`, `demux_flush_eof`, `demux_end_ts`, `seek_to_start`, `demux_ends` |
| `decoder_thread()`, `sch_dec_receive()` | `dec_packet`, `dec_flush`, `dec_end_ts`, `dec_eof`, `dec_exit` |
| `filter_thread()`, `sch_filter_receive()`, `sch_filter_receive_finish()` | `filter_frame`, `filter_eof_frame`, `filter_stream_eof`, `filter_receive_finish`, `filter_ends` |
| `encoder_thread()`, `enc_open()` by the first frame | `enc_frame`, `enc_finishes`, `enc_eof`, `Opens` |
| `muxer_thread()`, `sch_mux_receive_finish()` | `mux_packet`, `mux_receive_finish`, `mux_finishes`, `mux_eof` |
| the `*_done()` functions, `task_wrapper()`, `sch_wait()`, `sch_stop()` | `task_cleanup`, `task_fails`, `sch_stop`, `StopJoin` |

Any thread of `MayFail` may fail, and any of `MayEnd` may end, or close one of
its inputs, before its EOF (a limit of duration or size, `trim`, `-shortest`
without a sync queue), `MaxUpsets` of them in a behaviour. The signal of the user
is `sch_stop` at any time.

`GraphAssumption` is what `sch_connect()` (`ffmpeg_sched.c:937-1105`) lets through:
a thread is of one kind, a decoder or encoder has one stream, each kind sends to
the kinds it may send to, and a stream has one source. The decoders that report
an end timestamp (`EndTs`) are those a demuxer feeds (`ffmpeg_demux.c:982`).

Left out: which source has to wait (`Scheduler`), heartbeats, several outputs of
one decoder, sources inside filtergraphs, filter commands, sync
queues (`SyncQueue`), the limits of pre-mux queues (`MuxStart`), failed
allocations, and subtitle decoders.

### 2.7 FrameThreads

The workers and the caller (`User`) hold and wait for the mutexes and condition
variables of `PerThreadContext`; a condition variable is the set of sleepers
(`sleeps`). The mutex of a worker is held at every place but `"input"`, and
`progress_mutex` is held within single actions. `async_lock` is a flag with a
condition, as in the code; `hwaccel_mutex` is a mutex.

The codec implements `update_thread_context()`, without
`AV_CODEC_CAP_DELAY`-specific output; each packet refers to the frame of the
last packet before it that was set up and waits for its rows. The context of a
worker is what can be told apart: `header`, the number of the packet it was set
up with last, and `refFrame`. `serial`, chosen at the start, says whether there
is a hwaccel that is neither thread-safe nor async-safe; its state is a token
that is with one worker (`hwaccel`) or with the decoder (`stash_hwaccel`).
A packet may be broken, and `update_thread_context()` may fail. The caller may
drain, flush and free at any time between its calls. A spurious wakeup would
repeat a test that fails and is a stutter here, because a sleeper's condition is
looked at again before it goes on.

Left out: thread-safe and async-safe hwaccels, threads that cannot be created,
`threadprogress.c` and `frame_thread_encoder.c`.

## 3. What the runs check

| Run | Question | Instance | Answer |
|---|---|---|---|
| `tq` | lost wakeups, the two FIFOs, lost or overtaken items, early EOF, `StreamChannel`; do blocked senders return, does EOF arrive, also from a queue that is left choked | 2 producers, 2 streams, 2 places, 2 items per stream, choked once, a write may fail | holds |
| `sched_chain` | may the sources of trailing streams run, whatever input a filtergraph asked for, and those of inputs it has closed; does `sch_stop()` return | a demuxer, a decoder, a filtergraph that is a source too, an encoder | holds |
| `sched_pair` | lost wakeups of sources, trailing streams, frozen queues, the fallback, with `sch_stop()` at any point of an update | two demuxers into one file, one decoded, one copied | holds |
| `sched_drain` | are the queues drained when `sch_stop()` comes in the middle of an update | the same | violated (finding 1) |
| `mux_start` | nothing stranded, flush in order, `StreamChannel`; does the flush get room in a queue full of what the muxer takes, or takes no more of, and end; does a muxer end | 3 streams of one muxer, 3 packets wait for 1 place, the muxer may close streams or end early, limits that are not reached | holds |
| `mux_lost` | and when the limits are reached | `max_packets` packets buffered at EOF | violated (finding 2) |
| `acyclic` | refused if and only if cyclic, stack bound, termination | all graphs of 3 filtergraphs with up to 2 inputs | holds |
| `sq` | does any stream get ahead of, or outlive, a limiting one; is one cut off for nothing; do samples add up; does EOF come, once | video, audio cut into frames of 2 samples, sparse packets; limits 0, 1 or none, with and without `-shortest` | holds |
| `pipe` | is everything that was read written where nobody disturbs it; are encoders opened; are end timestamps those of this loop; does transcoding end | a looped input, one stream decoded, filtered and encoded, one copied, into one file; two threads fail or end early, or a signal comes | holds |
| `pipe_split` | is an encoder opened that gets no frames while another one of its filtergraph does | a filtergraph with 2 inputs and 2 outputs, one without frames; nobody fails | violated (finding 4) |
| `pipe_chain` | does an EOF frame precede the EOF of an input of a filtergraph | a filtergraph that feeds another one; nobody fails | violated (finding 3) |
| `frame_threads` | frames in order, contexts in order, the hwaccel in turn; does each call return | 2 threads, 3 packets of 2 frames, a flush, a broken packet or failing update, with and without a hwaccel | holds |

`sched_pair` checks of the fallback (`SomeSourceRuns`) what the code does: one of the
sources that are left may run, unless there are trailing streams and all their
sources have exited. `have_unchoked` is set on behalf of those
(`ffmpeg_sched.c:1387`), and all others may be choked until what they sent has
reached the muxer.

`CHECK_DEADLOCK FALSE` stands where the system really stops: when all threads
have ended and were joined, the search is over, all streams are closed, or the
decoder is freed. The liveness properties of the same runs say that it gets
there. The thread queue never stops: its consumer goes on asking.

### 3.1 Bounds, and why they are enough

* `ThreadQueue`: `MaxItems` bounds the items of a stream and `MaxChokes` how often
  `tq_choke()` chokes the queue: once, before or after a stream is closed, and it
  may be unchoked again by `tq_choke()` or by `tq_send_finish()`, or left so. With two places and two items of each of two streams the queue fills up, is
  drained and fills again; two producers sleep at once, on the same stream or on
  different ones. The proofs have no such bounds on streams, places and
  producers, and hold for every value of these two.
* `Scheduler`: timestamps up to `MaxDts` = 1 with `SCHEDULE_TOLERANCE` = 1 make
  a stream behind, level or too far ahead; two sources are the least that can
  be told apart by the schedule; a queue with one place makes a demuxer block.
  In `sched_chain` a source is reached through the input of a filtergraph that
  is a source itself, and changes with what the filtergraph asked for.
* `MuxStart`: two packets and the EOF of a stream make a FIFO with one place grow
  (in `mux_lost` to its limit, which the EOF then exceeds). Three streams allow a
  stream that is behind in the flush while others wait for `mux_ready_lock`. The
  packets of the second stream, one of them without a dts, are to be flushed before
  that of the first. Three packets are flushed through one place, so that the flush
  waits with `mux_ready_lock` held, and the packet in its way may belong to the
  stream that the muxer has just closed while the one that waits is of the other.
  Within a stream the dts that are there increase or stay, without which the order
  of the flush is not promised (`DtsInOrder`). The run has one muxer; that muxers
  which are started together for an SDP file strand nothing and are reliable channels
  is in the theorems, which are about any number of them.
* `SyncQueue`: three streams let two of them lag behind the one that overflows;
  with two frames for each encoded stream a frame waits, goes out, and is
  followed by one that must not; audio frames of 1 and 3 samples are split and
  joined when cut into 2.
* `CheckAcyclic`: three filtergraphs with two inputs have cycles of every
  length up to the whole graph and nodes that are reached on two ways. The
  theorems are for every number of filtergraphs and inputs.
* `Pipeline`: one packet of each stream in each of two loops, behind a delay of
  one frame in the decoder and one in the filtergraph: the frame of the first
  loop is still held back when the flush comes, and that of the second at EOF.
  Queues with one place make every thread wait for the next one. Two upsets are
  a failure on one way with an early end on another, or a failure while another
  thread is already closing down.
* `FrameThreads`: two threads are the least, and each is then the previous one
  of the other; with three packets a thread is used again while the other one
  still decodes. Two frames make a packet stay in the worker over several calls.
  After one flush threads with old contexts are used again.

### 3.2 Fairness

Threads are weakly fair: a thread that can take a step takes one, which is what
the operating system gives. Mutexes and condition variables are not fair, but a
thread that competes for a mutex that is released again and again gets it
eventually; this is strong fairness of the actions that take `schedule_lock` or
`mux_ready_lock`. A spurious wakeup, a failed allocation, a call of `tq_choke()`
or `sch_stop()`, the opening of an encoder, the arrival of a packet, and the end
of an `Endless` input are never assumed. In `SyncQueue` the
caller that has sent something goes on receiving; that streams are closed is
never assumed. In `MuxStart` every input is assumed to
end, and no muxer to stop before its input does. In `Scheduler` a filtergraph all of whose inputs have ended, or that was
told to terminate, is assumed to end. In `Pipeline` every thread goes on when it
can, inputs end, and the main thread sees, as its wait in `sch_wait()` has a
timeout, that all muxers are done or that a task failed; nobody has to fail, end
early or give a signal. In `FrameThreads` a worker that can run does and a call
that was begun goes on; the caller need not call again.

## 4. What is proved

All proofs are checked by TLAPS with the SMT backend (Z3), Zenon and LS4.

`ThreadQueueProofs`, from `ThreadQueueAssumption`:

* `TypeCorrect`, and `NoWakeupIsLost`, `FifosStayInStep`, `NoItemIsLost`,
  `EofComesLast`: the invariants of run `tq`. The inductive invariant
  adds to them what a sleeping sender means for the flags (a sleeper's stream
  may be closed for sending), that an EOF that was reported has closed the
  receiving side, and the place of every item (`ItemInPlace`): item `n` of a
  stream, at position `k` of the FIFO, has at most as many items of its stream
  behind it as there are entries behind it. This is what bounds the capacity of
  the channel in the refinement.
* `QueueImplementsChannels`: `Spec => ImplementsChannels`, step by step: a
  receive is a `Deliver` of its stream; dropping items changes nothing, because
  they belong to channels that are closed; everything else is the action of the
  same name or a stutter.

The theorems hold for behaviours with failing writes, too. `tq_send()` writes the
stream index first and leaves it behind when the second write fails, without a
signal (`thread_queue.c:139-145`). From then on the index takes up a place, items
may be read with the index of another stream, and a wakeup may be missing; so
`NoLostWakeup`, `ItemsAccountedFor` and the channels are statements about what
comes before (`nomem` is `FALSE`). What remains after it is that an index can be
read for every item (`FifosInStep`, the assertion in `receive_locked()`), and, in
run `tq`, that EOF comes once and arrives.

`CheckAcyclicProofs`, from `CheckAcyclicAssumption`:

* `RefusedGraphsHaveCycles`: the stack and the current filtergraph are a way
  upstream (`WayUpstream`, `PositionsOK`), and those marked as started are the
  ones on it (`PathOnStack`), so that an input that comes from one of them
  closes a cycle.
* `AcceptedGraphsAreAcyclic`: everything the search has come back from is not
  part of a cycle (`ComeBackClean`). A filtergraph all of whose inputs are not
  part of cycles is not part of one either (`NotFedNotInCycle`); no induction on
  the graph is needed because a cycle is described as a set in which everybody
  is fed by somebody of the set.
* `StackIsTheWay`: no filtergraph is on the stack twice, and by the pigeonhole
  principle there are fewer entries than filtergraphs.
* `SearchTypeCorrect`.

`SchedulerProofs`, from `SchedulerAssumption`, for every graph, number of sources
and tolerance, with `sch_stop()` at any point:

* `NoSourceSleepsOn`, `TrailingSourcesRun`, `ClosedInputsRun`, `QueuesFollowTheirDemuxer`,
  `SomebodyRuns` (with the exception of `SomeSourceRuns`, section 3): the invariants of the runs `sched_chain` and `sched_pair`. The
  invariants speak of the time between updates, and an update takes many steps;
  so the inductive one says how far it has got (`UpdateInv`): only the thread
  with `schedule_lock` sets waiters as long as `terminate` is not set; what was
  read of a waiter is still so; what was decided on is good; a source it has come
  to is as decided and the others are as read. The frozen queues agree with the
  waiters but for the demuxer that was just set (`FreezeInv`). None of this is
  claimed once `terminate` is set (finding 1 is why); sleepers are woken all the same.
* `unchoke_for_stream` is a recursive function and opaque to the provers. The
  theorems are about the source it returns for a stream (`Needed`), whatever that
  is; that it goes to the right one is seen in `sched_chain`.

`MuxStartProofs`, from `MuxStartAssumption`, for any number of muxers and streams,
any limits and timings:

* `NothingIsStranded`: `send_to_mux()` writes to a FIFO only with `mux_ready_lock`
  free and the muxer not started, hence before its flush (`Begun`).
* `FlushIsInOrder`: with `DtsInOrder` as hypothesis, since the flush compares
  the first packets of the streams only.
* `WayImplementsChannels`: the refinement of run `mux_start`, for one muxer or several, with or without an
  SDP file.
  The inductive invariant says that a FIFO holds the packets accepted last and
  then the EOF (`FifoInv`); that what has left it (`Left`) and was not delivered is
  in the queue of the muxer, once and in order (`Carried`, the counterpart of
  `ItemInPlace`); that a FIFO never has more room than its limits allow
  (`RoomInv`, for which `data_size` has to be the number of packets until the
  flush); and that a stream that is closed for sending has an empty FIFO. An EOF
  in a FIFO counts as a closed sending side, so that its way through the flush is
  a stutter. The FIFO that refuses an EOF (finding 2) does not contradict it: a
  channel need not be closed.

`FrameThreadsProofs`, from `FrameThreadsAssumption`:

* `HwaccelIsUsedInTurn`, for any number of threads, packets, flushes and errors:
  the threads with a packet are a segment of the ring from `next_finished` to
  `next_decoding` (`RingInv`); only the last of them is being set up, and by then
  it has taken the stashed state (`SetupInv`); who has the hwaccel has
  `hwaccel_mutex` and, once set up, `async_lock`, which the caller holds outside
  of its calls.
* `SetupIsInOrder`: the thread that was given the last packet has the context of
  the packet that was set up last (`HeaderInv`), or will have it, since its packet
  is newer than all that were set up (`ToSetUpInv`). It hands that context on,
  unless it was given the empty packet; then the decoder is drained until the
  flush (`PrevInv`), from which on the context may be an old one (`OldContext`).
* `FramesAreInOrder`: going round the ring from `next_finished` the packets are in
  the order in which they were submitted, those with the empty packet last
  (`RingOrder`, `DrainInv`). There is a packet `c` up to which everything was
  handed out, or is about to be; what later ones gave is with a thread of the
  ring (`HandedOut`), in whole, with the error in its place (`FilledInv`). To
  move `c` one needs that the frames of the packets up to `c + 1` are those up to
  `c` followed by those of `c + 1`, which is `FlattenAppend`.

`SyncQueueProofs`, from `SyncQueueAssumption`, for any number of streams, frames,
limits and time bases, with overflowing timestamps:

* `SyncQueueInvariant`: types, streams are only added before anything is sent
  (`SetupOK`, `NothingSent`), and `EndsOK`: the streams that have ended are
  finished; `head_finished_stream` is one that has ended, with the earliest head
  of those that limit; and whatever else is finished has reached it.
  `CutOffForAReasonHolds`, `EofWhenAllClosedHolds` and `SamplesAddUpHolds` follow.
  The number of samples in a FIFO is a recursive function; how it changes
  when frames are appended, split and dropped comes from `SequenceInduction`.
* `OnlyTheLastIsShortHolds`: an encoder with a constant frame size has taken that
  many samples for each frame but the last, after which its stream is finished
  and has nothing left (`ShortOK`).
* `NoneGetsAheadHolds` and `NoneOutlivesTheShortestHolds`: the head stream is the
  one whose head is least of those that limit (`HeadOK`), and no stream that goes on
  has reached the head of `head_finished_stream` (`ReachedOK`). Their hypothesis,
  `HeadsConvert`, says that `tb_update()`, called with the first frame of a stream
  that has a head from a heartbeat, does not move that head. It rounds: with a
  time base of 1001/30000, say, the head may move by up to half a unit, and a frame
  that has just passed be ahead of it. `HeadsConvertHolds` shows that heads stay when
  the time bases divide a second, as those of the runs do, and the heads fit
  their 64 bits. The theorems say the rest for time bases of any kind.
* `NothingAfterEofHolds`, if no stream is limited to 0 frames. If the first stream
  that is added is, `finish_stream()` finds all streams there are finished, and
  the queue is finished before it is set up; `sq_receive()` then returns
  `AVERROR_EOF` for ever, except for frames without pts and duration of the other
  streams, which still come (section 5).

`PipelineProofs`, from `PipelineAssumption` and `GraphAssumption`, for every graph,
sizes of queues, delays and loops, and whoever fails or ends early:

* `TypeCorrect`.
* `EncodersAreOpened`, under `FramesForAll`: no filtergraph with several outputs leaves
  one of them without frames. Elsewhere it is false, as run `pipe_split` shows
  (finding 4). An encoder that is closed was opened unless something failed
  on the way to it. The inductive invariant (`EncInv`) says that any filtergraph or
  encoder is only closed after it was reached, unless something failed upstream
  (`ClosedInv`), a filtergraph on each of its inputs, so that it is
  configured by then; that an input of a filtergraph that has received nothing
  was not closed for another reason (`FreshInv`), since the EOF frame of a decoder
  stands before the EOF in its queue; and that a decoder or filtergraph has reached
  all it sends to, or has something to send in `todo` before the close
  (`OnTheWayInv`), which is a frame for every output, or, as long as `got_frame`
  is not set, the empty one.
* `EndTsAreOfThisLoop`: for each decoder that reports an end timestamp and the stream
  of the demuxer that feeds it (`EndTsInv`), the packets read are those the decoder
  has received, those in its queue, in order, and at most one in the hands of the
  demuxer (`Counted`, `AtDecoder`). The flush is behind all of them, and
  the demuxer waits from then on until the decoder has reported or closed
  (`Awaits`); so what is reported counts everything read in this loop (`Reported`).
* `NothingIsLost`, under `OneWay`. `FlowInv` says, for each stream of a muxer on
  whose way nobody has failed or ended early, and no filtergraph gives it no frames
  (`Fed`): there are numbers `n[x]` of packets
  or frames received so far on each stream `x` of that way, such that what lies
  between two threads is an interval. What is in the queue for `x`, followed by what
  its sender has in `todo` for it, followed by what the sender holds back, is
  `n[x] + 1, n[x] + 2, ...` up to what the sender has received itself, or read, if
  it is a demuxer (`Flows`); and the muxer has written `1, ..., n[y]`. The numbers
  exist only in the invariant; a step that receives moves one of them on. The rest of
  `FlowAt` says why the end of a stream does not cut the interval off: a sender that
  closes is over and holds nothing back (`LastToSend`); a stream that is closed on
  either side was sent in full, and received in full once the receiver is over
  (`ClosedWhenOver`); and at a filtergraph, which is flushed by the EOF frame only, that
  frame comes between the data and the close (`EofFirst`), so that the EOF of its
  stream finds it flushed. When `sch_stop()` has returned, all threads are gone
  (`StoppedInv`), all intervals are empty, and going upstream from the muxer all
  `n[x]` are equal, up to `nb_read` of the demuxer.

  `OneWay` has four parts. Every stream has a source (`start_prepare()` refuses other
  graphs) and what is muxed comes from a demuxer; with a filtergraph that has no input
  `ReadFor` speaks of nothing. Each filtergraph has one input, since with two a frame
  of its output has no number, and feeds no other filtergraph: there `NothingLost` is
  false, as in the instance of finding 3 (run `pipe_chain`). The graph of run
  `pipe` satisfies it.

A stream has one source (`GraphAssumption`), which is what makes "the demuxer that
feeds it" one thread; `Path(d)` is the least set closed under going upstream.

`SequenceInduction` has the induction that the others need, as facts about sets of
numbers (`SetInduction`, `BoundedInduction`, from the theorem that the order of the
natural numbers is well-founded), and what they give for `FlattenSeq` and for
functions that are defined recursively on `0 .. n`.

Only model checked:

* liveness (`SenderReturns`, `EofArrives`, `EofUnchokes`, `StopReturns`, `FlushEnds`, `MuxerEnds`,
  `Terminates`, `ReceivingEnds`, `TranscodingEnds`, `CallReturns`), which is out of
  the prover's reach;
* which source `unchoke_for_stream` comes to.

## 5. Findings

1. `sch_stop()` does not take `schedule_lock`, and an update that is past its
   look at `terminate` undoes its work: the queue of a decoder is frozen after
   it was unfrozen for draining (`sched_drain`), and the demuxer that waits for
   room in it is never joined. In the same way the waiter of a demuxer may be
   unchoked after `sch_stop()` has choked it, contrary to the comment at
   `ffmpeg_sched.c:1352`.
2. The EOF of a stream is lost when it does not fit into the pre-mux queue
   (`mux_lost`); nobody looks at the error.
3. A filtergraph that feeds another one closes it with `NULL`, without the EOF
   frame that only decoders send (`pipe_chain`). `sch_filter_receive()`
   disregards the EOF of a single stream because it "should always be preceded
   by an EOF frame" (`ffmpeg_sched.c:2497`), so the second filtergraph never
   calls `send_eof()` for that input, ends when its whole queue is closed, and
   what its filters held back is lost.
4. `close_output()` opens an encoder with an empty frame when "no frames were ever
   seen at this output" (`ffmpeg_filter.c:2624`), but looks at `got_frame`, which is
   one flag for all outputs of a filtergraph (`pipe_split`). The encoder of an output
   without frames, beside one with frames, gets EOF before it was opened and
   fails (`ffmpeg_enc.c:891`), and the muxer never starts.

1 needs `sch_stop()` to be called while transcoding is in progress (a signal or
an error in another thread) and at the moment between two loads of an update. 2
needs a stream that ends with exactly `max_packets` packets buffered while the
encoder of another stream of the muxer has yet to be opened. 3 needs
a complex filtergraph whose output is the input of another one, and a filter that
holds frames back in the second. 4 needs a complex filtergraph with two outputs and
a filter, like `select` or `trim`, that lets nothing through on the way to one of
them.

`SyncQueue` also shows, without a run of its own, that
* the limit of `sq_limit_frames()` (`sync_queue.h:68`) counts the frames that the
  samples sent so far would make; the samples beyond the limit still come out, in
  one or more further frames, so that `-frames:a N` may encode more than `N`
  frames when those of the filtergraph are not as long as those of the encoder;
* a packet without `pts` that has a duration is not "passed through with no
  conditions" (`sync_queue.c:531`): `frame_end()` is then `AV_NOPTS_VALUE` plus
  the duration, and before there is a head stream the packet waits;
* the queue may buffer more than `buf_size_us` (`sync_queue.h:51`):
  `overflow_heartbeat()` looks only at the stream that is most ahead, which may
  have ended, while another one grows;
* a time base that does not divide a second can move the head of a stream by
  the rounding of `tb_update()` when its first frame comes after a heartbeat.
  The instances have time bases that do, and the theorems that depend on it
  say so (`HeadsConvert`);
* if the first stream that is added is limited to no frames, the queue is finished
  from the start, and frames of other streams that have neither pts nor duration
  are returned after `AVERROR_EOF`, which stands for "no more frames will be
  available" (`sync_queue.h:112`). The muxer ends with the first `AVERROR_EOF`, and
  frames for encoders have a pts, so that neither user meets this; the instance
  has no such frames.

A limit of the code that `Pipeline` has to respect: `demux_flush()` returns the
`AVERROR_EOF` of one decoder that has closed its queue, and `input_thread()` then
ends the loops although other streams of the input go on (`ffmpeg_sched.c:2062`).

`FrameThreads` shows that the context from which decoding starts after a flush may
be an old one: while draining, contexts are not updated, since the codec "will
always return EOF anyway" (`pthread_frame.c:531`), but `ff_thread_flush()` then
copies the context of the last thread that was given the empty packet
(`pthread_frame.c:983`). `SetupInOrder` allows for it.

Two comments on the pre-mux queue are not what the code does, without a
consequence the model shows: `data_size` is not updated when packets are pulled
(`ffmpeg_sched.c:181`), and more than `max_packets` packets may be buffered
(`ffmpeg_sched.h:282`), because the limit is only looked at when the FIFO has to
grow. `NewRoom` and `Queued` model both.

## 6. Plan

In this order; each module with its runs, and theorems where the argument is
not a matter of size.

1. Done: `ThreadQueue`, `Scheduler`, `MuxStart`, `CheckAcyclic`, `FrameThreads`,
   `SyncQueue` and `Pipeline`, with their proofs.
2. `Pipeline` with heartbeats: the muxer thread waits for room in the queues of
   subtitle decoders, against the direction of the data, and may close a cycle
   of waiting. Together with `Scheduler`: whether the sources of trailing streams
   that have exited always leave another one to run in the end.
3. `AVFifo`: the ring buffer refines a bounded sequence, growing included; to be
   proved. `ThreadMessage`: the message queue, compared with `StreamChannel`.
4. `SliceThread`, `Executor`, `FrameThreadEncoder`, `RefPool`.
5. Proofs: `AVFifo`; for `Pipeline` with several inputs of a filtergraph, that the
   packets of each are muxed in order.
6. Candidates after that: `async.c`, the FIFO muxer, the status of filter links,
   the queues of `ffplay`.

Not modelled, and not planned: codecs, formats, filters, scaling, resampling and
devices (arithmetic on data), option parsing, probing and printing (sequential),
`tq_free()` and `sch_free()` (called when no thread is left).
