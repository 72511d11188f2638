----------------------------- MODULE Scheduler -----------------------------
(***************************************************************************)
(* Which sources may run: the choking part of fftools/ffmpeg_sched.c.      *)
(*                                                                         *)
(* Demuxers and filtergraphs are the sources of the transcoding graph.     *)
(* Each has a waiter, and schedule_update_locked() keeps the sources of    *)
(* the trailing output streams running while the others wait; a demuxer    *)
(* that has to wait also has the queues of its decoders frozen.  Updates   *)
(* run under schedule_lock, one load or store of shared memory per step;   *)
(* sch_stop() takes no lock, so its steps come in between theirs.          *)
(*                                                                         *)
(* Packets are counted and not told apart (ThreadQueue has them in full).  *)
(* Encoders and muxers are here by what they do under schedule_lock, by    *)
(* the thread "worker".                                                    *)
(***************************************************************************)
EXTENDS Integers, Sequences, FiniteSets, FiniteSetsExt, Functions

CONSTANTS
  DemuxSeq,     (* sch->demux, in order                                    *)
  FilterSeq,    (* sch->filters, in order                                  *)
  Decs, Encs,   (* sch->dec and sch->enc; loopback decoders are left out   *)
  MuxStreams,   (* the streams of all muxers                               *)
  Muxes,        (* sch->mux: which of the streams are whose                *)
  Src,          (* the source of each decoder, encoder and muxer stream    *)
  Inputs,       (* fg->inputs: the sources of a filtergraph's inputs       *)
  FirstDsts,    (* decoders that come first among the destinations of      *)
                (* their demuxer's stream                                  *)
  Tolerance,    (* SCHEDULE_TOLERANCE                                      *)
  QueueSize,    (* room in the queue of a decoder                          *)
  Endless,      (* demuxers whose input has no end                         *)
  MaxDts,       (* bound: the largest dts                                  *)
  MayStop       (* FALSE: sch_stop() is not called                         *)

Demuxers  == Range(DemuxSeq)
Filters   == Range(FilterSeq)
Sources   == Demuxers \cup Filters
SourceSeq == DemuxSeq \o FilterSeq

NOPTS == -1     (* AV_NOPTS_VALUE                                          *)
None  == "none"

ASSUME SchedulerAssumption ==
  /\ DemuxSeq \in Seq(Demuxers) /\ FilterSeq \in Seq(Filters)
  /\ Demuxers \cap Filters = {} /\ Sources \cap Decs = {}
  /\ (Sources \cup Decs) \cap {"main", "worker", None} = {}
  /\ Muxes \subseteq SUBSET MuxStreams
  /\ Src \in [Decs \cup Encs \cup MuxStreams -> Sources \cup Decs \cup Encs]
  /\ \A x \in Decs : Src[x] \in Demuxers
  /\ Inputs \in [Filters -> Seq(Sources \cup Decs)]
  /\ FirstDsts \subseteq Decs
  /\ Tolerance \in Nat \ {0}
  /\ QueueSize \in Nat \ {0}
  /\ Endless \subseteq Demuxers
  /\ MaxDts \in Nat
  /\ MayStop \in BOOLEAN

VARIABLES
  terminate,        (* sch->terminate                                      *)
  lock,             (* the thread that holds schedule_lock                 *)
  phase,            (* where that thread is in schedule_update_locked()    *)
  todo,             (* the sources its current loop has yet to look at     *)
  choked_prev,      (* SchWaiter: what the update found, ...               *)
  choked_next,      (* ... what it decided (FALSE after it), ...           *)
  choked,           (* ... and what the source looks at                    *)
  last_dts,         (* SchMuxStream                                        *)
  source_finished,  (* SchMuxStream                                        *)
  best_input,       (* SchFilterGraph, counted from 1                      *)
  send_finished,    (* SchFilterIn                                         *)
  receive_finished, (* SchFilterIn                                         *)
  task_exited,      (* SchDemux and SchFilterGraph                         *)
  frozen,           (* tq->choked of the decoders' queues                  *)
  queued,           (* packets in the decoders' queues                     *)
  sendClosed,       (* FINISHED_SEND of the decoders' queues               *)
  recvClosed,       (* FINISHED_RECV of the decoders' queues               *)
  pc,               (* where each thread is                                *)
  stopping          (* the sources the loop of sch_stop() has yet to do    *)

updateVars == <<lock, phase, todo, choked_prev, choked_next>>
streamVars == <<last_dts, source_finished>>
graphVars  == <<best_input, send_finished, receive_finished, task_exited>>
queueVars  == <<frozen, queued, sendClosed, recvClosed>>
vars == <<terminate, lock, phase, todo, choked_prev, choked_next, choked,
          last_dts, source_finished, best_input, send_finished,
          receive_finished, task_exited, frozen, queued, sendClosed,
          recvClosed, pc, stopping>>

DecsOf(d) == {x \in Decs : Src[x] = d}

-----------------------------------------------------------------------------
(* The decision.                                                           *)

Unfinished == {m \in MuxStreams : ~source_finished[m]}

(* trailing_dts(sch, 0)                                                    *)
trailing_dts ==
  IF Unfinished = {} \/ \E m \in Unfinished : last_dts[m] = NOPTS
  THEN NOPTS
  ELSE Min({last_dts[m] : m \in Unfinished})

(* Output streams that are not finished and not too far ahead.             *)
Wanted ==
  {m \in Unfinished :
     IF trailing_dts = NOPTS THEN last_dts[m] = NOPTS
                             ELSE last_dts[m] - trailing_dts < Tolerance}

(* The source at the upstream end of node n, following in a filtergraph    *)
(* the input it asked for last; the filtergraph itself when it asked for   *)
(* none.                                                                   *)
unchoke_for_stream[n \in Sources \cup Decs \cup Encs] ==
  IF n \in Demuxers THEN n
  ELSE IF n \in Decs \cup Encs THEN unchoke_for_stream[Src[n]]
  ELSE IF best_input[n] > Len(Inputs[n]) THEN n
  ELSE unchoke_for_stream[Inputs[n][best_input[n]]]

(* Sources that feed an input which takes nothing any more, for them to    *)
(* find out.                                                               *)
ToldOfEof ==
  UNION {{unchoke_for_stream[Inputs[f][i]] :
            i \in {j \in DOMAIN Inputs[f] : receive_finished[f][j] /\ ~send_finished[f][j]}} :
         f \in Filters}

(* At least one source is to run, if one is left: the first one that has   *)
(* not exited.                                                             *)
Fallback ==
  LET alive == {i \in DOMAIN SourceSeq : ~task_exited[SourceSeq[i]]}
  IN  IF Wanted # {} THEN {}
      ELSE {SourceSeq[i] : i \in {k \in alive : \A j \in alive : k <= j}}

Allowed == {unchoke_for_stream[Src[m]] : m \in Wanted} \cup ToldOfEof \cup Fallback

-----------------------------------------------------------------------------
(* schedule_lock is taken by thread t, which has made its changes and goes *)
(* on to schedule_update_locked().                                         *)
Update(t) ==
  /\ lock = None
  /\ lock' = t
  /\ phase' = "check"
  /\ UNCHANGED <<todo, choked_prev, choked_next>>

Unlock ==
  /\ lock' = None
  /\ phase' = "idle"
  /\ choked_prev' = [w \in Sources |-> FALSE]
  /\ choked_next' = [w \in Sources |-> FALSE]

(* Mutant: nobody is signalled.                                            *)
waiter_set_silent(w, c) ==
  /\ choked' = [choked EXCEPT ![w] = c]
  /\ UNCHANGED pc

(* waiter_set(): the flag, and a signal for the source that may sleep.     *)
waiter_set(w, c) ==
  /\ choked' = [choked EXCEPT ![w] = c]
  /\ pc' = [pc EXCEPT ![w] = IF @ = "asleep" THEN "locking" ELSE @]

(* choke_demux(): only the first destination of a stream is looked at.     *)
choke_demux(d, c) ==
  frozen' = [x \in Decs |-> IF x \in DecsOf(d) \cap FirstDsts THEN c ELSE frozen[x]]

UpdateCheck ==
  /\ phase = "check"
  /\ \/ /\ terminate
        /\ Unlock
        /\ UNCHANGED todo
     \/ /\ ~terminate
        /\ phase' = "load"
        /\ todo' = SourceSeq
        /\ UNCHANGED <<lock, choked_prev, choked_next>>
  /\ UNCHANGED <<terminate, choked, streamVars, graphVars, queueVars, pc, stopping>>

UpdateLoad ==
  /\ phase = "load"
  /\ todo # <<>>
  /\ choked_prev' = [choked_prev EXCEPT ![Head(todo)] = choked[Head(todo)]]
  /\ todo' = Tail(todo)
  /\ UNCHANGED <<terminate, lock, phase, choked_next, choked, streamVars, graphVars,
                 queueVars, pc, stopping>>

UpdateDecide ==
  /\ phase = "load"
  /\ todo = <<>>
  /\ phase' = "set"
  /\ choked_next' = [w \in Sources |-> w \notin Allowed]
  /\ todo' = SourceSeq
  /\ UNCHANGED <<terminate, lock, choked_prev, choked, streamVars, graphVars, queueVars, pc,
                 stopping>>

(* Waiters that do not change are left alone; the others are set, and with *)
(* a demuxer the queues behind it.                                         *)
Changes(w) == choked_prev[w] # choked_next[w]

UpdateSet ==
  /\ phase = "set"
  /\ \E i \in DOMAIN todo :
       /\ Changes(todo[i]) /\ \A j \in 1 .. i - 1 : ~Changes(todo[j])
       /\ waiter_set(todo[i], choked_next[todo[i]])
       /\ IF todo[i] \in Demuxers
          THEN phase' = "freeze" /\ todo' = SubSeq(todo, i, Len(todo))
          ELSE todo' = SubSeq(todo, i + 1, Len(todo)) /\ UNCHANGED phase
  /\ UNCHANGED <<terminate, lock, choked_prev, choked_next, streamVars, graphVars,
                 queueVars, stopping>>

(* Mutant: a source that may run again has its queues left frozen.         *)
UpdateFreezeOnly ==
  /\ phase = "freeze"
  /\ choke_demux(Head(todo), TRUE)
  /\ phase' = "set"
  /\ todo' = Tail(todo)
  /\ UNCHANGED <<terminate, lock, choked_prev, choked_next, choked, streamVars,
                 graphVars, queued, sendClosed, recvClosed, pc, stopping>>

UpdateFreeze ==
  /\ phase = "freeze"
  /\ choke_demux(Head(todo), choked_next[Head(todo)])
  /\ phase' = "set"
  /\ todo' = Tail(todo)
  /\ UNCHANGED <<terminate, lock, choked_prev, choked_next, choked, streamVars,
                 graphVars, queued, sendClosed, recvClosed, pc, stopping>>

UpdateDone ==
  /\ phase = "set"
  /\ \A i \in DOMAIN todo : ~Changes(todo[i])
  /\ Unlock
  /\ todo' = <<>>
  /\ UNCHANGED <<terminate, choked, streamVars, graphVars, queueVars, pc, stopping>>

schedule_update_locked ==
  \/ UpdateCheck \/ UpdateLoad \/ UpdateDecide
  \/ UpdateSet \/ UpdateFreeze \/ UpdateDone

-----------------------------------------------------------------------------
(* Encoder and muxer threads, and demuxers that copy streams.              *)

(* send_to_mux() with a packet.                                            *)
send_to_mux(m, t) ==
  /\ pc["main"] # "stopped"
  /\ Update("worker")
  /\ last_dts' = [last_dts EXCEPT ![m] = t]
  /\ UNCHANGED <<terminate, choked, source_finished, graphVars, queueVars, pc, stopping>>

(* Mutant: the schedule is not updated.                                    *)
finish_streams_silent(S) ==
  /\ pc["main"] # "stopped"
  /\ lock = None
  /\ \E m \in S : ~source_finished[m]
  /\ source_finished' = [m \in MuxStreams |-> m \in S \/ source_finished[m]]
  /\ UNCHANGED <<terminate, updateVars, choked, last_dts, graphVars, queueVars, pc, stopping>>

(* The streams S take no more packets: send_to_mux() without a packet and  *)
(* sch_mux_receive_finish() for one, mux_done() for all streams of a muxer.*)
finish_streams(S) ==
  /\ pc["main"] # "stopped"
  /\ \E m \in S : ~source_finished[m]
  /\ Update("worker")
  /\ source_finished' = [m \in MuxStreams |-> m \in S \/ source_finished[m]]
  /\ UNCHANGED <<terminate, choked, last_dts, graphVars, queueVars, pc, stopping>>

-----------------------------------------------------------------------------
(* waiter_wait(), the same for both kinds of sources.                      *)

Goto(t, l) == pc' = [pc EXCEPT ![t] = l]

Proceed(w)   == Goto(w, IF w \in Demuxers THEN "putting" ELSE "running")
WaiterUnchanged ==
  UNCHANGED <<terminate, updateVars, choked, streamVars, graphVars, queueVars, stopping>>

(* The first look at choked takes no lock.                                 *)
waiter_look(w) ==
  /\ pc[w] = "waiter"
  /\ lock # w
  /\ IF choked[w] THEN Goto(w, "locking") ELSE Proceed(w)
  /\ WaiterUnchanged

(* The loop, under the waiter's lock.                                      *)
waiter_wait(w) ==
  /\ pc[w] = "locking"
  /\ \/ choked[w] /\ ~terminate /\ Goto(w, "asleep")
     \/ ~choked[w] /\ ~terminate /\ Proceed(w)
     \/ terminate /\ Goto(w, "done")
  /\ WaiterUnchanged

SpuriousWakeup(w) ==
  /\ pc[w] = "asleep"
  /\ Goto(w, "locking")
  /\ WaiterUnchanged

-----------------------------------------------------------------------------
(* Demuxer threads.                                                        *)

(* A packet was read and goes to sch_demux_send().                         *)
demux_read(d) ==
  /\ pc[d] = "reading"
  /\ Goto(d, "waiter")
  /\ WaiterUnchanged

(* The end of the input.                                                   *)
demux_eof(d) ==
  /\ d \notin Endless
  /\ pc[d] = "reading"
  /\ Goto(d, "done")
  /\ WaiterUnchanged

(* A packet for decoder x is put into its queue, once there is room; when  *)
(* the decoder takes no more, the queue is closed.                         *)
demux_send(d, x) ==
  /\ pc[d] = "putting"
  /\ Goto(d, "reading")
  /\ \/ /\ ~sendClosed[x]
        /\ ~recvClosed[x]
        /\ queued[x] < QueueSize
        /\ queued' = [queued EXCEPT ![x] = @ + 1]
        /\ UNCHANGED <<frozen, sendClosed, recvClosed>>
     \/ /\ ~sendClosed[x]
        /\ recvClosed[x]
        /\ sendClosed' = [sendClosed EXCEPT ![x] = TRUE]
        /\ frozen' = [frozen EXCEPT ![x] = FALSE]
        /\ UNCHANGED <<queued, recvClosed>>
     \/ /\ sendClosed[x]
        /\ UNCHANGED queueVars
  /\ UNCHANGED <<terminate, updateVars, choked, streamVars, graphVars, stopping>>

(* A packet for streamcopy: its send_to_mux() is one of the worker's.      *)
demux_copy(d) ==
  /\ pc[d] = "putting"
  /\ \E m \in MuxStreams : Src[m] = d
  /\ Goto(d, "reading")
  /\ WaiterUnchanged

(* demux_done(): the decoders are sent EOF, which also unfreezes them, ... *)
demux_done(d) ==
  /\ pc[d] = "done"
  /\ sendClosed' = [x \in Decs |-> x \in DecsOf(d) \/ sendClosed[x]]
  /\ frozen' = [x \in Decs |-> frozen[x] /\ (x \in DecsOf(d) => sendClosed[x])]
  /\ Goto(d, "exiting")
  /\ UNCHANGED <<terminate, updateVars, choked, streamVars, graphVars, queued, recvClosed, stopping>>

(* Mutant: no update when a source exits.                                  *)
source_exit_silent(w) ==
  /\ pc[w] = "exiting"
  /\ lock = None
  /\ task_exited' = [task_exited EXCEPT ![w] = TRUE]
  /\ Goto(w, "exited")
  /\ UNCHANGED <<terminate, updateVars, choked, streamVars, best_input, send_finished,
                 receive_finished, queueVars, stopping>>

(* ... and the thread exits, after a last update; filter_done() ends so    *)
(* too.                                                                    *)
source_exit(w) ==
  /\ pc[w] = "exiting"
  /\ Update(w)
  /\ task_exited' = [task_exited EXCEPT ![w] = TRUE]
  /\ Goto(w, "exited")
  /\ UNCHANGED <<terminate, choked, streamVars, best_input, send_finished, receive_finished,
                 queueVars, stopping>>

-----------------------------------------------------------------------------
(* Decoder threads.                                                        *)

(* sch_dec_receive() returns a packet.                                     *)
sch_dec_receive(x) ==
  /\ pc[x] = "running"
  /\ ~frozen[x]
  /\ queued[x] > 0
  /\ queued' = [queued EXCEPT ![x] = @ - 1]
  /\ UNCHANGED <<terminate, updateVars, choked, streamVars, graphVars, frozen, sendClosed,
                 recvClosed, pc, stopping>>

(* The decoder got its EOF, or has nobody left to decode the packet for:   *)
(* dec_done() closes its queue ...                                         *)
dec_done(x) ==
  /\ pc[x] = "running"
  /\ ~frozen[x]
  /\ queued[x] > 0 \/ sendClosed[x]
  /\ queued' = [queued EXCEPT ![x] = 0]
  /\ recvClosed' = [recvClosed EXCEPT ![x] = TRUE]
  /\ Goto(x, "flushing")
  /\ UNCHANGED <<terminate, updateVars, choked, streamVars, graphVars, frozen, sendClosed, stopping>>

(* The inputs node n feeds are told its EOF: send_to_filter(), which takes *)
(* no lock.                                                                *)
SendFiltersEof(n) ==
  send_finished' = [f \in Filters |-> [i \in DOMAIN Inputs[f] |->
                      Inputs[f][i] = n \/ send_finished[f][i]]]

(* ... and sends EOF to its destinations.                                  *)
dec_flush(x) ==
  /\ pc[x] = "flushing"
  /\ SendFiltersEof(x)
  /\ Goto(x, "exited")
  /\ UNCHANGED <<terminate, updateVars, choked, streamVars, best_input, receive_finished,
                 task_exited, queueVars, stopping>>

-----------------------------------------------------------------------------
(* Filtergraph threads.                                                    *)

AllInputsEof(f) == \A i \in DOMAIN Inputs[f] : send_finished[f][i]

(* Mutant: the schedule is not updated when another input is asked for.    *)
sch_filter_receive_silent(f, i) ==
  /\ pc[f] = "running"
  /\ i # best_input[f]
  /\ lock = None
  /\ best_input' = [best_input EXCEPT ![f] = i]
  /\ IF i > Len(Inputs[f]) THEN Goto(f, "waiter") ELSE UNCHANGED pc
  /\ UNCHANGED <<terminate, updateVars, choked, streamVars, send_finished, receive_finished,
                 task_exited, queueVars, stopping>>

(* sch_filter_receive() asks for another input than the last time, or for  *)
(* none; when it asks for none it goes on to waiter_wait().                *)
sch_filter_receive(f, i) ==
  /\ pc[f] = "running"
  /\ i # best_input[f]
  /\ Update(f)
  /\ best_input' = [best_input EXCEPT ![f] = i]
  /\ IF i > Len(Inputs[f]) THEN Goto(f, "waiter") ELSE UNCHANGED pc
  /\ UNCHANGED <<terminate, choked, streamVars, send_finished, receive_finished, task_exited,
                 queueVars, stopping>>

(* sch_filter_receive() asks for no input once more.                       *)
sch_filter_receive_none(f) ==
  /\ pc[f] = "running"
  /\ lock # f
  /\ best_input[f] > Len(Inputs[f])
  /\ Goto(f, "waiter")
  /\ WaiterUnchanged

(* Mutant: the schedule is not updated.                                    *)
sch_filter_receive_finish_silent(f, i) ==
  /\ pc[f] = "running"
  /\ ~receive_finished[f][i]
  /\ lock = None
  /\ receive_finished' = [receive_finished EXCEPT ![f][i] = TRUE]
  /\ UNCHANGED <<terminate, updateVars, choked, streamVars, best_input, send_finished,
                 task_exited, queueVars, pc, stopping>>

(* It takes nothing more from an input.                                    *)
sch_filter_receive_finish(f, i) ==
  /\ pc[f] = "running"
  /\ ~receive_finished[f][i]
  /\ Update(f)
  /\ receive_finished' = [receive_finished EXCEPT ![f][i] = TRUE]
  /\ UNCHANGED <<terminate, choked, streamVars, best_input, send_finished, task_exited,
                 queueVars, pc, stopping>>

sch_filter_choke_inputs(f) ==
  /\ pc[f] = "running"
  /\ Update(f)
  /\ best_input' = [best_input EXCEPT ![f] = Len(Inputs[f]) + 1]
  /\ UNCHANGED <<terminate, choked, streamVars, send_finished, receive_finished, task_exited,
                 queueVars, pc, stopping>>

(* The thread is at its end: all inputs are, or all outputs are closed.    *)
(* filter_done() tells the filtergraphs downstream.                        *)
filter_done(f) ==
  /\ pc[f] \in {"running", "done"}
  /\ lock # f
  /\ SendFiltersEof(f)
  /\ Goto(f, "exiting")
  /\ UNCHANGED <<terminate, updateVars, choked, streamVars, best_input, receive_finished,
                 task_exited, queueVars, stopping>>

-----------------------------------------------------------------------------
(* The main thread.                                                        *)

(* The end of sch_start(): all tasks run, and the first update is due.     *)
sch_start ==
  /\ pc["main"] = "starting"
  /\ Update("main")
  /\ Goto("main", "started")
  /\ UNCHANGED <<terminate, choked, streamVars, graphVars, queueVars, stopping>>

(* sch_stop(): terminate is set, ...                                       *)
sch_stop ==
  /\ MayStop
  /\ pc["main"] = "started"
  /\ lock # "main"
  /\ terminate' = TRUE
  /\ stopping' = FilterSeq \o DemuxSeq
  /\ Goto("main", "choking")
  /\ UNCHANGED <<updateVars, choked, streamVars, graphVars, queueVars>>

(* ... then the waiters, one after the other, filtergraphs first; ...      *)
StopChoke ==
  LET w == Head(stopping) IN
  /\ pc["main"] = "choking"
  /\ stopping # <<>>
  /\ choked' = [choked EXCEPT ![w] = TRUE]
  /\ pc' = [pc EXCEPT ![w] = IF @ = "asleep" THEN "locking" ELSE @,
                      !["main"] = IF w \in Demuxers THEN "unfreezing" ELSE @]
  /\ stopping' = IF w \in Demuxers THEN stopping ELSE Tail(stopping)
  /\ UNCHANGED <<terminate, updateVars, streamVars, graphVars, queueVars>>

(* Mutant: they are left frozen.                                           *)
StopLeaveFrozen ==
  /\ pc["main"] = "unfreezing"
  /\ stopping' = Tail(stopping)
  /\ Goto("main", "choking")
  /\ UNCHANGED <<terminate, updateVars, choked, streamVars, graphVars, queueVars>>

(* ... the queues behind a demuxer are unfrozen, to drain.                 *)
StopUnfreeze ==
  /\ pc["main"] = "unfreezing"
  /\ choke_demux(Head(stopping), FALSE)
  /\ stopping' = Tail(stopping)
  /\ Goto("main", "choking")
  /\ UNCHANGED <<terminate, updateVars, choked, streamVars, graphVars, queued, sendClosed, recvClosed>>

(* All threads are joined.                                                 *)
StopJoin ==
  /\ pc["main"] = "choking"
  /\ stopping = <<>>
  /\ lock = None
  /\ \A t \in Sources \cup Decs : pc[t] = "exited"
  /\ Goto("main", "stopped")
  /\ UNCHANGED <<terminate, updateVars, choked, streamVars, graphVars, queueVars, stopping>>

-----------------------------------------------------------------------------
(* The state after the tasks were started by sch_start().                  *)
Init ==
  /\ terminate = FALSE
  /\ lock = None
  /\ phase = "idle"
  /\ todo = <<>>
  /\ choked_prev = [w \in Sources |-> FALSE]
  /\ choked_next = [w \in Sources |-> FALSE]
  /\ choked = [w \in Sources |-> FALSE]
  /\ last_dts = [m \in MuxStreams |-> NOPTS]
  /\ source_finished = [m \in MuxStreams |-> FALSE]
  /\ best_input = [f \in Filters |-> 1]
  /\ send_finished = [f \in Filters |-> [i \in DOMAIN Inputs[f] |-> FALSE]]
  /\ receive_finished = [f \in Filters |-> [i \in DOMAIN Inputs[f] |-> FALSE]]
  /\ task_exited = [w \in Sources |-> FALSE]
  /\ frozen = [x \in Decs |-> FALSE]
  /\ queued = [x \in Decs |-> 0]
  /\ sendClosed = [x \in Decs |-> FALSE]
  /\ recvClosed = [x \in Decs |-> FALSE]
  /\ pc = [t \in Sources \cup Decs \cup {"main"} |->
             IF t = "main" THEN "starting"
             ELSE IF t \in Demuxers THEN "reading" ELSE "running"]
  /\ stopping = <<>>

DemuxNext(d) ==
  \/ demux_read(d) \/ demux_eof(d) \/ demux_copy(d) \/ demux_done(d)
  \/ \E x \in DecsOf(d) : demux_send(d, x)
FilterNext(f) ==
  \/ \E i \in 1 .. Len(Inputs[f]) + 1 : sch_filter_receive(f, i)
  \/ sch_filter_receive_none(f) \/ sch_filter_choke_inputs(f) \/ filter_done(f)
  \/ \E i \in DOMAIN Inputs[f] : sch_filter_receive_finish(f, i)
DecNext(x)  == sch_dec_receive(x) \/ dec_done(x) \/ dec_flush(x)
WaiterNext(w) == waiter_look(w) \/ waiter_wait(w)
StopNext == StopChoke \/ StopUnfreeze \/ StopJoin
WorkerNext ==
  \/ \E m \in MuxStreams, t \in 0 .. MaxDts : send_to_mux(m, t)
  \/ \E S \in {{m} : m \in MuxStreams} \cup Muxes : finish_streams(S)

Next ==
  \/ schedule_update_locked
  \/ WorkerNext
  \/ \E w \in Sources : WaiterNext(w) \/ SpuriousWakeup(w) \/ source_exit(w)
  \/ \E d \in Demuxers : DemuxNext(d)
  \/ \E f \in Filters : FilterNext(f)
  \/ \E x \in Decs : DecNext(x)
  \/ sch_start \/ sch_stop \/ StopNext

Spec == Init /\ [][Next]_vars

(* Threads run on unless they wait, and a mutex that is released again and *)
(* again is got at some point: strong fairness of what a demuxer and the   *)
(* main thread do, as both take schedule_lock.  A filtergraph may make     *)
(* any calls in between, but it gets to waiter_wait(), and finds out that  *)
(* all its inputs ended when it asks for the next frame.  An input may be  *)
(* endless, nothing has to be sent, and nobody has to call sch_stop().     *)
FairSpec ==
  /\ Spec
  /\ WF_vars(schedule_update_locked)
  /\ SF_vars(StopNext)
  /\ \A d \in Demuxers : SF_vars(WaiterNext(d) \/ DemuxNext(d) \/ source_exit(d))
  /\ \A f \in Filters :
       /\ SF_vars(WaiterNext(f) \/ source_exit(f) \/ sch_filter_receive_none(f))
       /\ SF_vars(/\ pc[f] = "done" \/ (Inputs[f] # <<>> /\ AllInputsEof(f))
                  /\ filter_done(f))
  /\ \A x \in Decs : WF_vars(DecNext(x))

-----------------------------------------------------------------------------
(* Nobody is updating the schedule, or was told to stop.                   *)
Settled == lock = None /\ ~terminate

(* A source sleeps in waiter_wait() only while it is choked, and after     *)
(* terminate is set only until sch_stop() comes to its waiter: the look at *)
(* choked outside of the lock and the single signal of waiter_set() lose   *)
(* no wakeup.                                                              *)
SleepersAreChoked ==
  \A w \in Sources :
    pc[w] = "asleep" => choked[w] /\ (terminate => w \in Range(stopping))

(* The sources of the output streams that are within the tolerance of the  *)
(* trailing one.                                                           *)
TrailingSources == {w \in Sources : \E m \in Wanted : unchoke_for_stream[Src[m]] = w}

(* Whenever the schedule has settled these sources may run, although       *)
(* updates only touch the waiters that change.                             *)
TrailingRuns == Settled => \A w \in TrailingSources : ~choked[w]

(* So may the sources of the inputs a filtergraph takes nothing more from, *)
(* for them to find out, until they have: the decoder and filtergraph      *)
(* threads that set send_finished do not take schedule_lock for it, also   *)
(* in the middle of an update.                                             *)
ClosedInputsAreTold == Settled => \A w \in ToldOfEof \cap Sources : ~choked[w]

(* The queues behind a demuxer are frozen exactly when it is choked, as    *)
(* long as the demuxer has not closed them, although they are only set     *)
(* when its waiter changes and are unfrozen by tq_send_finish() too.       *)
FrozenAsChoked ==
  Settled => \A x \in FirstDsts : ~sendClosed[x] => (frozen[x] <=> choked[Src[x]])

(* Whenever the schedule has settled and sources are left, one of them may *)
(* run, unless there are trailing streams and all their sources have       *)
(* exited: then what these sent has yet to get to the muxers, and all      *)
(* other sources may be waiting for it.                                    *)
SomeSourceRuns ==
  Settled =>
    \/ \E w \in Sources : ~choked[w] /\ ~task_exited[w]
    \/ \A w \in Sources : task_exited[w]
    \/ Wanted # {} /\ \A w \in TrailingSources : task_exited[w]

(* sch_stop() returns, with all demuxers, decoders and filtergraphs joined *)
(* also when inputs have no end, unless an update of the schedule that has *)
(* looked at terminate before is still going on when sch_stop() sets its   *)
(* first waiter.                                                           *)
StopReturns ==
  pc["main"] = "choking" /\ stopping = FilterSeq \o DemuxSeq /\ phase \in {"idle", "check"}
    ~> pc["main"] = "stopped"

(* What sch_stop() says it unfreezes the queues for, "to allow draining":  *)
(* every decoder gets to the end of what its queue holds.                  *)
StopDrains == \A x \in Decs : terminate ~> queued[x] = 0
=============================================================================
