---------------------------- MODULE ThreadQueue ----------------------------
(***************************************************************************)
(* The queue between two tasks of the transcoder: fftools/thread_queue.c.  *)
(*                                                                         *)
(* One consumer thread, any number of producer threads, NbStreams streams  *)
(* multiplexed over one bounded FIFO.  Every operation runs under tq->lock *)
(* and gives it up only inside pthread_cond_wait(), so one critical        *)
(* section is one action: a call that has to wait ends its action in state *)
(* "waiting" and the loop is taken up again, from "woken", in another one. *)
(***************************************************************************)
EXTENDS Naturals, Sequences, FiniteSets

CONSTANTS
  NbStreams,     (* tq->nb_streams                                         *)
  QueueSize,     (* queue_size of tq_alloc()                               *)
  Producers,     (* the threads that call tq_send() and tq_send_finish()   *)
  Consumer,      (* the thread that calls tq_receive()                     *)
  MaxItems,      (* bound: tq_send() calls that get an item into a stream  *)
  MaxChokes      (* bound: calls of tq_choke() that choke the queue        *)

ASSUME ThreadQueueAssumption ==
  /\ NbStreams \in Nat \ {0}
  /\ QueueSize \in Nat \ {0}
  /\ Consumer \notin Producers
  /\ MaxItems \in Nat
  /\ MaxChokes \in Nat

VARIABLES
  choked,            (* tq->choked                                         *)
  finished,          (* tq->finished: per stream, the set of flags that    *)
                     (* are on                                             *)
  fifo,              (* tq->fifo: the items                                *)
  fifo_stream_index, (* tq->fifo_stream_index: the stream of each item     *)
  pc,                (* where each thread is: "idle" outside the queue,    *)
                     (* "waiting" in pthread_cond_wait(), "woken" when it  *)
                     (* has been signalled and has yet to get the lock     *)
  arg,               (* stream_idx of the tq_send() a producer waits in    *)
  accepted,          (* history: items of each stream tq_send() took       *)
  delivered,         (* history: number of the last item of each stream    *)
                     (* tq_receive() returned                              *)
  eofs,              (* history: EOFs tq_receive() returned, per stream    *)
  nomem,             (* history: a tq_send() has run out of memory         *)
  nchokes            (* bound: how often tq_choke() has choked it          *)

queueVars   == <<choked, finished, fifo, fifo_stream_index>>
historyVars == <<accepted, delivered, eofs, nomem>>
vars == <<choked, finished, fifo, fifo_stream_index, pc, arg,
          accepted, delivered, eofs, nomem, nchokes>>

Streams == 0 .. NbStreams - 1
Threads == Producers \cup {Consumer}

FINISHED_SEND == "FINISHED_SEND"
FINISHED_RECV == "FINISHED_RECV"
Flags == {FINISHED_SEND, FINISHED_RECV}

(* The n-th item the queue accepted for stream s.                          *)
Item == [stream : Streams, num : Nat \ {0}]

SendFinished(s) == FINISHED_SEND \in finished[s]
RecvFinished(s) == FINISHED_RECV \in finished[s]

-----------------------------------------------------------------------------
(* pthread_cond_broadcast() on tq->cond, when p is the state of the        *)
(* threads: whoever waits may go for the lock again.                       *)
Broadcast(p) == [t \in Threads |-> IF p[t] = "waiting" THEN "woken" ELSE p[t]]

(* av_fifo_can_write(tq->fifo_stream_index) = 0.                           *)
Full == Len(fifo_stream_index) >= QueueSize

(* The loop of tq_send() comes out: the stream is closed or there is room. *)
SendEnabled(s) == RecvFinished(s) \/ ~Full

(* tq_send() finds the receiving side closed: it returns EOF, and closes   *)
(* the sending side without a broadcast.                                   *)
SendEof(p, s) ==
  /\ RecvFinished(s)
  /\ finished' = [finished EXCEPT ![s] = @ \cup {FINISHED_SEND}]
  /\ pc' = [pc EXCEPT ![p] = "idle"]
  /\ UNCHANGED <<choked, fifo, fifo_stream_index, arg, historyVars, nchokes>>

(* Mutant: the write does not look at the receiving side.                  *)
SendWriteClosed(p, s) ==
  /\ ~Full
  /\ fifo_stream_index' = Append(fifo_stream_index, s)
  /\ fifo' = Append(fifo, [stream |-> s, num |-> accepted[s] + 1])
  /\ accepted' = [accepted EXCEPT ![s] = @ + 1]
  /\ pc' = Broadcast([pc EXCEPT ![p] = "idle"])
  /\ UNCHANGED <<choked, finished, arg, delivered, eofs, nomem, nchokes>>

(* tq_send() has room: the stream index, then the item, then a broadcast.  *)
SendWrite(p, s) ==
  /\ ~RecvFinished(s)
  /\ ~Full
  /\ fifo_stream_index' = Append(fifo_stream_index, s)
  /\ fifo' = Append(fifo, [stream |-> s, num |-> accepted[s] + 1])
  /\ accepted' = [accepted EXCEPT ![s] = @ + 1]
  /\ pc' = Broadcast([pc EXCEPT ![p] = "idle"])
  /\ UNCHANGED <<choked, finished, arg, delivered, eofs, nomem, nchokes>>

(* Mutant: the item is written first, and its stream index fails.          *)
SendNoMemItemFirst(p, s) ==
  /\ ~RecvFinished(s)
  /\ ~Full
  /\ accepted[s] < MaxItems
  /\ fifo' = Append(fifo, [stream |-> s, num |-> accepted[s] + 1])
  /\ accepted' = [accepted EXCEPT ![s] = @ + 1]
  /\ pc' = [pc EXCEPT ![p] = "idle"]
  /\ nomem' = TRUE
  /\ UNCHANGED <<choked, finished, fifo_stream_index, arg, delivered, eofs, nchokes>>

(* The stream index is in its FIFO when av_container_fifo_write() runs out *)
(* of memory; tq_send() returns the error and leaves the index there.      *)
SendNoMem(p, s) ==
  /\ ~RecvFinished(s)
  /\ ~Full
  /\ fifo_stream_index' = Append(fifo_stream_index, s)
  /\ pc' = [pc EXCEPT ![p] = "idle"]
  /\ nomem' = TRUE
  /\ UNCHANGED <<choked, finished, fifo, arg, accepted, delivered, eofs, nchokes>>

(* tq_send() goes to sleep.                                                *)
SendWait(p, s) ==
  /\ ~SendEnabled(s)
  /\ pc'  = [pc  EXCEPT ![p] = "waiting"]
  /\ arg' = [arg EXCEPT ![p] = s]
  /\ UNCHANGED <<queueVars, historyVars, nchokes>>

SendTry(p, s) == SendEof(p, s) \/ SendWrite(p, s) \/ SendNoMem(p, s) \/ SendWait(p, s)

(* The producers asleep in a tq_send() on stream s.                        *)
Pending(s) == {p \in Producers : pc[p] # "idle" /\ arg[p] = s}

(* tq_send(): a call on a stream that is not closed for sending (on one    *)
(* that is it returns EINVAL and changes nothing).                         *)
tq_send(p, s) ==
  /\ pc[p] = "idle"
  /\ accepted[s] + Cardinality(Pending(s)) < MaxItems
  /\ ~SendFinished(s)
  /\ SendTry(p, s)

(* The sleeping tq_send() has the lock again.  Only the condition of the   *)
(* loop is looked at: FINISHED_SEND is not.                                *)
tq_send_resume(p) ==
  /\ pc[p] = "woken"
  /\ SendTry(p, arg[p])

-----------------------------------------------------------------------------
(* The positions of the items whose stream still takes deliveries.         *)
Deliverable == {k \in DOMAIN fifo : ~RecvFinished(fifo_stream_index[k])}

(* Mutant: the newest item is returned.                                    *)
LastDeliverable == CHOOSE k \in Deliverable : \A j \in Deliverable : j <= k

(* The item receive_locked() returns: what is ahead of it is thrown away.  *)
FirstDeliverable == CHOOSE k \in Deliverable : \A j \in Deliverable : k <= j

(* Streams for which the consumer is still to be given its EOF.            *)
EofPending == {s \in Streams : SendFinished(s) /\ ~RecvFinished(s)}
FirstEof   == CHOOSE s \in EofPending : \A t \in EofPending : s <= t

AllFinished == \A s \in Streams : finished[s] # {}

(* receive_locked() does not return EAGAIN.                                *)
ReceiveEnabled ==
  ~choked /\ (Deliverable # {} \/ EofPending # {} \/ AllFinished)

(* Mutant: a dropped item leaves its stream index behind.                  *)
DrainOneIndex(n) ==
  /\ fifo' = SubSeq(fifo, n + 1, Len(fifo))
  /\ fifo_stream_index' =
       IF n = 0 THEN fifo_stream_index ELSE Tail(fifo_stream_index)

(* Both FIFOs lose their first n entries; a change wakes up the others.    *)
Drain(n) ==
  /\ fifo' = SubSeq(fifo, n + 1, Len(fifo))
  /\ fifo_stream_index' = SubSeq(fifo_stream_index, n + 1, Len(fifo_stream_index))

(* Mutant: no broadcast after an item was read.                            *)
ReceiveItemSilent ==
  /\ ~choked
  /\ Deliverable # {}
  /\ LET k == FirstDeliverable
     IN  /\ Drain(k)
         /\ delivered' = [delivered EXCEPT ![fifo_stream_index[k]] = fifo[k].num]
  /\ pc' = [pc EXCEPT ![Consumer] = "idle"]
  /\ UNCHANGED <<choked, finished, arg, accepted, eofs, nomem, nchokes>>

(* receive_locked() returns an item.                                       *)
ReceiveItem ==
  /\ ~choked
  /\ Deliverable # {}
  /\ LET k == FirstDeliverable
     IN  /\ Drain(k)
         /\ delivered' = [delivered EXCEPT ![fifo_stream_index[k]] = fifo[k].num]
  /\ pc' = Broadcast([pc EXCEPT ![Consumer] = "idle"])
  /\ UNCHANGED <<choked, finished, arg, accepted, eofs, nomem, nchokes>>

(* Mutant: no broadcast after items were only dropped.                     *)
DropAllSilent(state) ==
  /\ Deliverable = {}
  /\ Drain(Len(fifo))
  /\ pc' = [pc EXCEPT ![Consumer] = state]

(* What tq_receive() does to the FIFOs, and to the threads that wait for   *)
(* them, when no item is left to return: all there is belongs to closed    *)
(* streams and is dropped.                                                 *)
DropAll(state) ==
  /\ Deliverable = {}
  /\ Drain(Len(fifo))
  /\ pc' = [(IF fifo # <<>> THEN Broadcast(pc) ELSE pc) EXCEPT ![Consumer] = state]

(* Mutant: the EOF does not close the receiving side.                      *)
ReceiveEofAgain ==
  /\ ~choked
  /\ EofPending # {}
  /\ DropAll("idle")
  /\ eofs' = [eofs EXCEPT ![FirstEof] = @ + 1]
  /\ UNCHANGED <<choked, finished, arg, accepted, delivered, nomem, nchokes>>

(* receive_locked() reports the end of one stream, once.                   *)
ReceiveEof ==
  /\ ~choked
  /\ EofPending # {}
  /\ DropAll("idle")
  /\ finished' = [finished EXCEPT ![FirstEof] = @ \cup {FINISHED_RECV}]
  /\ eofs' = [eofs EXCEPT ![FirstEof] = @ + 1]
  /\ UNCHANGED <<choked, arg, accepted, delivered, nomem, nchokes>>

(* receive_locked() reports the end of all streams.                        *)
ReceiveAllDone ==
  /\ ~choked
  /\ EofPending = {}
  /\ AllFinished
  /\ DropAll("idle")
  /\ UNCHANGED <<choked, finished, arg, historyVars, nchokes>>

(* receive_locked() returns EAGAIN and tq_receive() goes to sleep, after   *)
(* the broadcast its dropping of items may call for.                       *)
ReceiveWait ==
  /\ \/ /\ choked
        /\ pc' = [pc EXCEPT ![Consumer] = "waiting"]
        /\ UNCHANGED <<fifo, fifo_stream_index>>
     \/ /\ ~choked
        /\ EofPending = {}
        /\ ~AllFinished
        /\ DropAll("waiting")
  /\ UNCHANGED <<choked, finished, arg, historyVars, nchokes>>

(* tq_receive(): a call, or another turn of its loop.                      *)
tq_receive ==
  /\ pc[Consumer] # "waiting"
  /\ ReceiveItem \/ ReceiveEof \/ ReceiveAllDone \/ ReceiveWait

-----------------------------------------------------------------------------
(* Mutant: the consumer is not told.                                       *)
tq_send_finish_silent(p, s) ==
  /\ pc[p] = "idle"
  /\ finished' = [finished EXCEPT ![s] = @ \cup {FINISHED_SEND}]
  /\ choked' = FALSE
  /\ UNCHANGED <<fifo, fifo_stream_index, pc, arg, historyVars, nchokes>>

(* Mutant: the choke is left on.                                           *)
tq_send_finish_choked(p, s) ==
  /\ pc[p] = "idle"
  /\ finished' = [finished EXCEPT ![s] = @ \cup {FINISHED_SEND}]
  /\ pc' = Broadcast(pc)
  /\ UNCHANGED <<choked, fifo, fifo_stream_index, arg, historyVars, nchokes>>

(* tq_send_finish(): also takes the choke off.                             *)
tq_send_finish(p, s) ==
  /\ pc[p] = "idle"
  /\ finished' = [finished EXCEPT ![s] = @ \cup {FINISHED_SEND}]
  /\ choked' = FALSE
  /\ pc' = Broadcast(pc)
  /\ UNCHANGED <<fifo, fifo_stream_index, arg, historyVars, nchokes>>

(* tq_receive_finish(), called by the consumer between two receives.       *)
tq_receive_finish(s) ==
  /\ pc[Consumer] = "idle"
  /\ finished' = [finished EXCEPT ![s] = @ \cup {FINISHED_RECV}]
  /\ pc' = Broadcast(pc)
  /\ UNCHANGED <<choked, fifo, fifo_stream_index, arg, historyVars, nchokes>>

(* tq_choke(), called by the scheduler from any thread; a call that does   *)
(* not change the flag does nothing.                                       *)
tq_choke(c) ==
  /\ choked # c
  /\ c => nchokes < MaxChokes
  /\ nchokes' = IF c THEN nchokes + 1 ELSE nchokes
  /\ choked' = c
  /\ pc' = Broadcast(pc)
  /\ UNCHANGED <<finished, fifo, fifo_stream_index, arg, historyVars>>

(* pthread_cond_wait() may return without a signal.                        *)
SpuriousWakeup(t) ==
  /\ pc[t] = "waiting"
  /\ pc' = [pc EXCEPT ![t] = "woken"]
  /\ UNCHANGED <<queueVars, arg, historyVars, nchokes>>

-----------------------------------------------------------------------------
(* tq_alloc().                                                             *)
Init ==
  /\ choked = FALSE
  /\ finished = [s \in Streams |-> {}]
  /\ fifo = <<>>
  /\ fifo_stream_index = <<>>
  /\ pc = [t \in Threads |-> "idle"]
  /\ arg = [p \in Producers |-> 0]
  /\ accepted = [s \in Streams |-> 0]
  /\ delivered = [s \in Streams |-> 0]
  /\ eofs = [s \in Streams |-> 0]
  /\ nomem = FALSE
  /\ nchokes = 0

Next ==
  \/ \E p \in Producers, s \in Streams : tq_send(p, s) \/ tq_send_finish(p, s)
  \/ \E p \in Producers : tq_send_resume(p)
  \/ tq_receive
  \/ \E s \in Streams : tq_receive_finish(s)
  \/ \E c \in BOOLEAN : tq_choke(c)
  \/ \E t \in Threads : SpuriousWakeup(t)

Spec == Init /\ [][Next]_vars

(* The consumer threads of ffmpeg_sched.c call tq_receive() in a loop, and *)
(* a thread that was woken up gets the lock at some point.  Nobody has to  *)
(* send, to close a stream, to choke or to unchoke, and no spurious wakeup *)
(* has to happen.                                                          *)
FairSpec ==
  /\ Spec
  /\ WF_vars(tq_receive)
  /\ \A p \in Producers : WF_vars(tq_send_resume(p))

-----------------------------------------------------------------------------
TypeOK ==
  /\ choked \in BOOLEAN
  /\ finished \in [Streams -> SUBSET Flags]
  /\ fifo \in Seq(Item)
  /\ fifo_stream_index \in Seq(Streams)
  /\ pc \in [Threads -> {"idle", "waiting", "woken"}]
  /\ arg \in [Producers -> Streams]
  /\ accepted \in [Streams -> Nat]
  /\ delivered \in [Streams -> Nat]
  /\ eofs \in [Streams -> 0 .. 1]
  /\ nomem \in BOOLEAN
  /\ nchokes \in 0 .. MaxChokes

(* No thread sleeps in pthread_cond_wait() on a condition that has come    *)
(* true: each of the six operations that can make a sleeper's condition    *)
(* true broadcasts, including those that do so only through the items      *)
(* receive_locked() throws away; those that do not broadcast (tq_send()    *)
(* on its EOF path, tq_receive() when it reports an EOF) make none true,   *)
(* unless a failed write has left an index without an item in the queue.   *)
NoLostWakeup ==
  ~nomem => /\ \A p \in Producers : pc[p] = "waiting" => ~SendEnabled(arg[p])
            /\ pc[Consumer] = "waiting" => ~ReceiveEnabled

(* The two FIFOs of the queue, which are written and read one after the    *)
(* other, stay in step: the k-th index is the stream of the k-th item, and *)
(* there are never more of them than tq_alloc() was asked for.  After a    *)
(* write that failed halfway there still is an index for every item, which *)
(* is what receive_locked() asserts.                                       *)
FifosInStep ==
  /\ Len(fifo) <= Len(fifo_stream_index)
  /\ Len(fifo_stream_index) <= QueueSize
  /\ ~nomem => /\ Len(fifo) = Len(fifo_stream_index)
               /\ \A k \in DOMAIN fifo : fifo[k].stream = fifo_stream_index[k]

(* What tq_send() took for a stream that is open for receiving and         *)
(* tq_receive() has not returned is in the FIFO, all of it, ...            *)
StreamAccountedFor(s) ==
  /\ delivered[s] <= accepted[s]
  /\ ~RecvFinished(s) =>
       \A n \in delivered[s] + 1 .. accepted[s] :
         \E k \in DOMAIN fifo : fifo[k].stream = s /\ fifo[k].num = n

(* ... once and in order, and it takes no more room than the entries       *)
(* behind it.                                                              *)
ItemInPlace(k) ==
  LET s == fifo[k].stream
      n == fifo[k].num
  IN  /\ n <= accepted[s]
      /\ accepted[s] + k <= n + Len(fifo)
      /\ ~RecvFinished(s) => delivered[s] < n
      /\ \A j \in 1 .. k - 1 : fifo[j].stream = s => fifo[j].num < n

(* No item is lost, duplicated or overtaken between tq_send() and          *)
(* tq_receive(), whatever receive_locked() drops in between, as long as no *)
(* tq_send() ran out of memory.                                            *)
ItemsAccountedFor ==
  ~nomem => /\ \A s \in Streams : StreamAccountedFor(s)
            /\ \A k \in DOMAIN fifo : ItemInPlace(k)

(* tq_receive() returns the EOF of a stream only when every item tq_send() *)
(* ever takes for it has been returned: also when a tq_send() that slept   *)
(* through the tq_send_finish() writes after it.                           *)
EofComplete ==
  \A s \in Streams :
    eofs[s] = 1 => RecvFinished(s) /\ (nomem \/ delivered[s] = accepted[s])

(* Unless the queue is left choked, a tq_send() that sleeps returns.  An   *)
(* index that a failed write left behind takes its place for good, so this *)
(* ends with the first of them.                                            *)
SenderReturns ==
  <>[]~choked => \A p \in Producers : pc[p] = "waiting" ~> pc[p] = "idle" \/ nomem

(* Unless the queue is left choked, the end of every stream that was       *)
(* closed for sending reaches the consumer, whatever failed.               *)
EofArrives ==
  <>[]~choked => \A s \in Streams : SendFinished(s) ~> RecvFinished(s)

(* The end of a stream also reaches the consumer when the queue is not     *)
(* choked again once the stream is closed, however it was left by then:    *)
(* the scheduler does not unchoke a queue for draining when its source     *)
(* exits, tq_send_finish() does.                                           *)
EofUnchokes ==
  \A s \in Streams :
    <>(nchokes = MaxChokes /\ ~SendFinished(s)) => (SendFinished(s) ~> RecvFinished(s))

(* What the queue promises to its users, stream by stream, until one of    *)
(* their calls runs out of memory.                                         *)
Channels == INSTANCE StreamChannel WITH
  sendClosed <- [s \in Streams |-> SendFinished(s)],
  recvClosed <- [s \in Streams |-> RecvFinished(s)]
ImplementsChannels == Channels!Init /\ [][Channels!Next \/ nomem']_(Channels!vars)
=============================================================================
