---------------------------- MODULE StreamChannel --------------------------
(***************************************************************************)
(* What a ThreadQueue (fftools/thread_queue.h) promises for each of its    *)
(* streams, without locks, condition variables or a shared FIFO: a         *)
(* reliable channel with two closing ends.  Items are numbered from 1 in   *)
(* the order tq_send() takes them, so a channel is two counters.           *)
(***************************************************************************)
EXTENDS Naturals

CONSTANTS Streams, QueueSize

VARIABLES
  accepted,     (* items taken by tq_send()                                *)
  delivered,    (* the item tq_receive() returned last                     *)
  eofs,         (* times tq_receive() reported the end of the stream       *)
  sendClosed,   (* the sending side is finished                            *)
  recvClosed    (* the receiving side is finished                          *)

vars == <<accepted, delivered, eofs, sendClosed, recvClosed>>

Init ==
  /\ accepted = [s \in Streams |-> 0]
  /\ delivered = [s \in Streams |-> 0]
  /\ eofs = [s \in Streams |-> 0]
  /\ sendClosed = [s \in Streams |-> FALSE]
  /\ recvClosed = [s \in Streams |-> FALSE]

(* tq_send() returns 0.  What was taken and not yet returned fits into the *)
(* queue as long as the receiving side is open.                            *)
Accept(s) ==
  /\ ~recvClosed[s]
  /\ accepted[s] < delivered[s] + QueueSize
  /\ accepted' = [accepted EXCEPT ![s] = @ + 1]
  /\ UNCHANGED <<delivered, eofs, sendClosed, recvClosed>>

(* tq_receive() returns an item: the next one.                             *)
Deliver(s) ==
  /\ ~recvClosed[s]
  /\ delivered[s] < accepted[s]
  /\ delivered' = [delivered EXCEPT ![s] = @ + 1]
  /\ UNCHANGED <<accepted, eofs, sendClosed, recvClosed>>

(* tq_receive() reports the end of the stream, after its last item; with   *)
(* that the receiving side is closed too.                                  *)
DeliverEof(s) ==
  /\ sendClosed[s]
  /\ ~recvClosed[s]
  /\ delivered[s] = accepted[s]
  /\ eofs' = [eofs EXCEPT ![s] = @ + 1]
  /\ recvClosed' = [recvClosed EXCEPT ![s] = TRUE]
  /\ UNCHANGED <<accepted, delivered, sendClosed>>

(* tq_send_finish(), or tq_send() returns EOF.                             *)
CloseSend(s) ==
  /\ sendClosed' = [sendClosed EXCEPT ![s] = TRUE]
  /\ UNCHANGED <<accepted, delivered, eofs, recvClosed>>

(* tq_receive_finish().                                                    *)
CloseRecv(s) ==
  /\ recvClosed' = [recvClosed EXCEPT ![s] = TRUE]
  /\ UNCHANGED <<accepted, delivered, eofs, sendClosed>>

Next ==
  \E s \in Streams :
    Accept(s) \/ Deliver(s) \/ DeliverEof(s) \/ CloseSend(s) \/ CloseRecv(s)

Spec == Init /\ [][Next]_vars
=============================================================================
