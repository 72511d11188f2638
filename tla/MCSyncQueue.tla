---------------------------- MODULE MCSyncQueue ----------------------------
(* Streams for SyncQueue: video; audio in frames of two samples; and       *)
(* packets that are sparse, with a time base of their own, some of them    *)
(* without a timestamp.                                                    *)
EXTENDS SyncQueue

Frame(pts, dur, n) == [pts |-> pts, dur |-> dur, n |-> n]

MCTb         == [i \in 0 .. 2 |-> IF i = 2 THEN 2 ELSE 1]
MCSampleTime == [i \in 0 .. 2 |-> 1]
MCFrames     == [i \in 0 .. 2 |->
                   CASE i = 0 -> {Frame(0, 1, 0), Frame(3, 1, 0)}
                     [] i = 1 -> {Frame(0, 0, 1), Frame(1, 0, 3)}
                     [] i = 2 -> {Frame(1, 1, 0), Frame(NOPTS, 1, 0)}]
MCSizes      == [i \in 0 .. 2 |-> IF i = 1 THEN {2} ELSE {}]
MCMaxSent    == [i \in 0 .. 2 |-> IF i = 2 THEN 1 ELSE 2]
=============================================================================
