----------------------------- MODULE MCMuxStart ----------------------------
(* Instances of MuxStart for TLC.                                          *)
EXTENDS MuxStart

(* Two streams of one muxer.                                               *)
OneMux   == <<1, 1>>
Together == {<<<<0, 1>>, <<0, 1>>>>}

(* Three streams of one muxer.  Packets of two wait for the third one, one *)
(* of them without a dts, those of the second are to go first, and all     *)
(* have to go through one place in the queue.                              *)
ThreeStreams == <<1, 1, 1>>
SecondFirst  == {<<<<1>>, <<NOPTS, 0>>, <<>>>>}
=============================================================================
