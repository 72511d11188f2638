---------------------------- MODULE MCScheduler ----------------------------
(* Transcoding graphs for Scheduler.                                       *)
EXTENDS Scheduler

(* The parts several graphs have.                                          *)
OneDec     == {"a"}
OneEnc     == {"e"}
TwoStreams == {"m1", "m2"}
OneFile    == {{"m1", "m2"}}

(* An input that is decoded, filtered and encoded.                         *)
OneInput   == <<"A">>
OneFilter  == <<"F">>
OneStream  == {"m1"}
OneStreamFile == {{"m1"}}
ChainSrc   == [n \in {"a", "e", "m1"} |->
                 CASE n = "a" -> "A" [] n = "e" -> "F" [] n = "m1" -> "e"]
ChainInputs == [f \in {"F"} |-> <<"a">>]

(* Two inputs, one decoded and encoded, one copied, into one file.         *)
TwoInputs  == <<"A", "B">>
NoFilter   == <<>>
PairSrc    == [n \in {"a", "e", "m1", "m2"} |->
                 CASE n = "a" -> "A" [] n = "e" -> "a" [] n = "m1" -> "e" [] n = "m2" -> "B"]
NoInputs   == [f \in {} |-> <<>>]
=============================================================================
