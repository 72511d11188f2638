----------------------------- MODULE MCPipeline -----------------------------
(* Transcoding graphs for Pipeline.                                        *)
EXTENDS Pipeline

(* A looped input: one stream is decoded, filtered and encoded, one is     *)
(* copied, into the same file.                                             *)
FileOuts == [t \in {"A", "a", "F", "e"} |->
               CASE t = "A" -> <<<< <<"a", 1>> >>, << <<"M", 2>> >>>>
                 [] t = "a" -> <<<< <<"F", 1>> >>>>
                 [] t = "F" -> <<<< <<"e", 1>> >>>>
                 [] t = "e" -> <<<< <<"M", 1>> >>>>]
FilePorts == [c \in {"a", "F", "e", "M"} |-> IF c = "M" THEN {1, 2} ELSE {1}]
FileDelay == [t \in {"a", "F", "e"} |-> IF t = "e" THEN 0 ELSE 1]
FileSizes == [c \in {"a", "F", "e", "M"} |-> 1]
OneLoop   == [d \in {"A"} |-> 1]

(* A filtergraph that feeds another one.                                   *)
ChainOuts == [t \in {"A", "a", "F", "G", "e"} |->
                CASE t = "A" -> <<<< <<"a", 1>> >>>>
                  [] t = "a" -> <<<< <<"F", 1>> >>>>
                  [] t = "F" -> <<<< <<"G", 1>> >>>>
                  [] t = "G" -> <<<< <<"e", 1>> >>>>
                  [] t = "e" -> <<<< <<"M", 1>> >>>>]
ChainPorts == [c \in {"a", "F", "G", "e", "M"} |-> {1}]
ChainDelay == [t \in {"a", "F", "G", "e"} |-> IF t \in {"F", "G"} THEN 1 ELSE 0]
ChainSizes == [c \in {"a", "F", "G", "e", "M"} |-> 1]
NoLoop     == [d \in {"A"} |-> 0]

(* A filtergraph makes of two streams what two encoders get, one of which  *)
(* gets no frames.                                                         *)
SplitOuts == [t \in {"A", "a", "b", "F", "e", "g"} |->
                CASE t = "A" -> <<<< <<"a", 1>> >>, << <<"b", 1>> >>>>
                  [] t = "a" -> <<<< <<"F", 1>> >>>>
                  [] t = "b" -> <<<< <<"F", 2>> >>>>
                  [] t = "F" -> <<<< <<"e", 1>> >>, << <<"g", 1>> >>>>
                  [] t = "e" -> <<<< <<"M", 1>> >>>>
                  [] t = "g" -> <<<< <<"M", 2>> >>>>]
SplitPorts == [c \in {"a", "b", "F", "e", "g", "M"} |-> IF c \in {"F", "M"} THEN {1, 2} ELSE {1}]
SplitDelay == [t \in {"a", "b", "F", "e", "g"} |-> 0]
SplitSizes == [c \in {"a", "b", "F", "e", "g", "M"} |-> 1]
OneBranch  == {<<"g", 1>>}
=============================================================================
