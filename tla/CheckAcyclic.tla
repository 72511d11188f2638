---------------------------- MODULE CheckAcyclic ----------------------------
(***************************************************************************)
(* check_acyclic() of ffmpeg_sched.c: before it starts, the scheduler      *)
(* makes sure that no filtergraph is fed, through whatever decoders and    *)
(* encoders, by its own output.  From every filtergraph it goes upstream   *)
(* depth first; the stack has one place per filtergraph.                   *)
(***************************************************************************)
EXTENDS Naturals, Sequences, FiniteSets, SequencesExt

CONSTANTS
  NbFilters,   (* sch->nb_filters                                          *)
  MaxInputs    (* bound: fg->nb_inputs                                     *)

ASSUME CheckAcyclicAssumption ==
  /\ NbFilters \in Nat \ {0}
  /\ MaxInputs \in Nat

Filters == 0 .. NbFilters - 1
Demux   == NbFilters          (* a source that is no filtergraph           *)

VARIABLES
  inputs,           (* per filtergraph, what src_filtergraph() returns for *)
                    (* each of its inputs                                  *)
  root,             (* the filtergraph the search started from             *)
  src,              (* where it is, and at which input there               *)
  filters_visited,
  filters_stack,
  result            (* "" while it runs, "EINVAL" or "0"                   *)

vars == <<inputs, root, src, filters_visited, filters_stack, result>>

Node(f) == [idx |-> f, idx_stream |-> 0]

(* The filtergraph the search is at is marked when the loop begins.        *)
Marked == [filters_visited EXCEPT ![src.idx] = "STARTED"]

MoreInputs == src.idx_stream < Len(inputs[src.idx])
Upstream   == inputs[src.idx][src.idx_stream + 1]
NextInput  == [idx |-> src.idx, idx_stream |-> src.idx_stream + 1]

(* Mutant: a filtergraph that was seen before counts as a cycle.           *)
ClosesCycleSeen == Marked[Upstream] # "NEW"

(* Mutant: the filtergraph itself is not looked for.                       *)
ClosesCycleLate == filters_visited[Upstream] = "STARTED"

ClosesCycle == Marked[Upstream] = "STARTED"

(* The next input comes from a demuxer.                                    *)
SkipDemux ==
  /\ result = ""
  /\ MoreInputs
  /\ Upstream = Demux
  /\ filters_visited' = Marked
  /\ src' = NextInput
  /\ UNCHANGED <<inputs, root, filters_stack, result>>

(* It comes from a filtergraph the search is in the middle of.             *)
FindCycle ==
  /\ result = ""
  /\ MoreInputs
  /\ Upstream # Demux
  /\ ClosesCycle
  /\ filters_visited' = Marked
  /\ result' = "EINVAL"
  /\ UNCHANGED <<inputs, root, src, filters_stack>>

(* Mutant: the search comes back to the input it left at.                  *)
DescendSame ==
  /\ result = ""
  /\ MoreInputs
  /\ Upstream # Demux
  /\ ~ClosesCycle
  /\ filters_visited' = Marked
  /\ filters_stack' = Append(filters_stack, src)
  /\ src' = Node(Upstream)
  /\ UNCHANGED <<inputs, root, result>>

(* It comes from another filtergraph, whether that was seen before or not. *)
Descend ==
  /\ result = ""
  /\ MoreInputs
  /\ Upstream # Demux
  /\ ~ClosesCycle
  /\ filters_visited' = Marked
  /\ filters_stack' = Append(filters_stack, NextInput)
  /\ src' = Node(Upstream)
  /\ UNCHANGED <<inputs, root, result>>

(* All inputs are done, and the search goes on where it came from, ...     *)
GoBack ==
  /\ result = ""
  /\ ~MoreInputs
  /\ filters_stack # <<>>
  /\ filters_visited' = [filters_visited EXCEPT ![src.idx] = "DONE"]
  /\ src' = Last(filters_stack)
  /\ filters_stack' = Front(filters_stack)
  /\ UNCHANGED <<inputs, root, result>>

(* Mutant: only the first filtergraph is traced.                           *)
NextRootNone ==
  /\ result = ""
  /\ ~MoreInputs
  /\ filters_stack = <<>>
  /\ result' = "0"
  /\ UNCHANGED <<inputs, root, src, filters_visited, filters_stack>>

(* ... or starts anew from the next filtergraph, if there is one.          *)
NextRoot ==
  /\ result = ""
  /\ ~MoreInputs
  /\ filters_stack = <<>>
  /\ IF root + 1 \in Filters
     THEN /\ root' = root + 1
          /\ src' = Node(root + 1)
          /\ filters_visited' = [f \in Filters |-> "NEW"]
          /\ UNCHANGED result
     ELSE /\ result' = "0"
          /\ UNCHANGED <<root, src, filters_visited>>
  /\ UNCHANGED <<inputs, filters_stack>>

Init ==
  /\ inputs \in [Filters -> BoundedSeq(Filters \cup {Demux}, MaxInputs)]
  /\ root = 0
  /\ src = Node(0)
  /\ filters_visited = [f \in Filters |-> "NEW"]
  /\ filters_stack = <<>>
  /\ result = ""

Next == SkipDemux \/ FindCycle \/ Descend \/ GoBack \/ NextRoot
Spec == Init /\ [][Next]_vars

(* Sequential code: it takes its next step.                                *)
FairSpec == Spec /\ WF_vars(Next)

-----------------------------------------------------------------------------
TypeOK ==
  /\ inputs \in [Filters -> Seq(Filters \cup {Demux})]
  /\ root \in Filters
  /\ src \in [idx : Filters, idx_stream : Nat]
  /\ filters_visited \in [Filters -> {"NEW", "STARTED", "DONE"}]
  /\ filters_stack \in Seq([idx : Filters, idx_stream : Nat])
  /\ result \in {"", "EINVAL", "0"}

FedBy(f, g) == \E i \in DOMAIN inputs[f] : inputs[f][i] = g

(* A finite graph has a cycle if, within some set of filtergraphs, each is *)
(* fed by one of the set.                                                  *)
HasCycle ==
  \E S \in SUBSET Filters : S # {} /\ \A f \in S : \E g \in S : FedBy(f, g)

(* A transcoding graph that is refused has a cycle, although filtergraphs  *)
(* may be reached on more than one way, ...                                *)
RefusedHasCycle == result = "EINVAL" => HasCycle

(* ... and one that is not has none, although the search forgets that a    *)
(* filtergraph was done when it comes there again: "the structure formed   *)
(* by the above components is a directed acyclic graph (absence of cycles  *)
(* is checked at startup)".                                                *)
AcceptedIsAcyclic == result = "0" => ~HasCycle

(* What filters_stack holds is the way from the root: no filtergraph is on *)
(* it twice, and those that are STARTED are the ones on it.                *)
PathOnStack ==
  /\ \A i, j \in DOMAIN filters_stack : filters_stack[i].idx = filters_stack[j].idx => i = j
  /\ \A i \in DOMAIN filters_stack : filters_stack[i].idx # src.idx
  /\ \A f \in Filters \ {src.idx} :
       filters_visited[f] = "STARTED" <=> \E i \in DOMAIN filters_stack : filters_stack[i].idx = f

(* The assertion before the push: there is room on the stack.              *)
StackFits == Len(filters_stack) < NbFilters

(* The search ends, although it goes upstream of a filtergraph each time   *)
(* it comes there.                                                         *)
Terminates == <>(result # "")
=============================================================================
