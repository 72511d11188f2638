------------------------ MODULE CheckAcyclicProofs -------------------------
(***************************************************************************)
(* check_acyclic() is right for every number of filtergraphs, however they *)
(* are connected: it refuses exactly the graphs with a cycle, and never    *)
(* writes beyond its stack.  That it ends is checked by TLC only.          *)
(***************************************************************************)
EXTENDS CheckAcyclic, SequenceTheorems, FiniteSetTheorems, TLAPS

(* f is one of a set of filtergraphs, each of which is fed by one of the   *)
(* set when they are connected as in "in".                                 *)
FedFromWithin(in, S) == \A f \in S : \E g \in S, i \in DOMAIN in[f] : in[f][i] = g
InCycle(in, f) == \E S \in SUBSET Filters : f \in S /\ FedFromWithin(in, S)

(* The entry of the way from the root that comes after the k-th one of the *)
(* stack.                                                                  *)
After(k) == IF k < Len(filters_stack) THEN filters_stack[k + 1] ELSE src

(* The inputs a search has come past.                                      *)
PositionsOK ==
  /\ src.idx_stream <= Len(inputs[src.idx])
  /\ \A k \in DOMAIN filters_stack :
       filters_stack[k].idx_stream \in 1 .. Len(inputs[filters_stack[k].idx])

(* The search left each filtergraph of the stack through the input that is *)
(* fed by the next one.                                                    *)
WayUpstream ==
  \A k \in DOMAIN filters_stack :
    inputs[filters_stack[k].idx][filters_stack[k].idx_stream] = After(k).idx

(* What the search has come back from, or started from before, is not part *)
(* of a cycle.                                                             *)
CleanBefore(in, e, n) == \A j \in 1 .. n : ~InCycle(in, in[e.idx][j])
ComeBackClean ==
  /\ CleanBefore(inputs, src, src.idx_stream)
  /\ \A k \in DOMAIN filters_stack : CleanBefore(inputs, filters_stack[k], filters_stack[k].idx_stream - 1)
  /\ \A f \in Filters : f < root => ~InCycle(inputs, f)
  /\ root = (IF filters_stack = <<>> THEN src ELSE filters_stack[1]).idx

(* The inductive invariant.                                                *)
IInv ==
  /\ TypeOK
  /\ PositionsOK
  /\ WayUpstream
  /\ PathOnStack
  /\ ComeBackClean
  /\ RefusedHasCycle
  /\ AcceptedIsAcyclic

USE CheckAcyclicAssumption DEF CheckAcyclicAssumption

LEMMA FilterFacts ==
  /\ Demux \notin Filters
  /\ 0 \in Filters
  /\ Filters \subseteq Nat
BY DEF Filters, Demux

LEMMA SeqFacts ==
  ASSUME NEW T, NEW s \in Seq(T)
  PROVE  /\ Len(s) \in Nat
         /\ DOMAIN s = 1 .. Len(s)
         /\ \A k \in DOMAIN s : s[k] \in T
BY LenProperties, ElementOfSeq

LEMMA StateFacts ==
  ASSUME TypeOK
  PROVE  /\ src.idx \in Filters
         /\ src.idx_stream \in Nat
         /\ Len(filters_stack) \in Nat
         /\ DOMAIN filters_stack = 1 .. Len(filters_stack)
         /\ \A k \in DOMAIN filters_stack :
              /\ filters_stack[k].idx \in Filters
              /\ filters_stack[k].idx_stream \in Nat
         /\ \A f \in Filters :
              /\ inputs[f] \in Seq(Filters \cup {Demux})
              /\ Len(inputs[f]) \in Nat
              /\ DOMAIN inputs[f] = 1 .. Len(inputs[f])
<1> DEFINE Entries == [idx : Filters, idx_stream : Nat]
<1>1. src.idx \in Filters /\ src.idx_stream \in Nat
  BY DEF TypeOK
<1>2. filters_stack \in Seq(Entries)
  BY DEF TypeOK
<1>3. \A e \in Entries : e.idx \in Filters /\ e.idx_stream \in Nat
  OBVIOUS
<1> HIDE DEF Entries
<1>4. /\ Len(filters_stack) \in Nat
      /\ DOMAIN filters_stack = 1 .. Len(filters_stack)
      /\ \A k \in DOMAIN filters_stack : filters_stack[k] \in Entries
  BY <1>2, SeqFacts
<1>5. \A f \in Filters : inputs[f] \in Seq(Filters \cup {Demux})
  BY DEF TypeOK
<1>6. \A f \in Filters : Len(inputs[f]) \in Nat /\ DOMAIN inputs[f] = 1 .. Len(inputs[f])
  BY <1>5, SeqFacts
<1> QED BY <1>1, <1>3, <1>4, <1>5, <1>6

LEMMA CycleIsOfMembers == HasCycle <=> \E f \in Filters : InCycle(inputs, f)
BY DEF HasCycle, InCycle, FedFromWithin, FedBy

(* A filtergraph none of whose inputs comes from a cycle is on none.       *)
LEMMA NotFedNotInCycle ==
  ASSUME NEW in, NEW f \in Filters, \A j \in DOMAIN in[f] : ~InCycle(in, in[f][j])
  PROVE  ~InCycle(in, f)
<1> SUFFICES ASSUME NEW S \in SUBSET Filters, f \in S, FedFromWithin(in, S)
             PROVE  FALSE
  BY DEF InCycle
<1>1. PICK g \in S, i \in DOMAIN in[f] : in[f][i] = g
  BY DEF FedFromWithin
<1>2. InCycle(in, g)
  BY DEF InCycle
<1> QED BY <1>1, <1>2

LEMMA DemuxNotInCycle == ASSUME NEW in PROVE ~InCycle(in, Demux)
BY FilterFacts DEF InCycle

LEMMA InitIInv == Init => IInv
<1> SUFFICES ASSUME Init PROVE IInv
  OBVIOUS
<1>1. inputs \in [Filters -> Seq(Filters \cup {Demux})]
  <2>1. BoundedSeq(Filters \cup {Demux}, MaxInputs) \subseteq Seq(Filters \cup {Demux})
    BY DEF BoundedSeq, SeqOf
  <2> QED BY <2>1 DEF Init
<1>2. TypeOK
  <2>1. src \in [idx : Filters, idx_stream : Nat]
    BY FilterFacts DEF Init, Node
  <2>2. filters_stack \in Seq([idx : Filters, idx_stream : Nat])
    BY EmptySeq DEF Init
  <2>3. filters_visited \in [Filters -> {"NEW", "STARTED", "DONE"}]
    BY DEF Init
  <2> QED BY <1>1, <2>1, <2>2, <2>3, FilterFacts DEF Init, TypeOK
<1>3. PositionsOK /\ WayUpstream /\ PathOnStack
  <2>1. /\ filters_stack = <<>>
        /\ src.idx = 0 /\ src.idx_stream = 0
        /\ DOMAIN filters_stack = {}
        /\ Len(inputs[0]) \in Nat
    <3>1. filters_stack = <<>> /\ src.idx = 0 /\ src.idx_stream = 0
      BY DEF Init, Node
    <3> QED BY <1>2, <3>1, FilterFacts, StateFacts
  <2>2. \A f \in Filters : filters_visited[f] # "STARTED"
    BY DEF Init
  <2> QED BY <2>1, <2>2 DEF PositionsOK, WayUpstream, PathOnStack
<1>4. ComeBackClean
  <2>1. filters_stack = <<>> /\ src.idx = 0 /\ src.idx_stream = 0 /\ root = 0
    BY DEF Init, Node
  <2> QED BY <2>1, FilterFacts DEF ComeBackClean, CleanBefore
<1> QED BY <1>2, <1>3, <1>4 DEF IInv, Init, RefusedHasCycle, AcceptedIsAcyclic

-----------------------------------------------------------------------------
(* What Marked is.                                                         *)
LEMMA MarkedFacts ==
  ASSUME TypeOK
  PROVE  /\ Marked \in [Filters -> {"NEW", "STARTED", "DONE"}]
         /\ Marked[src.idx] = "STARTED"
         /\ \A f \in Filters \ {src.idx} : Marked[f] = filters_visited[f]
BY DEF TypeOK, Marked

LEMMA UpstreamFacts ==
  ASSUME TypeOK, MoreInputs
  PROVE  /\ Upstream \in Filters \cup {Demux}
         /\ src.idx_stream + 1 \in 1 .. Len(inputs[src.idx])
<1>1. /\ inputs[src.idx] \in Seq(Filters \cup {Demux})
      /\ src.idx_stream \in Nat
  BY DEF TypeOK
<1>2. src.idx_stream + 1 \in 1 .. Len(inputs[src.idx])
  BY <1>1 DEF MoreInputs
<1> QED BY <1>1, <1>2 DEF Upstream

(* The way from the root is closed by an input that comes from it.         *)
LEMMA WayClosesCycle ==
  ASSUME TypeOK, PositionsOK, WayUpstream, PathOnStack, MoreInputs,
         Upstream # Demux, ClosesCycle
  PROVE  HasCycle
<1> DEFINE S == {filters_stack[k].idx : k \in DOMAIN filters_stack} \cup {src.idx}
<1>1. S \in SUBSET Filters /\ S # {}
  BY StateFacts
<1>2. Upstream \in S
  <2>1. CASE Upstream = src.idx
    BY <2>1
  <2>2. CASE Upstream # src.idx
    <3>1. Upstream \in Filters
      BY UpstreamFacts
    <3>2. filters_visited[Upstream] = "STARTED"
      BY <2>2, <3>1, MarkedFacts DEF ClosesCycle
    <3> QED BY <2>2, <3>1, <3>2 DEF PathOnStack
  <2> QED BY <2>1, <2>2
<1>3. FedBy(src.idx, Upstream)
  BY UpstreamFacts, StateFacts DEF FedBy, Upstream
<1>4. ASSUME NEW k \in DOMAIN filters_stack
      PROVE  After(k).idx \in S /\ FedBy(filters_stack[k].idx, After(k).idx)
  <2>1. After(k).idx \in S
    BY StateFacts DEF After
  <2>2. filters_stack[k].idx_stream \in DOMAIN inputs[filters_stack[k].idx]
    BY StateFacts DEF PositionsOK
  <2> QED BY <2>1, <2>2 DEF WayUpstream, FedBy
<1>5. \A f \in S : \E g \in S : FedBy(f, g)
  BY <1>2, <1>3, <1>4
<1> QED BY <1>1, <1>5 DEF HasCycle

-----------------------------------------------------------------------------
LEMMA SkipDemuxIInv ==
  ASSUME IInv, SkipDemux
  PROVE  IInv'
<1>1. /\ TypeOK /\ PositionsOK /\ WayUpstream /\ PathOnStack /\ ComeBackClean
      /\ result = "" /\ MoreInputs /\ Upstream = Demux
      /\ filters_visited' = Marked /\ src' = NextInput
      /\ inputs' = inputs /\ root' = root
      /\ filters_stack' = filters_stack /\ result' = result
  BY DEF IInv, SkipDemux
<1>2. /\ src'.idx = src.idx
      /\ src'.idx_stream = src.idx_stream + 1
      /\ src' \in [idx : Filters, idx_stream : Nat]
  <2>1. src' = [idx |-> src.idx, idx_stream |-> src.idx_stream + 1]
    BY <1>1 DEF NextInput
  <2>2. src.idx \in Filters /\ src.idx_stream \in Nat
    BY <1>1, StateFacts
  <2>3. src.idx_stream + 1 \in Nat
    BY <2>2
  <2> QED BY <2>1, <2>2, <2>3
<1>3. TypeOK'
  BY <1>1, <1>2, MarkedFacts DEF TypeOK
<1>4. PositionsOK'
  <2>1. /\ src.idx_stream + 1 \in 1 .. Len(inputs[src.idx])
        /\ Len(inputs[src.idx]) \in Nat
    BY <1>1, UpstreamFacts, StateFacts
  <2>2. (src.idx_stream <= Len(inputs[src.idx]))'
    <3>1. src.idx_stream + 1 <= Len(inputs[src.idx])
      BY <2>1
    <3>2. src'.idx_stream = src.idx_stream + 1 /\ inputs'[src'.idx] = inputs[src.idx]
      BY <1>1, <1>2
    <3> QED BY <3>1, <3>2
  <2>3. \A k \in DOMAIN filters_stack' :
          filters_stack'[k].idx_stream \in 1 .. Len(inputs'[filters_stack'[k].idx])
    BY <1>1 DEF PositionsOK
  <2> QED BY <2>2, <2>3 DEF PositionsOK
<1>5. WayUpstream'
  BY <1>1, <1>2 DEF WayUpstream, After
<1>6. PathOnStack'
  <2>1. \A f \in Filters \ {src.idx} : filters_visited'[f] = filters_visited[f]
    BY <1>1, MarkedFacts
  <2>2. PathOnStack /\ filters_stack' = filters_stack /\ src'.idx = src.idx
    BY <1>1, <1>2
  <2> QED BY <2>1, <2>2 DEF PathOnStack
<1>7. ComeBackClean'
  <2>1. CleanBefore(inputs, src, src.idx_stream + 1)
    <3>1. inputs[src.idx][src.idx_stream + 1] = Demux
      BY <1>1 DEF Upstream
    <3>2. \A j \in 1 .. src.idx_stream : ~InCycle(inputs, inputs[src.idx][j])
      BY <1>1 DEF ComeBackClean, CleanBefore
    <3>3. src.idx_stream \in Nat
      BY <1>1, StateFacts
    <3>4. \A j \in 1 .. src.idx_stream + 1 : j \in 1 .. src.idx_stream \/ j = src.idx_stream + 1
      BY <3>3
    <3> QED BY <3>1, <3>2, <3>4, DemuxNotInCycle DEF CleanBefore
  <2>2. CleanBefore(inputs, src, src.idx_stream)'
    BY <1>1, <1>2, <2>1 DEF CleanBefore
  <2>3. \A k \in DOMAIN filters_stack :
          CleanBefore(inputs, filters_stack[k], filters_stack[k].idx_stream - 1)'
    BY <1>1 DEF CleanBefore, ComeBackClean
  <2>4. \A f \in Filters : f < root => ~InCycle(inputs, f)'
    BY <1>1 DEF ComeBackClean
  <2>5. root = (IF filters_stack = <<>> THEN src' ELSE filters_stack[1]).idx
    BY <1>1, <1>2 DEF ComeBackClean
  <2> QED BY <1>1, <2>2, <2>3, <2>4, <2>5 DEF ComeBackClean
<1>8. RefusedHasCycle' /\ AcceptedIsAcyclic'
  BY <1>1 DEF RefusedHasCycle, AcceptedIsAcyclic
<1> QED BY <1>3, <1>4, <1>5, <1>6, <1>7, <1>8 DEF IInv

LEMMA FindCycleIInv ==
  ASSUME IInv, FindCycle
  PROVE  IInv'
<1>1. /\ TypeOK /\ PositionsOK /\ WayUpstream /\ PathOnStack /\ ComeBackClean
      /\ MoreInputs /\ Upstream # Demux /\ ClosesCycle
      /\ filters_visited' = Marked /\ src' = src
      /\ inputs' = inputs /\ root' = root
      /\ filters_stack' = filters_stack /\ result' = "EINVAL"
  BY DEF IInv, FindCycle
<1>2. TypeOK'
  BY <1>1, MarkedFacts DEF TypeOK
<1>3. PositionsOK' /\ WayUpstream'
  BY <1>1 DEF PositionsOK, WayUpstream, After
<1>4. PathOnStack'
  BY <1>1, MarkedFacts DEF PathOnStack
<1>5. ComeBackClean'
  BY <1>1 DEF ComeBackClean
<1>6. HasCycle'
  <2>1. HasCycle
    BY <1>1, WayClosesCycle
  <2>2. inputs' = inputs
    BY <1>1
  <2>3. HasCycle' <=> HasCycle
    BY <2>2 DEF HasCycle, FedBy
  <2> QED BY <2>1, <2>3
<1> QED BY <1>1, <1>2, <1>3, <1>4, <1>5, <1>6 DEF IInv, RefusedHasCycle, AcceptedIsAcyclic

-----------------------------------------------------------------------------
LEMMA DescendIInv ==
  ASSUME IInv, Descend
  PROVE  IInv'
<1> DEFINE Entries == [idx : Filters, idx_stream : Nat]
<1>1. /\ TypeOK /\ PositionsOK /\ WayUpstream /\ PathOnStack /\ ComeBackClean
      /\ result = "" /\ MoreInputs /\ Upstream # Demux /\ ~ClosesCycle
      /\ filters_visited' = Marked /\ src' = Node(Upstream)
      /\ filters_stack' = Append(filters_stack, NextInput)
      /\ inputs' = inputs /\ root' = root /\ result' = result
  BY DEF IInv, Descend
<1>0. PICK n \in Nat : n = Len(filters_stack)
  BY <1>1, StateFacts
<1>2. /\ src.idx \in Filters /\ src.idx_stream \in Nat
      /\ DOMAIN filters_stack = 1 .. n
      /\ Upstream \in Filters
      /\ src.idx_stream + 1 \in 1 .. Len(inputs[src.idx])
  BY <1>0, <1>1, StateFacts, UpstreamFacts
<1>3. NextInput \in Entries /\ NextInput.idx = src.idx /\ NextInput.idx_stream = src.idx_stream + 1
  <2>1. src.idx_stream + 1 \in Nat
    BY <1>2
  <2> QED BY <1>2, <2>1 DEF NextInput
<1>4. src' \in Entries /\ src'.idx = Upstream /\ src'.idx_stream = 0
  BY <1>1, <1>2 DEF Node
<1>5. filters_stack \in Seq(Entries)
  BY <1>1 DEF TypeOK
<1> HIDE DEF Entries
<1>6. /\ filters_stack' \in Seq(Entries)
      /\ Len(filters_stack') = n + 1
      /\ \A k \in 1 .. n : filters_stack'[k] = filters_stack[k]
      /\ filters_stack'[n + 1] = NextInput
      /\ filters_stack' # <<>>
  <2>1. /\ Append(filters_stack, NextInput) \in Seq(Entries)
        /\ Append(filters_stack, NextInput) # <<>>
        /\ Len(Append(filters_stack, NextInput)) = Len(filters_stack) + 1
        /\ \A k \in 1 .. Len(filters_stack) : Append(filters_stack, NextInput)[k] = filters_stack[k]
        /\ Append(filters_stack, NextInput)[Len(filters_stack) + 1] = NextInput
    BY <1>3, <1>5, AppendProperties
  <2> QED BY <1>0, <1>1, <2>1
<1>7. DOMAIN filters_stack' = 1 .. n + 1
  BY <1>6, SeqFacts
<1>8. \A k \in 1 .. n + 1 : k \in 1 .. n \/ k = n + 1
  BY <1>2
<1>9. TypeOK'
  <2>1. /\ inputs' \in [Filters -> Seq(Filters \cup {Demux})]
        /\ root' \in Filters
        /\ result' \in {"", "EINVAL", "0"}
    BY <1>1 DEF TypeOK
  <2>2. filters_visited' \in [Filters -> {"NEW", "STARTED", "DONE"}]
    BY <1>1, MarkedFacts
  <2> QED BY <2>1, <2>2, <1>4, <1>6 DEF TypeOK, Entries
<1>10. PositionsOK'
  <2>1. Len(inputs[Upstream]) \in Nat
    BY <1>1, <1>2, StateFacts
  <2>2. (src.idx_stream <= Len(inputs[src.idx]))'
    <3>1. src'.idx_stream = 0 /\ inputs'[src'.idx] = inputs[Upstream]
      BY <1>1, <1>4
    <3> QED BY <2>1, <3>1
  <2>3. \A k \in 1 .. n : filters_stack[k].idx_stream \in 1 .. Len(inputs[filters_stack[k].idx])
    BY <1>1, <1>2 DEF PositionsOK
  <2>4. NextInput.idx_stream \in 1 .. Len(inputs[NextInput.idx])
    BY <1>2, <1>3
  <2> QED BY <1>1, <1>6, <1>7, <1>8, <2>2, <2>3, <2>4 DEF PositionsOK
<1>11. WayUpstream'
  <2>1. ASSUME NEW k \in 1 .. n PROVE After(k)'.idx = After(k).idx
    <3>1. CASE k < n
      <4>1. k + 1 \in 1 .. n /\ k < n + 1
        BY <1>2, <3>1
      <4> QED BY <3>1, <4>1, <1>6, <1>0 DEF After
    <3>2. CASE ~(k < n)
      <4>1. k = n /\ k < n + 1
        BY <1>2, <3>2
      <4> QED BY <3>2, <4>1, <1>3, <1>6, <1>0 DEF After
    <3> QED BY <3>1, <3>2
  <2>2. ASSUME NEW k \in 1 .. n
        PROVE  inputs'[filters_stack'[k].idx][filters_stack'[k].idx_stream] = After(k)'.idx
    BY <1>1, <1>2, <1>6, <2>1 DEF WayUpstream
  <2>3. inputs[NextInput.idx][NextInput.idx_stream] = Upstream
    BY <1>3 DEF Upstream
  <2>4. After(n + 1)'.idx = Upstream
    <3>1. ~(n + 1 < Len(filters_stack'))
      BY <1>0, <1>6
    <3> QED BY <3>1, <1>4 DEF After
  <2> QED BY <1>1, <1>6, <1>7, <1>8, <2>2, <2>3, <2>4 DEF WayUpstream
<1>12. PathOnStack'
  <2>1. Upstream # src.idx /\ filters_visited[Upstream] # "STARTED"
    BY <1>1, <1>2, MarkedFacts DEF ClosesCycle
  <2>2. \A k \in 1 .. n : filters_stack[k].idx # src.idx
    BY <1>1, <1>2 DEF PathOnStack
  <2>3. \A k \in 1 .. n : filters_stack[k].idx # Upstream
    BY <1>1, <1>2, <2>1 DEF PathOnStack
  <2>4. \A i, j \in 1 .. n : filters_stack[i].idx = filters_stack[j].idx => i = j
    BY <1>1, <1>2 DEF PathOnStack
  <2>5. \A i, j \in 1 .. n + 1 : filters_stack'[i].idx = filters_stack'[j].idx => i = j
    BY <1>3, <1>6, <1>8, <2>2, <2>4
  <2>6. \A i \in 1 .. n + 1 : filters_stack'[i].idx # Upstream
    BY <1>3, <1>6, <1>8, <2>1, <2>3
  <2>7. ASSUME NEW f \in Filters \ {Upstream}
        PROVE  filters_visited'[f] = "STARTED" <=> \E i \in 1 .. n + 1 : filters_stack'[i].idx = f
    <3>1. CASE f = src.idx
      <4>1. n + 1 \in 1 .. n + 1
        BY <1>2
      <4> QED BY <3>1, <4>1, <1>1, <1>3, <1>6, MarkedFacts
    <3>2. CASE f # src.idx
      <4>1. filters_visited'[f] = filters_visited[f]
        BY <1>1, <3>2, MarkedFacts
      <4>2. filters_visited[f] = "STARTED" <=> \E i \in 1 .. n : filters_stack[i].idx = f
        BY <1>1, <1>2, <3>2 DEF PathOnStack
      <4>3. \A i \in 1 .. n : i \in 1 .. n + 1
        BY <1>2
      <4> QED BY <1>3, <1>6, <1>8, <3>2, <4>1, <4>2, <4>3
    <3> QED BY <3>1, <3>2
  <2> QED BY <1>4, <1>7, <2>5, <2>6, <2>7 DEF PathOnStack
<1>13. ComeBackClean'
  <2>1. CleanBefore(inputs, src, src.idx_stream)'
    <3>1. \A j \in 1 .. src'.idx_stream : FALSE
      BY <1>4
    <3> QED BY <3>1 DEF CleanBefore
  <2>2. ASSUME NEW k \in 1 .. n
        PROVE  CleanBefore(inputs, filters_stack[k], filters_stack[k].idx_stream - 1)'
    <3>1. CleanBefore(inputs, filters_stack[k], filters_stack[k].idx_stream - 1)
      BY <1>1, <1>2 DEF ComeBackClean
    <3> QED BY <3>1, <1>1, <1>6
  <2>3. CleanBefore(inputs, filters_stack[n + 1], filters_stack[n + 1].idx_stream - 1)'
    <3>1. CleanBefore(inputs, src, src.idx_stream)
      BY <1>1 DEF ComeBackClean
    <3>2. /\ filters_stack'[n + 1].idx = src.idx
          /\ filters_stack'[n + 1].idx_stream - 1 = src.idx_stream
      BY <1>2, <1>3, <1>6
    <3> QED BY <1>1, <3>1, <3>2 DEF CleanBefore
  <2>4. \A f \in Filters : f < root => ~InCycle(inputs, f)'
    BY <1>1 DEF ComeBackClean
  <2>5. root = filters_stack'[1].idx
    <3>1. CASE filters_stack = <<>>
      <4>1. n = 0
        BY <3>1, <1>5, EmptySeq, <1>0
      <4>2. filters_stack'[1] = NextInput
        BY <4>1, <1>6
      <4> QED BY <3>1, <4>2, <1>1, <1>3 DEF ComeBackClean
    <3>2. CASE filters_stack # <<>>
      <4>1. n \in Nat \ {0}
        BY <3>2, <1>5, EmptySeq, <1>0
      <4>2. 1 \in 1 .. n
        BY <4>1
      <4> QED BY <3>2, <4>2, <1>1, <1>6 DEF ComeBackClean
    <3> QED BY <3>1, <3>2
  <2> QED BY <1>1, <1>6, <1>7, <1>8, <2>1, <2>2, <2>3, <2>4, <2>5 DEF ComeBackClean
<1>14. RefusedHasCycle' /\ AcceptedIsAcyclic'
  BY <1>1 DEF RefusedHasCycle, AcceptedIsAcyclic
<1> QED BY <1>9, <1>10, <1>11, <1>12, <1>13, <1>14 DEF IInv

-----------------------------------------------------------------------------
LEMMA GoBackIInv ==
  ASSUME IInv, GoBack
  PROVE  IInv'
<1> DEFINE Entries == [idx : Filters, idx_stream : Nat]
<1>1. /\ TypeOK /\ PositionsOK /\ WayUpstream /\ PathOnStack /\ ComeBackClean
      /\ result = "" /\ ~MoreInputs /\ filters_stack # <<>>
      /\ filters_visited' = [filters_visited EXCEPT ![src.idx] = "DONE"]
      /\ src' = Last(filters_stack) /\ filters_stack' = Front(filters_stack)
      /\ inputs' = inputs /\ root' = root /\ result' = result
  BY DEF IInv, GoBack
<1>2. filters_stack \in Seq(Entries)
  BY <1>1 DEF TypeOK
<1> HIDE DEF Entries
<1>3. PICK n \in Nat : n + 1 = Len(filters_stack)
  <2>1. Len(filters_stack) \in Nat \ {0}
    BY <1>1, <1>2, EmptySeq
  <2> QED BY <2>1
<1>4. /\ DOMAIN filters_stack = 1 .. n + 1
      /\ \A k \in 1 .. n + 1 : filters_stack[k] \in Entries
  BY <1>2, <1>3, SeqFacts
<1>5. /\ n + 1 \in 1 .. n + 1
      /\ \A k \in 1 .. n : k \in 1 .. n + 1 /\ k # n + 1
      /\ \A k \in 1 .. n + 1 : k \in 1 .. n \/ k = n + 1
  BY <1>3
<1>6. src' = filters_stack[n + 1] /\ src' \in Entries
  BY <1>1, <1>3, <1>4, <1>5 DEF Last
<1>7. /\ filters_stack' \in Seq(Entries)
      /\ Len(filters_stack') = n
      /\ \A k \in 1 .. n : filters_stack'[k] = filters_stack[k]
  <2>1. 1 \in Int /\ n \in Int /\ n - 1 + 1 = n /\ (1 <= n \/ n = 0)
    BY <1>3
  <2>2. filters_stack' = SubSeq(filters_stack, 1, n)
    <3>1. Len(filters_stack) - 1 = n
      BY <1>3
    <3> QED BY <1>1, <3>1 DEF Front
  <2>3. \A i \in 1 .. n : filters_stack[i] \in Entries
    BY <1>4, <1>5
  <2>4. /\ SubSeq(filters_stack, 1, n) \in Seq(Entries)
        /\ Len(SubSeq(filters_stack, 1, n)) = IF 1 <= n THEN n - 1 + 1 ELSE 0
        /\ \A i \in 1 .. n - 1 + 1 : SubSeq(filters_stack, 1, n)[i] = filters_stack[1 + i - 1]
    BY <2>1, <2>3, SubSeqProperties
  <2>5. \A i \in 1 .. n : 1 + i - 1 = i
    OBVIOUS
  <2> QED BY <2>1, <2>2, <2>4, <2>5
<1>8. DOMAIN filters_stack' = 1 .. n
  BY <1>7, SeqFacts
<1>9. src.idx \in Filters /\ src.idx_stream \in Nat
  BY <1>1, StateFacts
<1>10. TypeOK'
  BY <1>1, <1>6, <1>7 DEF TypeOK, Entries
<1>11. PositionsOK'
  <2>1. \A k \in 1 .. n + 1 : filters_stack[k].idx_stream \in 1 .. Len(inputs[filters_stack[k].idx])
    BY <1>1, <1>4 DEF PositionsOK
  <2>2. filters_stack[n + 1].idx_stream <= Len(inputs[filters_stack[n + 1].idx])
    <3>1. filters_stack[n + 1].idx_stream \in 1 .. Len(inputs[filters_stack[n + 1].idx])
      BY <2>1, <1>5
    <3>2. Len(inputs[filters_stack[n + 1].idx]) \in Nat
      BY <1>1, <1>4, <1>5, StateFacts
    <3> QED BY <3>1, <3>2
  <2> QED BY <1>1, <1>5, <1>6, <1>7, <1>8, <2>1, <2>2 DEF PositionsOK
<1>12. WayUpstream'
  <2>1. ASSUME NEW k \in 1 .. n PROVE After(k)'.idx = After(k).idx
    <3>1. k < n + 1 /\ (k < n => k + 1 \in 1 .. n) /\ (~(k < n) => k = n)
      BY <1>3
    <3> QED BY <3>1, <1>3, <1>6, <1>7 DEF After
  <2>2. \A k \in 1 .. n : inputs[filters_stack[k].idx][filters_stack[k].idx_stream] = After(k).idx
    BY <1>1, <1>4, <1>5 DEF WayUpstream
  <2>3. ASSUME NEW k \in 1 .. n
        PROVE  inputs'[filters_stack'[k].idx][filters_stack'[k].idx_stream] = After(k)'.idx
    <3>1. inputs' = inputs /\ filters_stack'[k] = filters_stack[k]
      BY <1>1, <1>7
    <3> QED BY <3>1, <2>1, <2>2
  <2> QED BY <1>8, <2>3 DEF WayUpstream
<1>13. PathOnStack'
  <2>1. \A i, j \in 1 .. n + 1 : filters_stack[i].idx = filters_stack[j].idx => i = j
    BY <1>1, <1>4 DEF PathOnStack
  <2>2. \A i \in 1 .. n + 1 : filters_stack[i].idx # src.idx
    BY <1>1, <1>4 DEF PathOnStack
  <2>3. \A i \in 1 .. n : filters_stack'[i].idx # src'.idx
    BY <1>5, <1>6, <1>7, <2>1
  <2>4. \A i, j \in 1 .. n : filters_stack'[i].idx = filters_stack'[j].idx => i = j
    BY <1>5, <1>7, <2>1
  <2>5. ASSUME NEW f \in Filters \ {src'.idx}
        PROVE  filters_visited'[f] = "STARTED" <=> \E i \in 1 .. n : filters_stack'[i].idx = f
    <3>1. CASE f = src.idx
      <4>1. filters_visited'[f] = "DONE"
        BY <3>1, <1>1, <1>9 DEF TypeOK
      <4> QED BY <3>1, <4>1, <1>5, <1>7, <2>2
    <3>2. CASE f # src.idx
      <4>1. filters_visited'[f] = filters_visited[f]
        BY <3>2, <1>1 DEF TypeOK
      <4>2. filters_visited[f] = "STARTED" <=> \E i \in 1 .. n + 1 : filters_stack[i].idx = f
        BY <1>1, <1>4, <3>2 DEF PathOnStack
      <4> QED BY <1>5, <1>6, <1>7, <4>1, <4>2
    <3> QED BY <3>1, <3>2
  <2> QED BY <1>8, <2>3, <2>4, <2>5 DEF PathOnStack
<1>14. ComeBackClean'
  <2>1. ~InCycle(inputs, src.idx)
    <3>1. Len(inputs[src.idx]) \in Nat /\ DOMAIN inputs[src.idx] = 1 .. Len(inputs[src.idx])
      BY <1>1, <1>9, StateFacts
    <3>2. src.idx_stream = Len(inputs[src.idx])
      <4>1. ~(src.idx_stream < Len(inputs[src.idx])) /\ src.idx_stream <= Len(inputs[src.idx])
        BY <1>1 DEF MoreInputs, PositionsOK
      <4> QED BY <3>1, <4>1, <1>9
    <3>3. \A j \in DOMAIN inputs[src.idx] : ~InCycle(inputs, inputs[src.idx][j])
      BY <3>1, <3>2, <1>1 DEF ComeBackClean, CleanBefore
    <3> QED BY <3>3, <1>9, NotFedNotInCycle
  <2>2. CleanBefore(inputs, filters_stack[n + 1], filters_stack[n + 1].idx_stream)
    <3> DEFINE e == filters_stack[n + 1]
    <3>1. CleanBefore(inputs, e, e.idx_stream - 1)
      BY <1>1, <1>4, <1>5 DEF ComeBackClean
    <3>2. inputs[e.idx][e.idx_stream] = src.idx
      <4>1. inputs[e.idx][e.idx_stream] = After(n + 1).idx
        BY <1>1, <1>4, <1>5 DEF WayUpstream
      <4>2. ~(n + 1 < Len(filters_stack))
        BY <1>3
      <4> QED BY <4>1, <4>2 DEF After
    <3>3. e.idx_stream \in Nat
      BY <1>1, <1>4, <1>5, StateFacts
    <3> HIDE DEF e
    <3>4. \A j \in 1 .. e.idx_stream : j \in 1 .. e.idx_stream - 1 \/ j = e.idx_stream
      BY <3>3
    <3> QED BY <2>1, <3>1, <3>2, <3>4 DEF CleanBefore, e
  <2>3. \A k \in 1 .. n : CleanBefore(inputs, filters_stack[k], filters_stack[k].idx_stream - 1)
    BY <1>1, <1>4, <1>5 DEF ComeBackClean
  <2>4. \A f \in Filters : f < root => ~InCycle(inputs, f)
    BY <1>1 DEF ComeBackClean
  <2>5. root = (IF filters_stack' = <<>> THEN src' ELSE filters_stack'[1]).idx
    <3>1. root = filters_stack[1].idx
      BY <1>1 DEF ComeBackClean
    <3>2. CASE filters_stack' = <<>>
      <4>1. n = 0
        BY <3>2, <1>7, EmptySeq
      <4>2. src' = filters_stack[1]
        BY <4>1, <1>6
      <4> QED BY <3>1, <3>2, <4>2
    <3>3. CASE filters_stack' # <<>>
      <4>1. n \in Nat \ {0}
        BY <3>3, <1>7, EmptySeq
      <4>2. 1 \in 1 .. n
        BY <4>1
      <4> QED BY <3>1, <3>3, <4>2, <1>7
    <3> QED BY <3>2, <3>3
  <2> QED BY <1>1, <1>6, <1>7, <1>8, <2>2, <2>3, <2>4, <2>5 DEF ComeBackClean
<1>15. RefusedHasCycle' /\ AcceptedIsAcyclic'
  BY <1>1 DEF RefusedHasCycle, AcceptedIsAcyclic
<1> QED BY <1>10, <1>11, <1>12, <1>13, <1>14, <1>15 DEF IInv

(* Whether there is a cycle is a matter of the inputs.                    *)
LEMMA SameInputsSameCycles ==
  ASSUME inputs' = inputs
  PROVE  HasCycle' <=> HasCycle
BY DEF HasCycle, FedBy

-----------------------------------------------------------------------------
LEMMA NextRootIInv ==
  ASSUME IInv, NextRoot
  PROVE  IInv'
<1>1. /\ TypeOK /\ PositionsOK /\ WayUpstream /\ PathOnStack /\ ComeBackClean
      /\ result = "" /\ ~MoreInputs /\ filters_stack = <<>>
      /\ inputs' = inputs /\ filters_stack' = filters_stack
  BY DEF IInv, NextRoot
<1>2. /\ src.idx \in Filters /\ src.idx_stream \in Nat
      /\ root = src.idx
  BY <1>1, StateFacts DEF ComeBackClean
<1>3. ~InCycle(inputs, root)
  <2>1. Len(inputs[src.idx]) \in Nat /\ DOMAIN inputs[src.idx] = 1 .. Len(inputs[src.idx])
    BY <1>1, <1>2, StateFacts
  <2>2. src.idx_stream = Len(inputs[src.idx])
    <3>1. ~(src.idx_stream < Len(inputs[src.idx])) /\ src.idx_stream <= Len(inputs[src.idx])
      BY <1>1 DEF MoreInputs, PositionsOK
    <3> QED BY <2>1, <3>1, <1>2
  <2>3. \A j \in DOMAIN inputs[src.idx] : ~InCycle(inputs, inputs[src.idx][j])
    BY <2>1, <2>2, <1>1 DEF ComeBackClean, CleanBefore
  <2> QED BY <2>3, <1>2, NotFedNotInCycle
<1>4. \A f \in Filters : f <= root => ~InCycle(inputs, f)
  <2>1. \A f \in Filters : f < root => ~InCycle(inputs, f)
    BY <1>1 DEF ComeBackClean
  <2>2. \A f \in Filters : f <= root => f < root \/ f = root
    BY <1>2 DEF Filters
  <2> QED BY <2>1, <2>2, <1>3
<1>5. CASE root + 1 \in Filters
  <2>1. /\ root' = root + 1 /\ src' = Node(root + 1) /\ result' = result
        /\ filters_visited' = [f \in Filters |-> "NEW"]
    BY <1>5 DEF NextRoot
  <2>2. src'.idx = root' /\ src'.idx_stream = 0 /\ src' \in [idx : Filters, idx_stream : Nat]
    BY <2>1, <1>5 DEF Node
  <2>3. filters_stack' = <<>> /\ DOMAIN filters_stack' = {}
    <3>1. filters_stack' = <<>>
      BY <1>1
    <3>2. DOMAIN filters_stack' = 1 .. 0
      BY <3>1
    <3> QED BY <3>1, <3>2
  <2>4. TypeOK'
    BY <1>1, <1>5, <2>1, <2>2 DEF TypeOK
  <2>5. PositionsOK'
    <3>1. Len(inputs[root + 1]) \in Nat
      BY <1>1, <1>5, StateFacts
    <3>2. (src.idx_stream <= Len(inputs[src.idx]))'
      <4>1. src'.idx_stream = 0 /\ inputs'[src'.idx] = inputs[root + 1]
        BY <1>1, <2>1, <2>2
      <4> QED BY <3>1, <4>1
    <3> QED BY <2>3, <3>2 DEF PositionsOK
  <2>6. WayUpstream' /\ PathOnStack'
    <3>1. \A f \in Filters : filters_visited'[f] # "STARTED"
      BY <2>1
    <3> QED BY <2>3, <3>1 DEF WayUpstream, PathOnStack
  <2>7. ComeBackClean'
    <3>1. \A j \in 1 .. src'.idx_stream : FALSE
      BY <2>2
    <3>2. CleanBefore(inputs', src', src'.idx_stream)
      BY <3>1 DEF CleanBefore
    <3>3. \A f \in Filters : f < root + 1 => f <= root
      BY <1>2 DEF Filters
    <3> QED BY <1>1, <1>4, <2>1, <2>2, <2>3, <3>2, <3>3 DEF ComeBackClean
  <2>8. RefusedHasCycle' /\ AcceptedIsAcyclic'
    BY <1>1, <2>1 DEF RefusedHasCycle, AcceptedIsAcyclic
  <2> QED BY <2>4, <2>5, <2>6, <2>7, <2>8 DEF IInv
<1>6. CASE root + 1 \notin Filters
  <2>1. /\ root' = root /\ src' = src /\ result' = "0"
        /\ filters_visited' = filters_visited
    BY <1>6 DEF NextRoot
  <2>2. PositionsOK' /\ PathOnStack'
    BY <1>1, <2>1 DEF PositionsOK, PathOnStack
  <2>3. TypeOK'
    BY <1>1, <2>1 DEF TypeOK
  <2>4. WayUpstream' /\ ComeBackClean'
    BY <1>1, <2>1 DEF WayUpstream, After, ComeBackClean
  <2>5. ~HasCycle
    <3>1. \A f \in Filters : f <= root
      BY <1>2, <1>6 DEF Filters
    <3> QED BY <1>4, <3>1, CycleIsOfMembers
  <2>6. ~HasCycle'
    <3>1. inputs' = inputs
      BY <1>1
    <3>2. HasCycle' <=> HasCycle
      BY <3>1, SameInputsSameCycles
    <3> QED BY <2>5, <3>2
  <2> QED BY <2>1, <2>2, <2>3, <2>4, <2>6 DEF IInv, RefusedHasCycle, AcceptedIsAcyclic
<1> QED BY <1>5, <1>6

LEMMA StutterIInv ==
  ASSUME IInv, UNCHANGED vars
  PROVE  IInv'
<1>1. /\ inputs' = inputs /\ root' = root /\ src' = src /\ result' = result
      /\ filters_visited' = filters_visited /\ filters_stack' = filters_stack
  BY DEF vars
<1>2. /\ TypeOK' <=> TypeOK
      /\ PositionsOK' <=> PositionsOK
      /\ WayUpstream' <=> WayUpstream
      /\ PathOnStack' <=> PathOnStack
  BY <1>1 DEF TypeOK, PositionsOK, WayUpstream, After, PathOnStack
<1>3. ComeBackClean' <=> ComeBackClean
  BY <1>1 DEF ComeBackClean
<1>4. HasCycle' <=> HasCycle
  BY <1>1, SameInputsSameCycles
<1> QED BY <1>1, <1>2, <1>3, <1>4 DEF IInv, RefusedHasCycle, AcceptedIsAcyclic

(* Every step of the search keeps the inductive invariant.                *)
THEOREM InvariantHolds == Spec => []IInv
<1>1. IInv /\ [Next]_vars => IInv'
  <2> SUFFICES ASSUME IInv, [Next]_vars PROVE IInv'
    OBVIOUS
  <2> QED BY SkipDemuxIInv, FindCycleIInv, DescendIInv, GoBackIInv, NextRootIInv, StutterIInv DEF Next
<1> QED BY InitIInv, <1>1, PTL DEF Spec

-----------------------------------------------------------------------------
(* The filtergraphs on the stack, and the one the search is at, are        *)
(* different, so there are no more of them than there are filtergraphs.    *)
LEMMA PathIsShort ==
  ASSUME TypeOK, PathOnStack
  PROVE  StackFits
<1>1. PICK n \in Nat : n = Len(filters_stack) /\ DOMAIN filters_stack = 1 .. n
  BY StateFacts
<1>2. /\ \A k \in 1 .. n : filters_stack[k].idx \in Filters
      /\ src.idx \in Filters
  BY <1>1, StateFacts
<1> DEFINE path == [k \in 1 .. n + 1 |-> IF k = n + 1 THEN src.idx ELSE filters_stack[k].idx]
<1>3. \A k \in 1 .. n + 1 : k # n + 1 => k \in 1 .. n
  BY <1>1
<1>4. path \in [1 .. n + 1 -> Filters]
  BY <1>2, <1>3
<1>5. \A i, j \in 1 .. n + 1 : path[i] = path[j] => i = j
  BY <1>1, <1>3 DEF PathOnStack
<1> HIDE DEF path
<1>6. /\ IsFiniteSet(1 .. n + 1) /\ Cardinality(1 .. n + 1) = n + 1
      /\ IsFiniteSet(Filters) /\ Cardinality(Filters) = NbFilters
  <2>1. 1 \in Int /\ n + 1 \in Int /\ 0 \in Int /\ NbFilters - 1 \in Int
    BY <1>1
  <2>2. /\ IsFiniteSet(1 .. n + 1)
        /\ Cardinality(1 .. n + 1) = IF 1 > n + 1 THEN 0 ELSE n + 1 - 1 + 1
    BY <2>1, FS_Interval
  <2>3. /\ IsFiniteSet(0 .. NbFilters - 1)
        /\ Cardinality(0 .. NbFilters - 1) = IF 0 > NbFilters - 1 THEN 0 ELSE NbFilters - 1 - 0 + 1
    BY <2>1, FS_Interval
  <2>4. ~(1 > n + 1) /\ n + 1 - 1 + 1 = n + 1 /\ ~(0 > NbFilters - 1) /\ NbFilters - 1 - 0 + 1 = NbFilters
    BY <1>1
  <2> QED BY <2>2, <2>3, <2>4 DEF Filters
<1>7. ~(NbFilters < n + 1)
  BY <1>4, <1>5, <1>6, FS_PigeonHole
<1> QED BY <1>1, <1>7 DEF StackFits

(* The variables of the search keep their types: it never goes to a        *)
(* filtergraph that does not exist.                                        *)
THEOREM SearchTypeCorrect == Spec => []TypeOK
<1>1. IInv => TypeOK
  BY DEF IInv
<1> QED BY InvariantHolds, <1>1, PTL

(* A transcoding graph that check_acyclic() refuses has a cycle.           *)
THEOREM RefusedGraphsHaveCycles == Spec => []RefusedHasCycle
<1>1. IInv => RefusedHasCycle
  BY DEF IInv
<1> QED BY InvariantHolds, <1>1, PTL

(* A transcoding graph that it does not refuse has none.                   *)
THEOREM AcceptedGraphsAreAcyclic == Spec => []AcceptedIsAcyclic
<1>1. IInv => AcceptedIsAcyclic
  BY DEF IInv
<1> QED BY InvariantHolds, <1>1, PTL

(* The stack is the way from the root, without a filtergraph twice, and so *)
(* filters_stack, allocated with nb_filters entries, is never written      *)
(* beyond its end.                                                         *)
THEOREM StackIsTheWay == Spec => [](PathOnStack /\ StackFits)
<1>1. IInv => PathOnStack /\ StackFits
  BY PathIsShort DEF IInv
<1> QED BY InvariantHolds, <1>1, PTL
=============================================================================
