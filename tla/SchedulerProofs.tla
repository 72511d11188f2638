-------------------------- MODULE SchedulerProofs --------------------------
(***************************************************************************)
(* What holds of the choking of sources for every transcoding graph and    *)
(* every tolerance, with sch_stop() at any point of an update.             *)
(***************************************************************************)
EXTENDS Scheduler, SequenceTheorems, WellFoundedInduction, TLAPS

-----------------------------------------------------------------------------
(* The inductive invariant.                                                *)

Places ==
  {"reading", "waiter", "locking", "asleep", "putting", "running", "done", "exiting",
   "exited", "flushing", "starting", "started", "choking", "unfreezing", "stopped"}

Types ==
  /\ terminate \in BOOLEAN
  /\ lock \in Sources \cup {"main", "worker", None}
  /\ phase \in {"idle", "check", "load", "set", "freeze"}
  /\ todo \in Seq(Sources)
  /\ choked_prev \in [Sources -> BOOLEAN]
  /\ choked_next \in [Sources -> BOOLEAN]
  /\ choked \in [Sources -> BOOLEAN]
  /\ task_exited \in [Sources -> BOOLEAN]
  /\ frozen \in [Decs -> BOOLEAN]
  /\ sendClosed \in [Decs -> BOOLEAN]
  /\ pc \in [Sources \cup Decs \cup {"main"} -> Places]
  /\ stopping \in Seq(Sources)
  /\ phase = "freeze" => todo # <<>>

(* Where sch_stop() is; the source whose queues it unfreezes was woken.    *)
StopInv ==
  /\ terminate <=> pc["main"] \notin {"starting", "started"}
  /\ pc["main"] = "unfreezing" => stopping # <<>> /\ pc[Head(stopping)] # "asleep"

(* What a schedule c of choked sources must be like.                       *)
Good(c) ==
  /\ \A w \in TrailingSources : ~c[w]
  /\ \A w \in ToldOfEof \cap Sources : ~c[w]
  /\ Wanted = {} =>
       \/ \E w \in Sources : ~c[w] /\ ~task_exited[w]
       \/ \A w \in Sources : task_exited[w]

(* How far an update has got: what it has read of choked is still so, what *)
(* it has decided on is good, and a source it has not come to is as read.  *)
UpdateInv ==
  /\ lock = None <=> phase = "idle"
  /\ phase = "idle" => Good(choked)
  /\ phase = "load" => \A w \in Sources \ Range(todo) : choked_prev[w] = choked[w]
  /\ phase \in {"set", "freeze"} =>
       /\ Good(choked_next)
       /\ \A w \in Sources :
            \/ choked[w] = choked_next[w]
            \/ w \in Range(todo) /\ choked[w] = choked_prev[w]
  /\ phase = "freeze" => choked[Head(todo)] = choked_next[Head(todo)]

(* Queues are frozen as their demuxer is choked, but for the demuxer that  *)
(* was just set.                                                           *)
FreezeInv ==
  \A x \in FirstDsts :
    (~sendClosed[x] /\ ~(phase = "freeze" /\ Head(todo) = Src[x])) =>
      (frozen[x] <=> choked[Src[x]])

IInv ==
  /\ Types
  /\ StopInv
  /\ SleepersAreChoked
  /\ ~terminate => UpdateInv /\ FreezeInv

-----------------------------------------------------------------------------
(* Sequences of sources.                                                   *)

LEMMA RangeOfTail ==
  ASSUME NEW S, NEW s \in Seq(S), s # <<>>
  PROVE  /\ Head(s) \in S /\ Tail(s) \in Seq(S)
         /\ Range(s) = {Head(s)} \cup Range(Tail(s))
<1>1. Head(s) \in S /\ Tail(s) \in Seq(S)
  BY HeadTailProperties
<1>2. /\ Len(s) \in Nat \ {0} /\ DOMAIN s = 1 .. Len(s)
      /\ DOMAIN Tail(s) = 1 .. Len(s) - 1
      /\ \A i \in 1 .. Len(s) - 1 : Tail(s)[i] = s[i + 1]
  BY HeadTailProperties, LenProperties, EmptySeq
<1>3. Head(s) = s[1]
  OBVIOUS
<1>4. ASSUME NEW x \in Range(s) PROVE x \in {Head(s)} \cup Range(Tail(s))
  <2>1. PICK i \in 1 .. Len(s) : x = s[i]
    BY <1>2, <1>4 DEF Range
  <2>2. CASE i = 1
    BY <2>1, <2>2, <1>3
  <2>3. CASE i # 1
    <3>1. i - 1 \in 1 .. Len(s) - 1 /\ Tail(s)[i - 1] = s[i]
      BY <1>2, <2>1, <2>3
    <3> QED BY <1>2, <2>1, <3>1 DEF Range
  <2> QED BY <2>2, <2>3
<1>5. Range(Tail(s)) \subseteq Range(s)
  BY <1>2 DEF Range
<1>6. Head(s) \in Range(s)
  BY <1>2, <1>3 DEF Range
<1> QED BY <1>1, <1>4, <1>5, <1>6

(* The rest of a sequence from position i on.                              *)
LEMMA RangeOfRest ==
  ASSUME NEW S, NEW s \in Seq(S), NEW i \in 1 .. Len(s) + 1
  PROVE  /\ SubSeq(s, i, Len(s)) \in Seq(S)
         /\ \A k \in i .. Len(s) : s[k] \in Range(SubSeq(s, i, Len(s)))
         /\ Range(SubSeq(s, i, Len(s))) \subseteq Range(s)
         /\ i <= Len(s) => /\ SubSeq(s, i, Len(s)) # <<>>
                           /\ Head(SubSeq(s, i, Len(s))) = s[i]
<1> DEFINE t == SubSeq(s, i, Len(s))
<1>1. /\ Len(s) \in Nat /\ DOMAIN s = 1 .. Len(s)
      /\ \A k \in 1 .. Len(s) : s[k] \in S
  BY LenProperties, ElementOfSeq
<1>2. /\ t \in Seq(S)
      /\ Len(t) = IF i <= Len(s) THEN Len(s) - i + 1 ELSE 0
      /\ \A k \in 1 .. Len(s) - i + 1 : t[k] = s[i + k - 1]
  <2>1. \A k \in i .. Len(s) : s[k] \in S
    BY <1>1
  <2>2. i \in Int /\ Len(s) \in Int
    BY <1>1
  <2>3. \A k \in 1 .. Len(s) - i + 1 : t[k] = s[k + i - 1]
    BY <2>1, <2>2, SubSeqProperties
  <2>4. ASSUME NEW k \in 1 .. Len(s) - i + 1 PROVE i + k - 1 = k + i - 1
    BY <1>1
  <2> QED BY <2>1, <2>2, <2>3, <2>4, SubSeqProperties
<1>3. DOMAIN t = 1 .. Len(t)
  BY <1>2, LenProperties
<1>4. ASSUME NEW k \in i .. Len(s) PROVE s[k] \in Range(t)
  <2>1. k - i + 1 \in 1 .. Len(t) /\ t[k - i + 1] = s[k]
    <3>1. k - i + 1 \in 1 .. Len(s) - i + 1 /\ i + (k - i + 1) - 1 = k
      BY <1>1
    <3> QED BY <1>1, <1>2, <3>1
  <2> QED BY <1>3, <2>1 DEF Range
<1>5. Range(t) \subseteq Range(s)
  <2>1. ASSUME NEW k \in 1 .. Len(t) PROVE t[k] \in Range(s)
    <3>1. k \in 1 .. Len(s) - i + 1 /\ i + k - 1 \in 1 .. Len(s)
      BY <1>1, <1>2
    <3> QED BY <1>1, <1>2, <3>1 DEF Range
  <2> QED BY <1>3, <2>1 DEF Range
<1>6. i <= Len(s) => t # <<>> /\ Head(t) = s[i]
  <2> SUFFICES ASSUME i <= Len(s) PROVE t # <<>> /\ Head(t) = s[i]
    OBVIOUS
  <2>1. Len(t) # 0 /\ t[1] = s[i]
    <3>1. 1 \in 1 .. Len(s) - i + 1 /\ i + 1 - 1 = i
      BY <1>1
    <3> QED BY <1>1, <1>2, <3>1
  <2>2. t # <<>>
    BY <2>1, EmptySeq
  <2>3. i \in 1 .. Len(s) /\ Len(s) \in i .. Len(s)
    BY <1>1
  <2> QED BY <2>2, <2>3, HeadTailOfSubSeq
<1> QED BY <1>2, <1>4, <1>5, <1>6

LEMMA RangeOfConcat ==
  ASSUME NEW S, NEW s \in Seq(S), NEW t \in Seq(S)
  PROVE  s \o t \in Seq(S) /\ Range(s \o t) = Range(s) \cup Range(t)
<1>1. /\ s \o t \in Seq(S) /\ Len(s \o t) = Len(s) + Len(t)
      /\ \A i \in 1 .. Len(s) + Len(t) :
           (s \o t)[i] = IF i <= Len(s) THEN s[i] ELSE t[i - Len(s)]
  BY ConcatProperties
<1>2. /\ Len(s) \in Nat /\ DOMAIN s = 1 .. Len(s)
      /\ Len(t) \in Nat /\ DOMAIN t = 1 .. Len(t)
      /\ DOMAIN (s \o t) = 1 .. Len(s) + Len(t)
  BY <1>1, LenProperties
<1>3. ASSUME NEW i \in 1 .. Len(s) + Len(t) PROVE (s \o t)[i] \in Range(s) \cup Range(t)
  <2>1. CASE i <= Len(s)
    <3>1. i \in 1 .. Len(s) /\ (s \o t)[i] = s[i]
      BY <1>1, <1>2, <2>1
    <3> QED BY <1>2, <3>1 DEF Range
  <2>2. CASE ~(i <= Len(s))
    <3>1. i - Len(s) \in 1 .. Len(t) /\ (s \o t)[i] = t[i - Len(s)]
      BY <1>1, <1>2, <2>2
    <3> QED BY <1>2, <3>1 DEF Range
  <2> QED BY <2>1, <2>2
<1>4. ASSUME NEW i \in 1 .. Len(s) PROVE s[i] \in Range(s \o t)
  <2>1. i \in 1 .. Len(s) + Len(t) /\ i <= Len(s)
    BY <1>2
  <2> QED BY <1>1, <1>2, <2>1 DEF Range
<1>5. ASSUME NEW i \in 1 .. Len(t) PROVE t[i] \in Range(s \o t)
  <2>1. /\ i + Len(s) \in 1 .. Len(s) + Len(t) /\ ~(i + Len(s) <= Len(s))
        /\ i + Len(s) - Len(s) = i
    BY <1>2
  <2>2. (s \o t)[i + Len(s)] = t[i]
    BY <1>1, <2>1
  <2> QED BY <1>2, <2>1, <2>2 DEF Range
<1>6. Range(s \o t) \subseteq Range(s) \cup Range(t)
  BY <1>2, <1>3 DEF Range
<1>7. Range(s) \subseteq Range(s \o t) /\ Range(t) \subseteq Range(s \o t)
  BY <1>2, <1>4, <1>5 DEF Range
<1> QED BY <1>1, <1>6, <1>7

LessNat == {ss \in Nat \X Nat : ss[1] < ss[2]}

(* Every nonempty set of numbers has a smallest element.                   *)
LEMMA Smallest ==
  ASSUME NEW S \in SUBSET Nat, S # {}
  PROVE  \E k \in S : \A j \in S : k <= j
<1>1. PICK k \in S : \A j \in S : ~(<<j, k>> \in LessNat)
  <2>1. IsWellFoundedOn(LessNat, Nat)
    BY NatLessThanWellFounded DEF LessNat, OpToRel
  <2> QED BY <2>1, WFMin
<1>2. \A j \in S : k <= j
  <2> TAKE j \in S
  <2>1. <<j, k>> \in Nat \X Nat
    OBVIOUS
  <2>2. ~(<<j, k>>[1] < <<j, k>>[2])
    BY <1>1, <2>1, Zenon DEF LessNat
  <2> QED BY <2>2
<1> QED BY <1>2

USE SchedulerAssumption DEF SchedulerAssumption

LEMMA OrderOfSources ==
  /\ SourceSeq \in Seq(Sources) /\ Range(SourceSeq) = Sources
  /\ FilterSeq \o DemuxSeq \in Seq(Sources) /\ Range(FilterSeq \o DemuxSeq) = Sources
<1>1. DemuxSeq \in Seq(Sources) /\ FilterSeq \in Seq(Sources)
  BY SeqMonotonic DEF Sources
<1> QED BY <1>1, RangeOfConcat DEF SourceSeq, Sources, Demuxers, Filters

-----------------------------------------------------------------------------
(* The decision.                                                           *)

LEMMA TrailingSame ==
  ASSUME UNCHANGED <<last_dts, source_finished, best_input>>
  PROVE  UNCHANGED <<Wanted, TrailingSources, unchoke_for_stream>>
<1>1. Unfinished' = Unfinished
  BY DEF Unfinished
<1>2. trailing_dts' = trailing_dts
  BY <1>1 DEF trailing_dts
<1>3. Wanted' = Wanted
  BY <1>1, <1>2 DEF Wanted
<1>4. unchoke_for_stream' = unchoke_for_stream
  BY DEF unchoke_for_stream
<1> QED BY <1>3, <1>4 DEF TrailingSources

(* An input that was told its EOF stays so.                                *)
EofsStay ==
  \A f \in Filters : \A i \in DOMAIN Inputs[f] :
    send_finished[f][i] => send_finished'[f][i]

(* A good schedule stays one while inputs are told their EOF.              *)
LEMMA GoodStays ==
  ASSUME UNCHANGED <<last_dts, source_finished, best_input, receive_finished, task_exited>>,
         EofsStay
  PROVE  /\ UNCHANGED choked => (Good(choked) => Good(choked)')
         /\ UNCHANGED choked_next => (Good(choked_next) => Good(choked_next)')
<1>1. UNCHANGED <<Wanted, TrailingSources, unchoke_for_stream>>
  BY TrailingSame
<1>2. ToldOfEof' \subseteq ToldOfEof
  <2> DEFINE closed(f) == {i \in DOMAIN Inputs[f] : receive_finished[f][i] /\ ~send_finished[f][i]}
             told(f) == {unchoke_for_stream[Inputs[f][i]] : i \in closed(f)}
  <2> HIDE DEF unchoke_for_stream
  <2>1. ASSUME NEW f \in Filters PROVE told(f)' \subseteq told(f)
    <3>1. closed(f)' \subseteq closed(f)
      BY DEF EofsStay
    <3> HIDE DEF closed
    <3> QED BY <1>1, <3>1
  <2>2. ToldOfEof = UNION {told(f) : f \in Filters}
    BY DEF ToldOfEof
  <2>3. ToldOfEof' = UNION {told(f)' : f \in Filters}
    BY DEF ToldOfEof
  <2> HIDE DEF told
  <2> QED BY <2>1, <2>2, <2>3
<1> QED BY <1>1, <1>2 DEF Good

(* What an update decides on is good.                                      *)
LEMMA DecisionIsGood ==
  ASSUME Types
  PROVE  Good([w \in Sources |-> w \notin Allowed])
<1> DEFINE c == [w \in Sources |-> w \notin Allowed]
<1>1. /\ \A w \in TrailingSources : ~c[w]
      /\ \A w \in ToldOfEof \cap Sources : ~c[w]
  BY DEF TrailingSources, Allowed
<1>2. ASSUME Wanted = {}, NEW v \in Sources, ~task_exited[v]
      PROVE  \E w \in Sources : ~c[w] /\ ~task_exited[w]
  <2> DEFINE alive == {i \in DOMAIN SourceSeq : ~task_exited[SourceSeq[i]]}
  <2>2. DOMAIN SourceSeq = 1 .. Len(SourceSeq) /\ Len(SourceSeq) \in Nat
    BY OrderOfSources, LenProperties
  <2>3. PICK i \in DOMAIN SourceSeq : SourceSeq[i] = v
    BY OrderOfSources DEF Range
  <2>4. alive \in SUBSET Nat /\ i \in alive
    BY <1>2, <2>2, <2>3
  <2>5. PICK k \in alive : \A j \in alive : k <= j
    <3> HIDE DEF alive
    <3> QED BY <2>4, Smallest
  <2>6. SourceSeq[k] \in Sources /\ ~task_exited[SourceSeq[k]]
    BY <2>5, OrderOfSources DEF Range
  <2>7. SourceSeq[k] \in Fallback
    BY <1>2, <2>5 DEF Fallback
  <2>8. SourceSeq[k] \in Allowed
    BY <2>7 DEF Allowed
  <2> QED BY <2>6, <2>8
<1>3. Wanted = {} => \/ \E w \in Sources : ~c[w] /\ ~task_exited[w]
                     \/ \A w \in Sources : task_exited[w]
  BY <1>2
<1> HIDE DEF c
<1>4. Good(c)
  BY <1>1, <1>3 DEF Good
<1> QED BY <1>4 DEF c

-----------------------------------------------------------------------------
(* The initial states.                                                     *)

LEMMA InitIInv == Init => IInv
<1> SUFFICES ASSUME Init PROVE IInv
  OBVIOUS
<1>1. Types
  <2>1. pc \in [Sources \cup Decs \cup {"main"} -> Places]
    BY DEF Init, Places
  <2>2. todo \in Seq(Sources) /\ stopping \in Seq(Sources)
    BY DEF Init
  <2> QED BY <2>1, <2>2 DEF Init, Types
<1>2. pc["main"] = "starting" /\ \A w \in Sources : pc[w] # "asleep"
  BY DEF Init
<1>3. StopInv /\ SleepersAreChoked
  BY <1>2 DEF Init, StopInv, SleepersAreChoked
<1>4. Good(choked)
  <2>1. \A w \in Sources : ~choked[w] /\ ~task_exited[w]
    BY DEF Init
  <2>2. TrailingSources \subseteq Sources
    BY DEF TrailingSources
  <2> QED BY <2>1, <2>2 DEF Good
<1>5. UpdateInv
  BY <1>4 DEF Init, UpdateInv
<1>6. \A x \in FirstDsts : x \in Decs /\ Src[x] \in Sources
  BY DEF Sources
<1>7. FreezeInv
  BY <1>6 DEF Init, FreezeInv
<1> QED BY <1>1, <1>3, <1>5, <1>7 DEF IInv

-----------------------------------------------------------------------------
(* Types.                                                                  *)

LEMMA UpdateTypes == Types /\ schedule_update_locked => Types'
<1> SUFFICES ASSUME Types, schedule_update_locked PROVE Types'
  OBVIOUS
<1> USE DEF Types, Unlock
<1>1. CASE UpdateCheck
  BY <1>1, OrderOfSources DEF UpdateCheck, streamVars, graphVars, queueVars
<1>2. CASE UpdateLoad
  <2>1. Head(todo) \in Sources /\ todo' \in Seq(Sources)
    BY <1>2 DEF UpdateLoad
  <2> QED BY <1>2, <2>1 DEF UpdateLoad, streamVars, graphVars, queueVars
<1>3. CASE UpdateDecide
  BY <1>3, OrderOfSources DEF UpdateDecide, streamVars, graphVars, queueVars
<1>4. CASE UpdateSet
  <2>1. PICK i \in DOMAIN todo :
          /\ waiter_set(todo[i], choked_next[todo[i]])
          /\ \/ phase' = "freeze" /\ todo' = SubSeq(todo, i, Len(todo))
             \/ phase' = phase /\ todo' = SubSeq(todo, i + 1, Len(todo))
    BY <1>4 DEF UpdateSet
  <2>2. Len(todo) \in Nat /\ i \in 1 .. Len(todo) /\ todo[i] \in Sources
    BY <2>1, LenProperties, ElementOfSeq
  <2>3. i \in 1 .. Len(todo) + 1 /\ i + 1 \in 1 .. Len(todo) + 1
    BY <2>2
  <2>4. todo' \in Seq(Sources) /\ (phase' = "freeze" => todo' # <<>>)
    <3>1. /\ SubSeq(todo, i, Len(todo)) \in Seq(Sources)
          /\ i <= Len(todo) => SubSeq(todo, i, Len(todo)) # <<>>
      BY <2>3, RangeOfRest
    <3>2. SubSeq(todo, i + 1, Len(todo)) \in Seq(Sources)
      BY <2>3, RangeOfRest
    <3>3. phase = "set"
      BY <1>4 DEF UpdateSet
    <3>4. CASE phase' = "freeze" /\ todo' = SubSeq(todo, i, Len(todo))
      BY <2>2, <3>1, <3>4
    <3>5. CASE phase' = phase /\ todo' = SubSeq(todo, i + 1, Len(todo))
      BY <3>2, <3>3, <3>5
    <3> QED BY <2>1, <3>4, <3>5
  <2>5. choked' \in [Sources -> BOOLEAN] /\ pc' \in [Sources \cup Decs \cup {"main"} -> Places]
    BY <2>1, <2>2 DEF waiter_set, Places
  <2> QED BY <1>4, <2>1, <2>4, <2>5 DEF UpdateSet, streamVars, graphVars, queueVars
<1>5. CASE UpdateFreeze
  <2>1. todo' \in Seq(Sources)
    BY <1>5 DEF UpdateFreeze
  <2>2. frozen' \in [Decs -> BOOLEAN]
    <3>1. choked_next[Head(todo)] \in BOOLEAN
      BY <1>5 DEF UpdateFreeze
    <3> QED BY <1>5, <3>1 DEF UpdateFreeze, choke_demux
  <2> QED BY <1>5, <2>1, <2>2 DEF UpdateFreeze, streamVars, graphVars
<1>6. CASE UpdateDone
  BY <1>6 DEF UpdateDone, streamVars, graphVars, queueVars
<1> QED BY <1>1, <1>2, <1>3, <1>4, <1>5, <1>6 DEF schedule_update_locked

LEMMA SourceTypes ==
  ASSUME Types, NEW w \in Sources, WaiterNext(w) \/ SpuriousWakeup(w) \/ source_exit(w)
  PROVE  Types'
<1> USE DEF Types, Goto, WaiterUnchanged, updateVars, streamVars, graphVars, queueVars
<1>1. CASE waiter_look(w)
  <2>1. CASE choked[w]
    <3>1. Goto(w, "locking")
      BY <1>1, <2>1 DEF waiter_look
    <3>2. pc' \in [Sources \cup Decs \cup {"main"} -> Places]
      BY <3>1 DEF Places
    <3> QED BY <1>1, <3>2 DEF waiter_look
  <2>2. CASE ~choked[w]
    <3>1. Proceed(w)
      BY <1>1, <2>2 DEF waiter_look
    <3>2. pc' \in [Sources \cup Decs \cup {"main"} -> Places]
      BY <3>1 DEF Proceed, Places
    <3> QED BY <1>1, <3>2 DEF waiter_look
  <2> QED BY <2>1, <2>2
<1>2. CASE waiter_wait(w)
  BY <1>2 DEF waiter_wait, Proceed, Places
<1>3. CASE SpuriousWakeup(w)
  BY <1>3 DEF SpuriousWakeup, Places
<1>4. CASE source_exit(w)
  BY <1>4 DEF source_exit, Update, Places
<1> QED BY <1>1, <1>2, <1>3, <1>4 DEF WaiterNext

LEMMA DemuxTypes ==
  ASSUME Types, NEW d \in Demuxers, DemuxNext(d)
  PROVE  Types'
<1> USE DEF Types, Goto, WaiterUnchanged, updateVars, streamVars, graphVars, queueVars, Sources
<1>1. CASE demux_read(d)
  BY <1>1 DEF demux_read, Places
<1>2. CASE demux_eof(d)
  BY <1>2 DEF demux_eof, Places
<1>3. CASE demux_copy(d)
  BY <1>3 DEF demux_copy, Places
<1>4. CASE demux_done(d)
  BY <1>4 DEF demux_done, Places
<1>5. ASSUME NEW x \in Decs, demux_send(d, x) PROVE Types'
  <2>1. pc' \in [Sources \cup Decs \cup {"main"} -> Places]
    BY <1>5 DEF demux_send, Places
  <2>2. frozen' \in [Decs -> BOOLEAN] /\ sendClosed' \in [Decs -> BOOLEAN]
    BY <1>5 DEF demux_send
  <2> QED BY <1>5, <2>1, <2>2 DEF demux_send
<1> QED BY <1>1, <1>2, <1>3, <1>4, <1>5 DEF DemuxNext, DecsOf

LEMMA FilterTypes ==
  ASSUME Types, NEW f \in Filters, FilterNext(f)
  PROVE  Types'
<1> USE DEF Types, Goto, WaiterUnchanged, Update, updateVars, streamVars, graphVars, queueVars, Sources
<1>1. ASSUME NEW i, sch_filter_receive(f, i) PROVE Types'
  <2>1. Goto(f, "waiter") \/ UNCHANGED pc
    BY <1>1 DEF sch_filter_receive
  <2>2. pc' \in [Sources \cup Decs \cup {"main"} -> Places]
    BY <2>1 DEF Places
  <2> QED BY <1>1, <2>2 DEF sch_filter_receive
<1>2. CASE sch_filter_receive_none(f)
  BY <1>2 DEF sch_filter_receive_none, Places
<1>3. CASE sch_filter_choke_inputs(f)
  BY <1>3 DEF sch_filter_choke_inputs
<1>4. CASE filter_done(f)
  BY <1>4 DEF filter_done, Places
<1>5. CASE \E i \in DOMAIN Inputs[f] : sch_filter_receive_finish(f, i)
  BY <1>5 DEF sch_filter_receive_finish
<1> QED BY <1>1, <1>2, <1>3, <1>4, <1>5 DEF FilterNext

LEMMA OtherTypes ==
  ASSUME Types,
         \/ WorkerNext
         \/ \E x \in Decs : DecNext(x)
         \/ sch_start \/ sch_stop
         \/ StopUnfreeze /\ stopping # <<>>
         \/ StopJoin
  PROVE  Types'
<1> USE DEF Types, Goto, Update, updateVars, streamVars, graphVars, queueVars
<1>1. CASE WorkerNext
  BY <1>1 DEF WorkerNext, send_to_mux, finish_streams
<1>2. ASSUME NEW x \in Decs, DecNext(x) PROVE Types'
  BY <1>2 DEF DecNext, sch_dec_receive, dec_done, dec_flush, Places
<1>3. CASE sch_start
  BY <1>3 DEF sch_start, Places
<1>4. CASE sch_stop
  BY <1>4, OrderOfSources DEF sch_stop, Places
<1>5. CASE StopUnfreeze /\ stopping # <<>>
  <2>1. stopping' \in Seq(Sources)
    BY <1>5 DEF StopUnfreeze
  <2>2. frozen' \in [Decs -> BOOLEAN]
    BY <1>5 DEF StopUnfreeze, choke_demux
  <2> QED BY <1>5, <2>1, <2>2 DEF StopUnfreeze, Places
<1>6. CASE StopJoin
  BY <1>6 DEF StopJoin, Places
<1> QED BY <1>1, <1>2, <1>3, <1>4, <1>5, <1>6

-----------------------------------------------------------------------------
(* What the threads do, but for updates and sch_stop(): nothing to the     *)
(* waiters but to sleep when they are choked, nothing to the schedule but  *)
(* under a lock they go on to update it with, and queues are unfrozen only *)
(* when they are closed.                                                   *)
Calm ==
  /\ UNCHANGED <<terminate, choked, stopping>>
  /\ \/ pc'["main"] = pc["main"]
     \/ pc["main"] = "starting" /\ pc'["main"] = "started"
  /\ \A v \in Sources : pc'[v] = "asleep" => pc[v] = "asleep" \/ (choked[v] /\ ~terminate)
  /\ \/ /\ UNCHANGED <<updateVars, last_dts, source_finished, best_input, receive_finished,
                       task_exited>>
        /\ EofsStay
     \/ lock = None /\ lock' # None /\ phase' = "check"
  /\ \A x \in Decs : ~sendClosed'[x] => ~sendClosed[x] /\ frozen'[x] = frozen[x]

LEMMA SourcesAreCalm ==
  ASSUME Types, NEW w \in Sources, WaiterNext(w) \/ SpuriousWakeup(w) \/ source_exit(w)
  PROVE  Calm
<1> USE DEF Types, Goto, WaiterUnchanged, streamVars, graphVars, queueVars, EofsStay, Calm
<1>1. CASE waiter_look(w)
  <2>1. CASE choked[w]
    <3>1. Goto(w, "locking")
      BY <1>1, <2>1 DEF waiter_look
    <3> QED BY <1>1, <3>1 DEF waiter_look
  <2>2. CASE ~choked[w]
    <3>1. Proceed(w)
      BY <1>1, <2>2 DEF waiter_look
    <3> QED BY <1>1, <3>1 DEF waiter_look, Proceed
  <2> QED BY <2>1, <2>2
<1>2. CASE waiter_wait(w)
  BY <1>2 DEF waiter_wait, Proceed
<1>3. CASE SpuriousWakeup(w)
  BY <1>3 DEF SpuriousWakeup
<1>4. CASE source_exit(w)
  BY <1>4 DEF source_exit, Update
<1> QED BY <1>1, <1>2, <1>3, <1>4 DEF WaiterNext

LEMMA DemuxersAreCalm ==
  ASSUME Types, NEW d \in Demuxers, DemuxNext(d)
  PROVE  Calm
<1> USE DEF Types, Goto, WaiterUnchanged, streamVars, graphVars, queueVars, Sources, EofsStay, Calm
<1>1. CASE demux_read(d)
  BY <1>1 DEF demux_read
<1>2. CASE demux_eof(d)
  BY <1>2 DEF demux_eof
<1>3. CASE demux_copy(d)
  BY <1>3 DEF demux_copy
<1>4. CASE demux_done(d)
  BY <1>4 DEF demux_done
<1>5. ASSUME NEW x \in Decs, demux_send(d, x) PROVE Calm
  BY <1>5 DEF demux_send
<1> QED BY <1>1, <1>2, <1>3, <1>4, <1>5 DEF DemuxNext, DecsOf

LEMMA FiltersAreCalm ==
  ASSUME Types, NEW f \in Filters, FilterNext(f)
  PROVE  Calm
<1> USE DEF Types, Goto, WaiterUnchanged, Update, streamVars, graphVars, queueVars, Sources, EofsStay, Calm
<1>1. ASSUME NEW i, sch_filter_receive(f, i) PROVE Calm
  <2>1. Goto(f, "waiter") \/ UNCHANGED pc
    BY <1>1 DEF sch_filter_receive
  <2> QED BY <1>1, <2>1 DEF sch_filter_receive
<1>2. CASE sch_filter_receive_none(f)
  BY <1>2 DEF sch_filter_receive_none
<1>3. CASE sch_filter_choke_inputs(f)
  BY <1>3 DEF sch_filter_choke_inputs
<1>4. CASE filter_done(f)
  BY <1>4 DEF filter_done, SendFiltersEof
<1>5. CASE \E i \in DOMAIN Inputs[f] : sch_filter_receive_finish(f, i)
  BY <1>5 DEF sch_filter_receive_finish
<1> QED BY <1>1, <1>2, <1>3, <1>4, <1>5 DEF FilterNext

LEMMA OthersAreCalm ==
  ASSUME Types, WorkerNext \/ (\E x \in Decs : DecNext(x)) \/ sch_start
  PROVE  Calm
<1> USE DEF Types, Goto, Update, None, streamVars, graphVars, queueVars, EofsStay, Calm
<1>1. CASE WorkerNext
  BY <1>1 DEF WorkerNext, send_to_mux, finish_streams
<1>2. ASSUME NEW x \in Decs, DecNext(x) PROVE Calm
  <2>1. CASE sch_dec_receive(x) \/ dec_done(x)
    BY <2>1 DEF sch_dec_receive, dec_done
  <2>2. CASE dec_flush(x)
    <3>1. EofsStay
      BY <2>2 DEF dec_flush, SendFiltersEof
    <3>2. pc' = [pc EXCEPT ![x] = "exited"]
      BY <2>2 DEF dec_flush
    <3> HIDE DEF EofsStay
    <3> QED BY <2>2, <3>1, <3>2 DEF dec_flush
  <2> QED BY <1>2, <2>1, <2>2 DEF DecNext
<1>3. CASE sch_start
  BY <1>3 DEF sch_start
<1> QED BY <1>1, <1>2, <1>3

LEMMA CalmKeeps ==
  ASSUME IInv, Calm, Types'
  PROVE  IInv'
<1> USE DEF IInv
<1>1. StopInv' /\ SleepersAreChoked'
  <2>1. StopInv'
    <3>1. stopping # <<>> => Head(stopping) \in Sources
      BY DEF Types
    <3> QED BY <3>1 DEF StopInv, Calm
  <2>2. SleepersAreChoked'
    BY DEF SleepersAreChoked, Calm
  <2> QED BY <2>1, <2>2
<1>2. ASSUME ~terminate', EofsStay,
             UNCHANGED <<updateVars, last_dts, source_finished, best_input, receive_finished,
                         task_exited>>
      PROVE  UpdateInv' /\ FreezeInv'
  <2>1. ~terminate /\ UNCHANGED choked /\ UpdateInv /\ FreezeInv
    BY <1>2 DEF Calm
  <2>2. (Good(choked) => Good(choked)') /\ (Good(choked_next) => Good(choked_next)')
    BY <1>2, <2>1, GoodStays DEF updateVars
  <2>3. UpdateInv'
    BY <1>2, <2>1, <2>2 DEF UpdateInv, updateVars
  <2>4. FreezeInv'
    BY <1>2, <2>1 DEF FreezeInv, Calm, updateVars
  <2> QED BY <2>3, <2>4
<1>3. ASSUME ~terminate', lock = None, lock' # None, phase' = "check"
      PROVE  UpdateInv' /\ FreezeInv'
  <2>1. ~terminate /\ UNCHANGED choked /\ phase = "idle" /\ FreezeInv
    BY <1>3 DEF Calm, UpdateInv
  <2>2. UpdateInv'
    BY <1>3 DEF UpdateInv
  <2>3. FreezeInv'
    BY <1>3, <2>1 DEF FreezeInv, Calm
  <2> QED BY <2>2, <2>3
<1> QED BY <1>1, <1>2, <1>3 DEF Calm

-----------------------------------------------------------------------------
(* The steps of an update.                                                 *)

(* Who sleeps is woken when it is no longer choked.                        *)
LEMMA UpdateSleep ==
  ASSUME Types, StopInv, SleepersAreChoked, schedule_update_locked
  PROVE  StopInv' /\ SleepersAreChoked'
<1>1. UNCHANGED <<terminate, stopping>>
  BY DEF schedule_update_locked, UpdateCheck, UpdateLoad, UpdateDecide, UpdateSet, UpdateFreeze, UpdateDone
<1>2. \/ UNCHANGED <<choked, pc>>
      \/ \E w \in Sources, c \in BOOLEAN : waiter_set(w, c)
  <2>1. CASE UpdateSet
    <3>1. PICK i \in DOMAIN todo : waiter_set(todo[i], choked_next[todo[i]])
      BY <2>1 DEF UpdateSet
    <3>2. todo[i] \in Sources
      BY <3>1, ElementOfSeq, LenProperties DEF Types
    <3>3. choked_next[todo[i]] \in BOOLEAN
      BY <3>2 DEF Types
    <3> QED BY <3>1, <3>2, <3>3
  <2> QED
    BY <2>1 DEF schedule_update_locked, UpdateCheck, UpdateLoad, UpdateDecide, UpdateFreeze, UpdateDone
<1>3. ASSUME NEW w \in Sources, NEW c \in BOOLEAN, waiter_set(w, c)
      PROVE  StopInv' /\ SleepersAreChoked'
  <2>1. pc'["main"] = pc["main"]
    BY <1>3 DEF waiter_set, Types
  <2>2. \A v \in Sources : pc'[v] = "asleep" => pc[v] = "asleep" /\ choked'[v] = choked[v]
    BY <1>3 DEF waiter_set, Types
  <2>3. stopping # <<>> => Head(stopping) \in Sources
    BY DEF Types
  <2>4. StopInv'
    BY <1>1, <2>1, <2>2, <2>3 DEF StopInv
  <2>5. SleepersAreChoked'
    BY <1>1, <2>2 DEF SleepersAreChoked
  <2> QED BY <2>4, <2>5
<1>4. CASE UNCHANGED <<choked, pc>>
  BY <1>1, <1>4 DEF StopInv, SleepersAreChoked
<1> QED BY <1>2, <1>3, <1>4

(* Until sch_stop() was called, nobody else sets the waiters.              *)
LEMMA UpdateSchedules ==
  ASSUME Types, UpdateInv, FreezeInv, ~terminate, schedule_update_locked
  PROVE  UpdateInv' /\ FreezeInv'
<1>1. UNCHANGED <<last_dts, source_finished, graphVars>> /\ EofsStay
  BY DEF schedule_update_locked, UpdateCheck, UpdateLoad, UpdateDecide, UpdateSet, UpdateFreeze,
         UpdateDone, streamVars, graphVars, EofsStay
<1>2. /\ UNCHANGED choked => (Good(choked) => Good(choked)')
      /\ UNCHANGED choked_next => (Good(choked_next) => Good(choked_next)')
  BY <1>1, GoodStays DEF graphVars
<1>3. \A x \in FirstDsts : x \in Decs /\ Src[x] \in Demuxers /\ Src[x] \in Sources
  BY DEF Sources
<1>4. CASE UpdateCheck
  <2>1. UNCHANGED <<lock, choked, choked_prev, choked_next, queueVars>> /\ lock # None
    BY <1>4 DEF UpdateCheck, UpdateInv
  <2>2. phase' = "load" /\ phase = "check" /\ todo' = SourceSeq
    BY <1>4 DEF UpdateCheck
  <2>3. Range(todo') = Sources
    BY <2>2, OrderOfSources
  <2>4. UpdateInv'
    BY <2>1, <2>2, <2>3 DEF UpdateInv
  <2> QED BY <2>1, <2>2, <2>4 DEF FreezeInv, queueVars
<1>5. CASE UpdateLoad
  <2>1. /\ UNCHANGED <<lock, phase, choked, choked_next, queueVars>> /\ phase = "load"
        /\ todo # <<>> /\ todo' = Tail(todo)
        /\ choked_prev' = [choked_prev EXCEPT ![Head(todo)] = choked[Head(todo)]]
    BY <1>5 DEF UpdateLoad
  <2>2. Range(todo) = {Head(todo)} \cup Range(todo')
    BY <2>1, RangeOfTail DEF Types
  <2>3. \A w \in Sources \ Range(todo') : choked_prev'[w] = choked'[w]
    BY <2>1, <2>2 DEF UpdateInv, Types
  <2>4. UpdateInv'
    BY <2>1, <2>3 DEF UpdateInv
  <2> QED BY <2>1, <2>4 DEF FreezeInv, queueVars
<1>6. CASE UpdateDecide
  <2>1. /\ UNCHANGED <<lock, choked, choked_prev, queueVars>> /\ phase = "load"
        /\ phase' = "set" /\ todo = <<>> /\ todo' = SourceSeq
        /\ choked_next' = [w \in Sources |-> w \notin Allowed]
    BY <1>6 DEF UpdateDecide
  <2>2. Range(todo) = {}
    BY <2>1 DEF Range
  <2>3. \A w \in Sources : w \in Range(todo') /\ choked'[w] = choked_prev'[w]
    BY <2>1, <2>2, OrderOfSources DEF UpdateInv
  <2>4. Good(choked_next)'
    <3>1. Good([w \in Sources |-> w \notin Allowed])
      BY DecisionIsGood
    <3>2. UNCHANGED <<Wanted, TrailingSources, unchoke_for_stream>>
      BY <1>1, TrailingSame DEF graphVars
    <3>3. UNCHANGED ToldOfEof
      <4> HIDE DEF unchoke_for_stream
      <4> QED BY <1>1, <3>2 DEF ToldOfEof, graphVars
    <3> HIDE DEF Allowed
    <3> QED BY <1>1, <2>1, <3>1, <3>2, <3>3 DEF Good, graphVars
  <2>5. UpdateInv'
    BY <2>1, <2>3, <2>4 DEF UpdateInv
  <2> QED BY <2>1, <2>5 DEF FreezeInv, queueVars
<1>7. CASE UpdateSet
  <2>1. PICK i \in DOMAIN todo :
          /\ \A j \in 1 .. i - 1 : ~Changes(todo[j])
          /\ waiter_set(todo[i], choked_next[todo[i]])
          /\ \/ /\ todo[i] \in Demuxers
                /\ phase' = "freeze" /\ todo' = SubSeq(todo, i, Len(todo))
             \/ /\ todo[i] \notin Demuxers
                /\ phase' = phase /\ todo' = SubSeq(todo, i + 1, Len(todo))
    BY <1>7 DEF UpdateSet
  <2>2. phase = "set" /\ UNCHANGED <<lock, choked_prev, choked_next, queueVars>>
    BY <1>7 DEF UpdateSet
  <2>3. Len(todo) \in Nat /\ i \in 1 .. Len(todo) /\ todo[i] \in Sources
    BY <2>1, LenProperties, ElementOfSeq DEF Types
  <2>4. i \in 1 .. Len(todo) + 1 /\ i + 1 \in 1 .. Len(todo) + 1
    BY <2>3
  <2>5. /\ choked'[todo[i]] = choked_next'[todo[i]]
        /\ \A w \in Sources : w # todo[i] => choked'[w] = choked[w]
    BY <2>1, <2>2, <2>3 DEF waiter_set, Types
  <2>6. \A k \in i + 1 .. Len(todo) : todo[k] \in Range(todo')
    <3>1. /\ \A k \in i .. Len(todo) : todo[k] \in Range(SubSeq(todo, i, Len(todo)))
          /\ \A k \in i + 1 .. Len(todo) : todo[k] \in Range(SubSeq(todo, i + 1, Len(todo)))
      BY <2>4, RangeOfRest DEF Types
    <3>2. \A k \in i + 1 .. Len(todo) : k \in i .. Len(todo)
      BY <2>3
    <3> QED BY <2>1, <3>1, <3>2
  <2>7. ASSUME NEW w \in Sources
        PROVE  \/ choked'[w] = choked_next'[w]
               \/ w \in Range(todo') /\ choked'[w] = choked_prev'[w]
    <3>1. CASE w = todo[i] \/ choked[w] = choked_next[w]
      BY <2>2, <2>5, <3>1
    <3>2. CASE w # todo[i] /\ choked[w] # choked_next[w]
      <4>1. w \in Range(todo) /\ choked[w] = choked_prev[w]
        BY <2>2, <3>2 DEF UpdateInv
      <4>2. PICK k \in 1 .. Len(todo) : todo[k] = w
        BY <4>1, LenProperties DEF Range, Types
      <4>3. Changes(todo[k])
        BY <3>2, <4>1, <4>2 DEF Changes
      <4>4. k \in i + 1 .. Len(todo)
        <5>1. k # i /\ k \notin 1 .. i - 1
          BY <2>1, <3>2, <4>2, <4>3
        <5> QED BY <2>3, <4>2, <5>1
      <4> QED BY <2>2, <2>5, <2>6, <3>2, <4>1, <4>2, <4>4
    <3> QED BY <3>1, <3>2
  <2>8. phase' = "freeze" => Head(todo') = todo[i]
    <3>1. i <= Len(todo) => Head(SubSeq(todo, i, Len(todo))) = todo[i]
      BY <2>4, RangeOfRest DEF Types
    <3>2. ASSUME phase' = "freeze" PROVE todo' = SubSeq(todo, i, Len(todo))
      BY <2>1, <2>2, <3>2
    <3>3. i <= Len(todo)
      BY <2>3
    <3> QED BY <3>1, <3>2, <3>3, Zenon
  <2>9. UpdateInv'
    BY <1>2, <2>1, <2>2, <2>5, <2>7, <2>8 DEF UpdateInv
  <2>10. FreezeInv'
    BY <1>3, <2>1, <2>2, <2>5, <2>8 DEF FreezeInv, queueVars
  <2> QED BY <2>9, <2>10
<1>8. CASE UpdateFreeze
  <2>1. /\ UNCHANGED <<lock, choked, choked_prev, choked_next, sendClosed>>
        /\ phase = "freeze" /\ phase' = "set" /\ todo' = Tail(todo)
        /\ choke_demux(Head(todo), choked_next[Head(todo)])
    BY <1>8 DEF UpdateFreeze
  <2>2. todo # <<>> /\ choked[Head(todo)] = choked_next[Head(todo)]
    BY <2>1 DEF UpdateInv, Types
  <2>3. Range(todo) = {Head(todo)} \cup Range(todo')
    BY <2>1, <2>2, RangeOfTail DEF Types
  <2>4. UpdateInv'
    BY <1>2, <2>1, <2>2, <2>3 DEF UpdateInv
  <2>5. FreezeInv'
    BY <1>3, <2>1, <2>2 DEF FreezeInv, choke_demux, DecsOf
  <2> QED BY <2>4, <2>5
<1>9. CASE UpdateDone
  <2>1. /\ UNCHANGED <<choked, queueVars>> /\ phase = "set" /\ phase' = "idle" /\ lock' = None
        /\ \A i \in DOMAIN todo : ~Changes(todo[i])
    BY <1>9 DEF UpdateDone, Unlock
  <2>2. \A w \in Sources : choked[w] = choked_next[w]
    BY <2>1 DEF UpdateInv, Changes, Range
  <2>3. Good(choked)
    <3>1. TrailingSources \subseteq Sources
      BY DEF TrailingSources
    <3> QED BY <2>1, <2>2, <3>1 DEF UpdateInv, Good
  <2>4. UpdateInv'
    BY <1>2, <2>1, <2>3 DEF UpdateInv
  <2> QED BY <2>1, <2>4 DEF FreezeInv, queueVars
<1> QED BY <1>4, <1>5, <1>6, <1>7, <1>8, <1>9 DEF schedule_update_locked

-----------------------------------------------------------------------------
(* sch_stop(), after which there is only the waking of sources to see to.  *)

LEMMA StopKeeps ==
  ASSUME IInv, sch_stop \/ StopNext
  PROVE  IInv'
<1> USE DEF IInv
<1>1. stopping # <<>> => Head(stopping) \in Sources /\ Range(stopping) = {Head(stopping)} \cup Range(Tail(stopping))
  BY RangeOfTail DEF Types
<1>2. CASE sch_stop
  <2>1. Types'
    BY <1>2, OtherTypes
  <2>2. /\ terminate' /\ UNCHANGED choked /\ stopping' = FilterSeq \o DemuxSeq
        /\ pc' = [pc EXCEPT !["main"] = "choking"]
    BY <1>2 DEF sch_stop, Goto
  <2>3. pc'["main"] = "choking" /\ \A w \in Sources : pc'[w] = pc[w]
    BY <2>2 DEF Types
  <2>4. StopInv' /\ SleepersAreChoked'
    BY <2>2, <2>3, OrderOfSources DEF StopInv, SleepersAreChoked
  <2> QED BY <2>1, <2>2, <2>4
<1>3. CASE StopChoke
  <2>1. Types'
    <3>1. Head(stopping) \in Sources /\ stopping' \in Seq(Sources)
      BY <1>3 DEF StopChoke, Types
    <3> QED BY <1>3, <3>1 DEF StopChoke, Types, Places, updateVars, streamVars, graphVars, queueVars
  <2>2. terminate /\ terminate'
    BY <1>3 DEF StopChoke, StopInv
  <2> DEFINE w == Head(stopping)
  <2>3. /\ w \in Sources /\ stopping # <<>> /\ choked' = [choked EXCEPT ![w] = TRUE]
        /\ pc["main"] = "choking"
        /\ pc'["main"] = IF w \in Demuxers THEN "unfreezing" ELSE "choking"
        /\ stopping' = IF w \in Demuxers THEN stopping ELSE Tail(stopping)
        /\ pc'[w] # "asleep" /\ \A v \in Sources : v # w => pc'[v] = pc[v]
    BY <1>1, <1>3 DEF StopChoke, Types
  <2>4. StopInv'
    BY <2>2, <2>3 DEF StopInv
  <2>5. SleepersAreChoked'
    BY <1>1, <2>2, <2>3 DEF SleepersAreChoked, Types
  <2> QED BY <2>1, <2>2, <2>4, <2>5
<1>4. CASE StopUnfreeze
  <2>1. stopping # <<>> /\ pc[Head(stopping)] # "asleep" /\ terminate
    BY <1>4 DEF StopUnfreeze, StopInv
  <2>2. Types'
    BY <1>4, <2>1, OtherTypes
  <2>3. /\ terminate' /\ UNCHANGED choked /\ stopping' = Tail(stopping)
        /\ pc'["main"] = "choking" /\ \A w \in Sources : pc'[w] = pc[w]
    BY <1>4, <2>1 DEF StopUnfreeze, Goto, Types
  <2>4. StopInv' /\ SleepersAreChoked'
    BY <1>1, <2>1, <2>3 DEF StopInv, SleepersAreChoked
  <2> QED BY <2>2, <2>3, <2>4
<1>5. CASE StopJoin
  <2>1. Types'
    BY <1>5, OtherTypes
  <2>2. terminate /\ terminate'
    BY <1>5 DEF StopJoin, StopInv
  <2>3. /\ UNCHANGED <<choked, stopping>> /\ pc'["main"] = "stopped"
        /\ \A w \in Sources : pc'[w] = pc[w]
    BY <1>5 DEF StopJoin, Goto, Types
  <2>4. StopInv' /\ SleepersAreChoked'
    BY <2>2, <2>3 DEF StopInv, SleepersAreChoked
  <2> QED BY <2>1, <2>2, <2>4
<1> QED BY <1>2, <1>3, <1>4, <1>5 DEF StopNext

-----------------------------------------------------------------------------
(* All steps.                                                              *)

LEMMA NextIInv == IInv /\ [Next]_vars => IInv'
<1> SUFFICES ASSUME IInv, [Next]_vars PROVE IInv'
  OBVIOUS
<1>1. Types
  BY DEF IInv
<1>2. CASE schedule_update_locked
  <2>1. Types' /\ StopInv' /\ SleepersAreChoked'
    BY <1>2, UpdateTypes, UpdateSleep DEF IInv
  <2>2. UNCHANGED terminate
    BY <1>2 DEF schedule_update_locked, UpdateCheck, UpdateLoad, UpdateDecide, UpdateSet,
                UpdateFreeze, UpdateDone
  <2>3. ~terminate => UpdateInv' /\ FreezeInv'
    BY <1>2, UpdateSchedules DEF IInv
  <2> QED BY <2>1, <2>2, <2>3 DEF IInv
<1>3. CASE sch_stop \/ StopNext
  BY <1>3, StopKeeps
<1>4. CASE WorkerNext \/ (\E x \in Decs : DecNext(x)) \/ sch_start
  BY <1>1, <1>4, OtherTypes, OthersAreCalm, CalmKeeps
<1>5. ASSUME NEW w \in Sources, WaiterNext(w) \/ SpuriousWakeup(w) \/ source_exit(w)
      PROVE  IInv'
  BY <1>1, <1>5, SourceTypes, SourcesAreCalm, CalmKeeps
<1>6. ASSUME NEW d \in Demuxers, DemuxNext(d) PROVE IInv'
  BY <1>1, <1>6, DemuxTypes, DemuxersAreCalm, CalmKeeps
<1>7. ASSUME NEW f \in Filters, FilterNext(f) PROVE IInv'
  BY <1>1, <1>7, FilterTypes, FiltersAreCalm, CalmKeeps
<1>8. CASE UNCHANGED vars
  <2>1. /\ UNCHANGED <<last_dts, source_finished, best_input, receive_finished, task_exited,
                       choked, choked_next>>
        /\ EofsStay
    BY <1>8 DEF vars, EofsStay
  <2>2. Types' /\ StopInv' /\ SleepersAreChoked' /\ (FreezeInv <=> FreezeInv')
    BY <1>8 DEF IInv, vars, Types, StopInv, SleepersAreChoked, FreezeInv
  <2>3. UpdateInv => UpdateInv'
    <3>1. (Good(choked) => Good(choked)') /\ (Good(choked_next) => Good(choked_next)')
      BY <2>1, GoodStays
    <3> QED BY <1>8, <3>1 DEF vars, UpdateInv
  <2>4. UNCHANGED terminate
    BY <1>8 DEF vars
  <2> QED BY <2>2, <2>3, <2>4 DEF IInv
<1> QED BY <1>2, <1>3, <1>4, <1>5, <1>6, <1>7, <1>8 DEF Next

LEMMA SpecIInv == Spec => []IInv
<1>1. IInv /\ [Next]_vars => IInv'
  BY NextIInv
<1> QED BY InitIInv, <1>1, PTL DEF Spec

-----------------------------------------------------------------------------
(* A source sleeps in waiter_wait() only while it is choked, and is woken  *)
(* by sch_stop(): neither waiter_set(), which signals once, nor the look   *)
(* at choked without the lock loses a wakeup.                              *)
THEOREM NoSourceSleepsOn == Spec => []SleepersAreChoked
<1>1. IInv => SleepersAreChoked
  BY DEF IInv
<1> QED BY SpecIInv, <1>1, PTL

(* schedule_update_locked() lets the sources of all trailing streams run,  *)
(* in every graph: what it has read of the waiters is still so when it     *)
(* sets those that change.                                                 *)
THEOREM TrailingSourcesRun == Spec => []TrailingRuns
<1>1. IInv => TrailingRuns
  BY DEF IInv, UpdateInv, Good, TrailingRuns, Settled
<1> QED BY SpecIInv, <1>1, PTL

(* choke_demux() and waiter_set() agree on what waits, although queues are *)
(* also unfrozen by tq_send_finish().                                      *)
THEOREM QueuesFollowTheirDemuxer == Spec => []FrozenAsChoked
<1>1. IInv => FrozenAsChoked
  BY DEF IInv, UpdateInv, FreezeInv, FrozenAsChoked, Settled
<1> QED BY SpecIInv, <1>1, PTL

(* The same of the sources of closed inputs, although send_finished is set *)
(* without schedule_lock: an update may only let run too many sources.     *)
THEOREM ClosedInputsRun == Spec => []ClosedInputsAreTold
<1>1. IInv => ClosedInputsAreTold
  BY DEF IInv, UpdateInv, Good, ClosedInputsAreTold, Settled
<1> QED BY SpecIInv, <1>1, PTL

(* Of the sources that have not exited one may run, if only for the sake   *)
(* of the fallback of schedule_update_locked().  The exception is the one  *)
(* of the code: a trailing stream counts also when its source has exited.  *)
THEOREM SomebodyRuns == Spec => []SomeSourceRuns
<1>1. IInv => SomeSourceRuns
  <2> SUFFICES ASSUME Good(choked), Wanted # {}
               PROVE  \/ \E w \in Sources : ~choked[w] /\ ~task_exited[w]
                      \/ \A w \in TrailingSources : task_exited[w]
    BY DEF IInv, UpdateInv, Good, SomeSourceRuns, Settled
  <2>1. \A w \in TrailingSources : w \in Sources /\ ~choked[w]
    BY DEF Good, TrailingSources
  <2> QED BY <2>1
<1> QED BY SpecIInv, <1>1, PTL
=============================================================================
