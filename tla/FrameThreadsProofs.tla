------------------------- MODULE FrameThreadsProofs -------------------------
(***************************************************************************)
(* A hwaccel that is not thread safe is used in turn, the contexts are     *)
(* handed on in order, and the caller gets all the frames in the order of  *)
(* the packets, whatever the number of threads, packets, frames, flushes   *)
(* and errors.                                                             *)
(***************************************************************************)
EXTENDS FrameThreads, SequenceInduction, SequenceTheorems, TLAPS

-----------------------------------------------------------------------------
(* The inductive invariant.                                                *)

Types ==
  /\ state \in [Workers -> {"INPUT_READY", "SETTING_UP", "SETUP_FINISHED"}]
  /\ wpc \in [Workers -> {"top", "input", "setup", "serialize", "async", "publish", "decode",
                          "finish", "dead"}]
  /\ user \in {"outside", "loop", "submit", "update", "collect", "leave", "park", "free", "freed"}
  /\ next_decoding \in Workers /\ next_finished \in Workers
  /\ hwaccel \subseteq Workers
  /\ hwaccel_serializing \subseteq Workers /\ async_serializing \subseteq Workers
  /\ stash_hwaccel \in BOOLEAN /\ async_lock \in BOOLEAN

(* What state says of where a thread is.                                   *)
PlaceInv ==
  \A w \in Workers :
    /\ wpc[w] \in {"setup", "serialize", "async", "publish"} => state[w] = "SETTING_UP"
    /\ wpc[w] \in {"decode", "finish"} => state[w] = "SETUP_FINISHED"
    /\ wpc[w] \in {"top", "input", "dead"} => state[w] # "SETUP_FINISHED"

(* The threads that were given a packet and not collected yet are those    *)
(* from next_finished up to next_decoding, going round.                    *)
Given(w) ==
  IF next_finished <= next_decoding
  THEN next_finished <= w /\ w < next_decoding
  ELSE next_finished <= w \/ w < next_decoding

RingInv ==
  /\ \/ user = "collect" /\ next_finished = next_decoding
     \/ \A w \in Workers : ~Given(w) => state[w] = "INPUT_READY"
  /\ user = "update" => wpc[next_decoding] = "input"

(* Only the thread that was given the last packet is being set up, and it  *)
(* took the hwaccel's state that was stashed.                              *)
SetupInv ==
  \A w \in Workers : state[w] = "SETTING_UP" => prev_thread = w /\ ~stash_hwaccel

(* hwaccel_mutex, and what a thread that has the hwaccel holds.            *)
HwaccelInv ==
  /\ \A w \in hwaccel_serializing :
       /\ hwaccel_mutex = w
       /\ wpc[w] \in {"setup", "serialize", "async", "publish", "decode"}
  /\ \A w \in hwaccel :
       /\ state[w] # "INPUT_READY" /\ wpc[w] # "finish"
       /\ wpc[w] \in {"async", "publish", "decode"} => w \in hwaccel_serializing
       /\ wpc[w] \in {"publish", "decode"} => w \in async_serializing

(* async_lock: held by the caller outside of its calls, or by one thread.  *)
AsyncInv ==
  /\ user \in {"outside", "free", "freed"} => async_lock /\ async_serializing = {}
  /\ \A w \in async_serializing :
       /\ async_lock
       /\ wpc[w] \in {"publish", "decode"}
       /\ \A v \in async_serializing : v = w

IInv == Types /\ PlaceInv /\ RingInv /\ SetupInv /\ HwaccelInv /\ AsyncInv

USE FrameThreadsAssumption DEF FrameThreadsAssumption

LEMMA InitIInv == Init => IInv
<1> SUFFICES ASSUME Init PROVE IInv
  OBVIOUS
<1>1. 0 \in Workers
  BY DEF Workers
<1> QED
  BY <1>1 DEF Init, IInv, Types, PlaceInv, RingInv, Given, SetupInv, HwaccelInv, AsyncInv

-----------------------------------------------------------------------------
(* The threads.                                                            *)

(* What a thread's step leaves alone for sure.                             *)
LEMMA WorkerFrame ==
  ASSUME Types, NEW w \in Workers, WorkerStep(w)
  PROVE  /\ UNCHANGED <<user, next_decoding, next_finished, prev_thread>>
         /\ \A v \in Workers : v # w => state'[v] = state[v] /\ wpc'[v] = wpc[v]
         /\ Types'
<1> USE DEF Types, Goto, workerVars, userVars, lockVars, hwVars, LockIfSerial, LockHwaccel
<1>1. CASE WaitForInput(w)
  BY <1>1 DEF WaitForInput
<1>2. CASE GetInput(w)
  BY <1>2 DEF GetInput
<1>3. CASE Start(w)
  BY <1>3 DEF Start
<1>4. CASE SetUp(w)
  BY <1>4 DEF SetUp
<1>5. CASE NothingToDecode(w)
  BY <1>5 DEF NothingToDecode
<1>6. CASE Serialize(w)
  BY <1>6 DEF Serialize
<1>7. CASE LockAsync(w)
  BY <1>7 DEF LockAsync
<1>8. CASE ff_thread_finish_setup(w)
  BY <1>8 DEF ff_thread_finish_setup
<1>9. CASE AwaitProgress(w)
  BY <1>9 DEF AwaitProgress
<1>10. CASE ReportProgress(w)
  BY <1>10 DEF ReportProgress
<1>11. CASE Release(w)
  BY <1>11 DEF Release
<1>12. CASE Finish(w)
  BY <1>12 DEF Finish
<1> QED
  BY <1>1, <1>2, <1>3, <1>4, <1>5, <1>6, <1>7, <1>8, <1>9, <1>10, <1>11, <1>12 DEF WorkerStep

LEMMA WorkerKeeps ==
  ASSUME IInv, NEW w \in Workers, WorkerStep(w)
  PROVE  IInv'
<1>0. /\ UNCHANGED <<user, next_decoding, next_finished, prev_thread>>
      /\ \A v \in Workers : v # w => state'[v] = state[v] /\ wpc'[v] = wpc[v]
      /\ Types /\ Types'
  BY WorkerFrame DEF IInv
<1> USE DEF IInv, Goto, workerVars, userVars, lockVars, hwVars, LockIfSerial, LockHwaccel
<1>1. CASE WaitForInput(w)
  <2>1. PlaceInv' /\ SetupInv' /\ RingInv'
    BY <1>0, <1>1 DEF WaitForInput, PlaceInv, SetupInv, RingInv, Given, Types
  <2>2. HwaccelInv' /\ AsyncInv'
    BY <1>0, <1>1 DEF WaitForInput, HwaccelInv, AsyncInv, Types
  <2> QED BY <1>0, <2>1, <2>2
<1>2. CASE GetInput(w)
  <2>1. PlaceInv' /\ SetupInv' /\ RingInv'
    BY <1>0, <1>2 DEF GetInput, PlaceInv, SetupInv, RingInv, Given, Types
  <2>2. HwaccelInv' /\ AsyncInv'
    BY <1>0, <1>2 DEF GetInput, HwaccelInv, AsyncInv, Types
  <2> QED BY <1>0, <2>1, <2>2
<1>3. CASE Start(w)
  <2>1. PlaceInv' /\ SetupInv' /\ RingInv'
    BY <1>0, <1>3 DEF Start, PlaceInv, SetupInv, RingInv, Given, Types
  <2>2. UNCHANGED <<state, hwaccel, async_lock, async_serializing>>
    BY <1>3 DEF Start
  <2>3. hwaccel_serializing' = hwaccel_serializing \/ hwaccel_serializing' = hwaccel_serializing \cup {w}
    BY <1>3 DEF Start
  <2>4. \A v \in hwaccel_serializing' : hwaccel_mutex' = v
    <3>1. CASE w \in hwaccel \ hwaccel_serializing
      <4>1. hwaccel_serializing = {}
        BY <1>3, <3>1 DEF Start, HwaccelInv, Types, Workers, None
      <4> QED BY <1>3, <3>1, <4>1 DEF Start
    <3>2. CASE w \notin hwaccel \ hwaccel_serializing
      BY <1>3, <3>2 DEF Start, HwaccelInv
    <3> QED BY <3>1, <3>2
  <2>5. w \in hwaccel => w \in hwaccel_serializing'
    BY <1>3 DEF Start
  <2>6. HwaccelInv'
    BY <1>0, <1>3, <2>2, <2>3, <2>4, <2>5 DEF Start, HwaccelInv, Types
  <2>7. AsyncInv'
    BY <1>0, <1>3, <2>2 DEF Start, AsyncInv, Types
  <2> QED BY <1>0, <2>1, <2>6, <2>7
<1>4. CASE SetUp(w)
  <2>1. PlaceInv' /\ SetupInv' /\ RingInv'
    BY <1>0, <1>4 DEF SetUp, PlaceInv, SetupInv, RingInv, Given, Types
  <2>2. HwaccelInv' /\ AsyncInv'
    BY <1>0, <1>4 DEF SetUp, HwaccelInv, AsyncInv, PlaceInv, Types
  <2> QED BY <1>0, <2>1, <2>2
<1>5. CASE NothingToDecode(w)
  <2>1. PlaceInv' /\ SetupInv' /\ RingInv'
    BY <1>0, <1>5 DEF NothingToDecode, PlaceInv, SetupInv, RingInv, Given, Types
  <2>2. HwaccelInv' /\ AsyncInv'
    BY <1>0, <1>5 DEF NothingToDecode, HwaccelInv, AsyncInv, Types
  <2> QED BY <1>0, <2>1, <2>2
<1>6. CASE Serialize(w)
  <2>1. PlaceInv' /\ SetupInv' /\ RingInv'
    BY <1>0, <1>6 DEF Serialize, PlaceInv, SetupInv, RingInv, Given, Types
  <2>2. UNCHANGED <<state, hwaccel, async_lock, async_serializing>>
    BY <1>6 DEF Serialize
  <2>3. hwaccel_serializing' = hwaccel_serializing \/ hwaccel_serializing' = hwaccel_serializing \cup {w}
    BY <1>6 DEF Serialize
  <2>4. \A v \in hwaccel_serializing' : hwaccel_mutex' = v
    <3>1. CASE w \in hwaccel \ hwaccel_serializing
      <4>1. hwaccel_serializing = {}
        BY <1>6, <3>1 DEF Serialize, HwaccelInv, Types, Workers, None
      <4> QED BY <1>6, <3>1, <4>1 DEF Serialize
    <3>2. CASE w \notin hwaccel \ hwaccel_serializing
      BY <1>6, <3>2 DEF Serialize, HwaccelInv
    <3> QED BY <3>1, <3>2
  <2>5. w \in hwaccel => w \in hwaccel_serializing'
    BY <1>6 DEF Serialize
  <2>6. HwaccelInv'
    BY <1>0, <1>6, <2>2, <2>3, <2>4, <2>5 DEF Serialize, HwaccelInv, Types
  <2>7. AsyncInv'
    BY <1>0, <1>6, <2>2 DEF Serialize, AsyncInv, Types
  <2> QED BY <1>0, <2>1, <2>6, <2>7
<1>7. CASE LockAsync(w)
  <2>1. PlaceInv' /\ SetupInv' /\ RingInv'
    BY <1>0, <1>7 DEF LockAsync, PlaceInv, SetupInv, RingInv, Given, Types
  <2>2. HwaccelInv' /\ AsyncInv'
    BY <1>0, <1>7 DEF LockAsync, HwaccelInv, AsyncInv, Types
  <2> QED BY <1>0, <2>1, <2>2
<1>8. CASE ff_thread_finish_setup(w)
  <2>1. PlaceInv' /\ RingInv'
    BY <1>0, <1>8 DEF ff_thread_finish_setup, PlaceInv, RingInv, Given, Types
  <2>2. SetupInv'
    BY <1>0, <1>8 DEF ff_thread_finish_setup, PlaceInv, SetupInv, Types
  <2>3. HwaccelInv' /\ AsyncInv'
    BY <1>0, <1>8 DEF ff_thread_finish_setup, HwaccelInv, AsyncInv, Types
  <2> QED BY <1>0, <2>1, <2>2, <2>3
<1>9. CASE AwaitProgress(w) \/ ReportProgress(w)
  <2>1. UNCHANGED <<state, wpc, hwaccel, hwaccel_serializing, async_serializing, stash_hwaccel,
                    async_lock, hwaccel_mutex>>
    BY <1>9 DEF AwaitProgress, ReportProgress
  <2> QED BY <1>0, <2>1 DEF PlaceInv, SetupInv, RingInv, Given, HwaccelInv, AsyncInv
<1>11. CASE Release(w)
  <2>1. PlaceInv' /\ SetupInv' /\ RingInv'
    BY <1>0, <1>11 DEF Release, PlaceInv, SetupInv, RingInv, Given, Types
  <2>2. HwaccelInv'
    BY <1>0, <1>11 DEF Release, HwaccelInv, AsyncInv, Types
  <2>3. AsyncInv'
    BY <1>0, <1>11 DEF Release, AsyncInv, Types
  <2> QED BY <1>0, <2>1, <2>2, <2>3
<1>12. CASE Finish(w)
  <2>1. PlaceInv' /\ SetupInv' /\ RingInv'
    BY <1>0, <1>12 DEF Finish, PlaceInv, SetupInv, RingInv, Given, Types
  <2>2. HwaccelInv' /\ AsyncInv'
    BY <1>0, <1>12 DEF Finish, HwaccelInv, AsyncInv, Types
  <2> QED BY <1>0, <2>1, <2>2
<1> QED
  BY <1>1, <1>2, <1>3, <1>4, <1>5, <1>6, <1>7, <1>8, <1>9, <1>11, <1>12 DEF WorkerStep

-----------------------------------------------------------------------------
(* The caller.                                                             *)

(* Steps that only take the caller on to another place in its call.        *)
LEMMA MoveKeeps ==
  ASSUME IInv, Types', AsyncInv',
         UNCHANGED <<state, wpc, next_decoding, next_finished, prev_thread, hwaccel,
                     hwaccel_mutex, hwaccel_serializing, async_serializing, stash_hwaccel>>,
         user' = user \/ (user # "collect" /\ user' # "update")
  PROVE  IInv'
BY DEF IInv, PlaceInv, RingInv, Given, SetupInv, HwaccelInv

LEMMA MovesKeep ==
  ASSUME IInv,
         \/ ff_thread_receive_frame \/ GetPacket \/ WaitForSetUp \/ SubmitFails \/ WaitForOutput
         \/ ReturnFrame \/ ReturnResult \/ Leave \/ avcodec_flush_buffers \/ Free
         \/ park_frame_worker_threads \/ StartFree \/ Die \/ Freed
  PROVE  IInv'
<1> USE DEF IInv, workerVars, userVars, lockVars, hwVars
<1>1. CASE ff_thread_receive_frame \/ avcodec_flush_buffers \/ Free
  <2>1. /\ UNCHANGED <<state, wpc, next_decoding, next_finished, prev_thread, hwaccel,
                       hwaccel_mutex, hwaccel_serializing, async_serializing, stash_hwaccel>>
        /\ user = "outside" /\ user' \in {"loop", "park"} /\ async_lock' = FALSE
    BY <1>1 DEF ff_thread_receive_frame, avcodec_flush_buffers, Free, ParkFor, async_unlock
  <2>2. Types' /\ AsyncInv'
    BY <2>1 DEF Types, AsyncInv
  <2> QED BY <2>1, <2>2, MoveKeeps
<1>2. CASE GetPacket \/ SubmitFails \/ ReturnFrame \/ ReturnResult
  <2>1. /\ UNCHANGED <<state, wpc, next_decoding, next_finished, prev_thread, hwaccel, async_lock,
                       hwaccel_mutex, hwaccel_serializing, async_serializing, stash_hwaccel>>
        /\ user \in {"loop", "update"} /\ user' \in {"submit", "leave"}
    BY <1>2 DEF GetPacket, SubmitFails, ReturnFrame, ReturnResult
  <2>2. Types' /\ AsyncInv'
    BY <2>1 DEF Types, AsyncInv
  <2> QED BY <2>1, <2>2, MoveKeeps
<1>3. CASE WaitForSetUp \/ WaitForOutput \/ park_frame_worker_threads \/ Die
  <2>1. UNCHANGED <<state, wpc, next_decoding, next_finished, prev_thread, hwaccel, async_lock,
                    hwaccel_mutex, hwaccel_serializing, async_serializing, stash_hwaccel, user>>
    BY <1>3 DEF WaitForSetUp, WaitForOutput, park_frame_worker_threads, Die
  <2>2. Types' /\ AsyncInv'
    BY <2>1 DEF Types, AsyncInv
  <2> QED BY <2>1, <2>2, MoveKeeps
<1>4. CASE Leave \/ StartFree
  <2>1. /\ UNCHANGED <<state, wpc, next_decoding, next_finished, prev_thread, hwaccel,
                       hwaccel_mutex, hwaccel_serializing, async_serializing, stash_hwaccel>>
        /\ user \in {"leave", "park"} /\ user' \in {"outside", "free"}
        /\ ~async_lock /\ async_lock'
    BY <1>4 DEF Leave, StartFree, async_lock_again
  <2>2. Types' /\ AsyncInv'
    BY <1>4, <2>1 DEF Types, AsyncInv, Leave, StartFree, async_lock_again
  <2> QED BY <2>1, <2>2, MoveKeeps
<1>5. CASE Freed
  <2>1. /\ UNCHANGED <<state, wpc, next_decoding, next_finished, prev_thread, hwaccel, async_lock,
                       hwaccel_mutex, hwaccel_serializing, async_serializing, stash_hwaccel>>
        /\ user = "free" /\ user' = "freed"
    BY <1>5 DEF Freed
  <2>2. Types' /\ AsyncInv'
    BY <2>1 DEF Types, AsyncInv
  <2> QED BY <2>1, <2>2, MoveKeeps
<1> QED BY <1>1, <1>2, <1>3, <1>4, <1>5

(* Going round.                                                            *)
LEMMA NextWorker ==
  ASSUME NEW w \in Workers
  PROVE  /\ (w + 1) % NbThreads \in Workers
         /\ (w + 1) % NbThreads = IF w = NbThreads - 1 THEN 0 ELSE w + 1
<1>1. CASE w = NbThreads - 1
  BY <1>1 DEF Workers
<1>2. CASE w # NbThreads - 1
  <2>1. w + 1 \in 0 .. NbThreads - 1
    BY <1>2 DEF Workers
  <2>2. (w + 1) % NbThreads = w + 1
    BY <2>1
  <2> QED BY <1>2, <2>1, <2>2 DEF Workers
<1> QED BY <1>1, <1>2

LEMMA SubmitKeeps ==
  ASSUME IInv, submit_packet \/ Submitted
  PROVE  IInv'
<1> USE DEF IInv, workerVars, userVars, lockVars, hwVars
<1>1. CASE submit_packet
  <2>1. /\ UNCHANGED <<state, wpc, next_decoding, next_finished, prev_thread, hwaccel, async_lock,
                       hwaccel_mutex, hwaccel_serializing, async_serializing, stash_hwaccel>>
        /\ user = "submit" /\ user' = "update" /\ wpc[next_decoding] = "input"
    BY <1>1 DEF submit_packet
  <2>2. Types' /\ AsyncInv'
    BY <2>1 DEF Types, AsyncInv
  <2> QED BY <2>1, <2>2 DEF PlaceInv, RingInv, Given, SetupInv, HwaccelInv
<1>2. CASE Submitted
  <2> DEFINE w == next_decoding
  <2>1. /\ user = "update" /\ PrevIsSetUp
        /\ UNCHANGED <<wpc, next_finished, async_lock, hwaccel_mutex, hwaccel_serializing,
                       async_serializing>>
        /\ hwaccel' = IF stash_hwaccel THEN hwaccel \cup {w} ELSE hwaccel \ {w}
        /\ stash_hwaccel' = (w \in hwaccel)
        /\ state' = [state EXCEPT ![w] = "SETTING_UP"]
        /\ prev_thread' = w /\ next_decoding' = (w + 1) % NbThreads
        /\ \/ user' = "loop" /\ next_decoding' # next_finished
           \/ user' = "collect"
    BY <1>2 DEF Submitted
  <2>2. w \in Workers /\ wpc[w] = "input" /\ next_decoding' \in Workers
    BY <2>1, NextWorker DEF RingInv, Types
  <2>3. state[w] = "INPUT_READY" /\ w \notin hwaccel
    <3>1. ~Given(w)
      BY <2>2 DEF Given, Types, Workers
    <3> QED BY <2>1, <2>2, <3>1 DEF RingInv, HwaccelInv
  <2>4. Types'
    BY <2>1, <2>2 DEF Types
  <2>5. PlaceInv' /\ HwaccelInv' /\ AsyncInv'
    BY <2>1, <2>2, <2>3 DEF PlaceInv, HwaccelInv, AsyncInv, Types
  <2>6. SetupInv'
    <3>1. \A v \in Workers : v # w => state'[v] = state[v] /\ state[v] # "SETTING_UP"
      BY <2>1, <2>2 DEF SetupInv, PrevIsSetUp, None, Workers, Types
    <3> QED BY <2>1, <2>3, <3>1 DEF SetupInv
  <2>7. RingInv'
    <3>1. ASSUME next_decoding' # next_finished, NEW v \in Workers, ~Given(v)'
          PROVE  state'[v] = "INPUT_READY"
      <4>1. v # w /\ ~Given(v)
        BY <2>1, <2>2, <3>1, NextWorker DEF Given, Types, Workers
      <4> QED BY <2>1, <4>1 DEF RingInv, Types
    <3>2. next_decoding' = next_finished => user' = "collect"
      BY <2>1
    <3> QED BY <2>1, <3>1, <3>2 DEF RingInv
  <2> QED BY <2>4, <2>5, <2>6, <2>7
<1> QED BY <1>1, <1>2

LEMMA CollectKeeps ==
  ASSUME IInv, Collect
  PROVE  IInv'
<1> USE DEF IInv, lockVars, hwVars
<1>1. /\ UNCHANGED <<state, wpc, next_decoding, prev_thread, hwaccel, async_lock, hwaccel_mutex,
                     hwaccel_serializing, async_serializing, stash_hwaccel>>
      /\ user = "collect" /\ user' = "loop"
      /\ state[next_finished] = "INPUT_READY"
      /\ next_finished' = (next_finished + 1) % NbThreads
  BY DEF Collect
<1>2. Types' /\ AsyncInv'
  BY <1>1, NextWorker DEF Types, AsyncInv
<1>3. PlaceInv' /\ SetupInv' /\ HwaccelInv'
  BY <1>1 DEF PlaceInv, SetupInv, HwaccelInv
<1>4. ASSUME NEW v \in Workers, ~Given(v)' PROVE state[v] = "INPUT_READY"
  <2>1. v = next_finished \/ (next_finished # next_decoding /\ ~Given(v))
    BY <1>1, <1>4, NextWorker DEF Given, Types, Workers
  <2> QED BY <1>1, <2>1 DEF RingInv
<1>5. RingInv'
  BY <1>1, <1>4 DEF RingInv
<1> QED BY <1>2, <1>3, <1>5

LEMMA FlushKeeps ==
  ASSUME IInv, ff_thread_flush
  PROVE  IInv'
<1> USE DEF IInv, hwVars
<1>1. /\ UNCHANGED <<state, wpc, hwaccel, hwaccel_mutex, hwaccel_serializing, async_serializing,
                     stash_hwaccel>>
      /\ user = "park" /\ user' = "outside" /\ ~async_lock /\ async_lock' = TRUE
      /\ next_decoding' = 0 /\ next_finished' = 0
      /\ Unparked = {}
  BY DEF ff_thread_flush, async_lock_again
<1>2. \A w \in Workers : state[w] = "INPUT_READY"
  BY <1>1 DEF Unparked
<1>3. Types' /\ AsyncInv'
  BY <1>1 DEF Types, AsyncInv, Workers
<1>4. PlaceInv' /\ SetupInv' /\ HwaccelInv' /\ RingInv'
  BY <1>1, <1>2 DEF PlaceInv, SetupInv, HwaccelInv, RingInv
<1> QED BY <1>3, <1>4

-----------------------------------------------------------------------------
LEMMA NextIInv == IInv /\ [Next]_vars => IInv'
<1> SUFFICES ASSUME IInv, [Next]_vars PROVE IInv'
  OBVIOUS
<1>1. CASE UserStep
  BY <1>1, MovesKeep, SubmitKeeps, CollectKeeps, FlushKeeps DEF UserStep, InCall
<1>2. ASSUME NEW w \in Workers, WorkerStep(w) PROVE IInv'
  BY <1>2, WorkerKeeps
<1>3. CASE UNCHANGED vars
  BY <1>3 DEF vars, workerVars, userVars, lockVars, hwVars, IInv, Types, PlaceInv, RingInv, Given,
              SetupInv, HwaccelInv, AsyncInv
<1> QED BY <1>1, <1>2, <1>3 DEF Next

(* frame_worker_thread() and ff_thread_finish_setup() serialize the use of *)
(* a hwaccel that is not safe for threads, its state goes on to the next   *)
(* thread only when that one is not set up yet, and the caller never runs  *)
(* outside of its calls while a thread uses the hwaccel.                   *)
THEOREM HwaccelIsUsedInTurn == Spec => []HwaccelInTurn
<1>1. IInv => HwaccelInTurn
  BY DEF IInv, HwaccelInTurn, PlaceInv, SetupInv, HwaccelInv, AsyncInv, Types
<1>2. IInv /\ [Next]_vars => IInv'
  BY NextIInv
<1> QED BY InitIInv, <1>1, <1>2, PTL DEF Spec

-----------------------------------------------------------------------------
(* SetupInOrder.                                                           *)

ContextTypes ==
  /\ nb_packets \in Nat /\ setups \subseteq 1 .. nb_packets
  /\ avpkt \in [Workers -> Nat] /\ next_pkt \in Nat
  /\ header \in [Workers -> Int]
  /\ prev_thread \in Workers \cup {None}
  /\ draining \in BOOLEAN /\ drained \in BOOLEAN

(* The threads are given packets in turn, and the empty one when draining. *)
PrevInv ==
  /\ next_decoding = IF prev_thread = None THEN 0 ELSE (prev_thread + 1) % NbThreads
  /\ prev_thread # None =>
       /\ avpkt[prev_thread] <= nb_packets
       /\ avpkt[prev_thread] = Empty => draining \/ (user = "park" /\ then = "flush")

(* A packet that is being submitted is newer than all before it.           *)
NextPktInv ==
  /\ user \in {"submit", "update"} =>
       IF next_pkt = Empty
       THEN draining
       ELSE /\ ~draining /\ next_pkt = nb_packets
            /\ \A k \in setups : k < next_pkt
            /\ prev_thread # None => avpkt[prev_thread] < next_pkt
  /\ user = "update" => avpkt[next_decoding] = next_pkt

ToSetUp(w) == state[w] = "SETTING_UP" /\ wpc[w] \in {"top", "input", "setup"} /\ avpkt[w] # Empty

ToSetUpInv == \A w \in Workers : ToSetUp(w) => \A k \in setups : k < avpkt[w]

(* The thread whose context the next one starts from has the last that was *)
(* set up, but for an old one.                                             *)
IsLast(h) == h \in setups \cup {None} /\ \A k \in setups : k <= h
Source == IF prev_thread = None THEN 0 ELSE prev_thread

HeaderInv ==
  (prev_thread # None => avpkt[prev_thread] # Empty) => (IsLast(header[Source]) \/ OldContext)

ContextInv == ContextTypes /\ PrevInv /\ NextPktInv /\ ToSetUpInv /\ HeaderInv

LEMMA InitContextInv == Init => ContextInv
<1> SUFFICES ASSUME Init PROVE ContextInv
  OBVIOUS
<1>1. 0 \in Workers
  BY DEF Workers
<1>2. ContextTypes /\ NextPktInv /\ ToSetUpInv
  <2>1. header \in [Workers -> Int] /\ avpkt \in [Workers -> Nat]
    BY DEF Init, Empty, None
  <2>2. ContextTypes
    BY <2>1 DEF Init, ContextTypes, Empty
  <2>3. NextPktInv /\ ToSetUpInv
    BY DEF Init, NextPktInv, ToSetUp, ToSetUpInv
  <2> QED BY <2>2, <2>3
<1>3. PrevInv
  BY DEF Init, PrevInv
<1>4. HeaderInv
  BY <1>1 DEF Init, HeaderInv, IsLast, Source, None
<1> QED
  BY <1>2, <1>3, <1>4 DEF ContextInv

(* Steps that leave the contexts and the packets alone.                    *)
packetVars == <<nb_packets, setups, avpkt, header, prev_thread, drained, next_decoding, first>>

LEMMA ContextFrame ==
  ASSUME ContextInv, UNCHANGED <<packetVars, next_pkt, draining, user, then>>,
         \A v \in Workers : ToSetUp(v)' => ToSetUp(v)
  PROVE  ContextInv'
BY DEF ContextInv, ContextTypes, PrevInv, NextPktInv, ToSetUpInv, HeaderInv, IsLast, Source,
       OldContext, packetVars

(* The codec's step.                                                       *)
LEMMA SetUpKeepsContext ==
  ASSUME IInv, ContextInv, NEW w \in Workers, SetUp(w)
  PROVE  ContextInv'
<1>1. /\ wpc[w] = "setup" /\ avpkt[w] # Empty
      /\ header' = [header EXCEPT ![w] = avpkt[w]]
      /\ setups' = setups \cup {avpkt[w]}
      /\ wpc' = [wpc EXCEPT ![w] = "serialize"]
      /\ UNCHANGED <<state, avpkt, user, then, next_pkt, next_decoding, prev_thread, draining,
                     nb_packets, first, drained>>
  BY DEF SetUp, Goto, userVars, countVars
<1>2. state[w] = "SETTING_UP" /\ prev_thread = w
  BY <1>1 DEF IInv, PlaceInv, SetupInv
<1>3. \A k \in setups : k < avpkt[w]
  BY <1>1, <1>2 DEF ContextInv, ToSetUpInv, ToSetUp
<1>4. prev_thread # None
  BY <1>2 DEF None, Workers
<1>5. avpkt[w] \in Nat /\ avpkt[w] <= nb_packets /\ nb_packets \in Nat /\ setups \subseteq Nat
  BY <1>2, <1>4 DEF ContextInv, ContextTypes, PrevInv
<1>6. ContextTypes'
  <2>1. avpkt[w] \in 1 .. nb_packets
    BY <1>1, <1>5 DEF Empty
  <2>2. setups' \subseteq 1 .. nb_packets
    BY <1>1, <2>1 DEF ContextInv, ContextTypes
  <2>3. header' \in [Workers -> Int]
    BY <1>1, <1>5 DEF ContextInv, ContextTypes
  <2> QED BY <1>1, <2>2, <2>3 DEF ContextInv, ContextTypes
<1>7. PrevInv'
  BY <1>1 DEF ContextInv, PrevInv
<1>8. NextPktInv'
  BY <1>1, <1>2, <1>4 DEF ContextInv, NextPktInv
<1>9. \A v \in Workers : ~ToSetUp(v)'
  <2>1. \A v \in Workers : v # w => state[v] # "SETTING_UP"
    BY <1>2 DEF IInv, SetupInv
  <2>2. wpc'[w] = "serialize"
    BY <1>1 DEF IInv, Types
  <2> QED BY <1>1, <2>1, <2>2 DEF ToSetUp
<1>10. HeaderInv'
  <2>1. header'[w] = avpkt[w]
    BY <1>1 DEF ContextInv, ContextTypes
  <2>2. \A k \in setups' : k <= avpkt[w]
    BY <1>1, <1>3, <1>5
  <2>3. Source' = w
    BY <1>1, <1>2, <1>4 DEF Source
  <2> QED BY <1>1, <2>1, <2>2, <2>3 DEF HeaderInv, IsLast
<1> QED BY <1>6, <1>7, <1>8, <1>9, <1>10 DEF ContextInv, ToSetUpInv

LEMMA WorkerKeepsContext ==
  ASSUME IInv, ContextInv, NEW w \in Workers, WorkerStep(w)
  PROVE  ContextInv'
<1> USE DEF Goto, userVars, countVars, madeVars, workerVars, packetVars
<1>0. Types
  BY DEF IInv
<1>1. CASE SetUp(w)
  BY <1>1, SetUpKeepsContext
<1>2. CASE WaitForInput(w) \/ GetInput(w) \/ Start(w) \/ NothingToDecode(w) \/ Serialize(w)
  <2>1. /\ UNCHANGED <<packetVars, next_pkt, draining, user, then, state>>
        /\ \A v \in Workers : v # w => wpc'[v] = wpc[v]
        /\ \/ wpc[w] \in {"top", "input", "setup"}
           \/ wpc'[w] = "async"
    BY <1>0, <1>2 DEF WaitForInput, GetInput, Start, NothingToDecode, Serialize, Types
  <2>2. \A v \in Workers : ToSetUp(v)' => ToSetUp(v)
    BY <2>1 DEF ToSetUp
  <2> QED BY <2>1, <2>2, ContextFrame
<1>3. CASE LockAsync(w) \/ ff_thread_finish_setup(w) \/ Release(w) \/ Finish(w)
  <2>1. UNCHANGED <<packetVars, next_pkt, draining, user, then>>
    BY <1>3 DEF LockAsync, ff_thread_finish_setup, Release, Finish
  <2>2. /\ \A v \in Workers : v # w => wpc'[v] = wpc[v] /\ state'[v] = state[v]
        /\ wpc'[w] \in {"publish", "decode", "finish"} \/ state'[w] = "INPUT_READY"
    BY <1>0, <1>3 DEF LockAsync, ff_thread_finish_setup, Release, Finish, Types
  <2>3. \A v \in Workers : ToSetUp(v)' => ToSetUp(v)
    BY <2>1, <2>2 DEF ToSetUp
  <2> QED BY <2>1, <2>3, ContextFrame
<1>4. CASE AwaitProgress(w) \/ ReportProgress(w)
  <2>1. UNCHANGED <<packetVars, next_pkt, draining, user, then, wpc, state>>
    BY <1>4 DEF AwaitProgress, ReportProgress
  <2>2. \A v \in Workers : ToSetUp(v)' => ToSetUp(v)
    BY <2>1 DEF ToSetUp
  <2> QED BY <2>1, <2>2, ContextFrame
<1> QED
  BY <1>1, <1>2, <1>3, <1>4 DEF WorkerStep

(* Steps of the caller that neither submit a packet nor flush.             *)
LEMMA MovesKeepContext ==
  ASSUME IInv, ContextInv,
         \/ ff_thread_receive_frame \/ WaitForSetUp \/ SubmitFails \/ WaitForOutput \/ Collect
         \/ ReturnFrame \/ ReturnResult \/ Leave \/ avcodec_flush_buffers \/ Free
         \/ park_frame_worker_threads \/ StartFree \/ Die \/ Freed
  PROVE  ContextInv'
<1> USE DEF userVars, countVars, madeVars, workerVars, packetVars
<1>1. CASE WaitForSetUp \/ WaitForOutput \/ park_frame_worker_threads \/ Die
  <2>1. UNCHANGED <<packetVars, next_pkt, draining, user, then, wpc, state>>
    BY <1>1 DEF WaitForSetUp, WaitForOutput, park_frame_worker_threads, Die
  <2>2. \A v \in Workers : ToSetUp(v)' => ToSetUp(v)
    BY <2>1 DEF ToSetUp
  <2> QED BY <2>1, <2>2, ContextFrame
<1>2. CASE \/ ff_thread_receive_frame \/ SubmitFails \/ Collect \/ ReturnFrame \/ ReturnResult
           \/ Leave \/ StartFree \/ Freed \/ Free \/ avcodec_flush_buffers
  <2>1. /\ UNCHANGED <<packetVars, next_pkt, wpc, state>>
        /\ user' \notin {"submit", "update"}
    BY <1>2 DEF ff_thread_receive_frame, SubmitFails, Collect, ReturnFrame, ReturnResult, Leave,
                StartFree, Freed, Free, avcodec_flush_buffers, ParkFor
  <2>2. \/ draining' = draining /\ (user # "park" \/ then = "free")
        \/ draining' = FALSE /\ user' = "park" /\ then' = "flush"
    BY <1>2 DEF ff_thread_receive_frame, SubmitFails, Collect, ReturnFrame, ReturnResult, Leave,
                StartFree, Freed, Free, avcodec_flush_buffers, ParkFor
  <2>3. ContextTypes' /\ PrevInv'
    BY <2>1, <2>2 DEF ContextInv, ContextTypes, PrevInv
  <2>4. NextPktInv' /\ ToSetUpInv' /\ HeaderInv'
    BY <2>1 DEF ContextInv, NextPktInv, ToSetUpInv, ToSetUp, HeaderInv, IsLast, Source, OldContext
  <2> QED BY <2>3, <2>4 DEF ContextInv
<1> QED BY <1>1, <1>2

LEMMA GetPacketKeepsContext ==
  ASSUME IInv, ContextInv, GetPacket
  PROVE  ContextInv'
<1>1. /\ UNCHANGED <<setups, avpkt, header, prev_thread, drained, next_decoding, first, then, wpc,
                     state>>
      /\ user = "loop"
      /\ \/ /\ ~draining /\ UNCHANGED draining /\ user' = "submit"
            /\ nb_packets' = nb_packets + 1 /\ next_pkt' = nb_packets + 1
         \/ /\ draining' = TRUE /\ next_pkt' = Empty /\ user' = "submit"
            /\ UNCHANGED nb_packets
         \/ user' = "leave" /\ UNCHANGED <<nb_packets, next_pkt, draining>>
  BY DEF GetPacket, workerVars, madeVars
<1>2. nb_packets \in Nat /\ nb_packets' \in Nat /\ nb_packets <= nb_packets' /\ next_pkt' \in Nat
  BY <1>1 DEF ContextInv, ContextTypes, Empty
<1>3. ContextTypes'
  <2>1. 1 .. nb_packets \subseteq 1 .. nb_packets'
    BY <1>2
  <2>2. draining' \in BOOLEAN
    BY <1>1 DEF ContextInv, ContextTypes
  <2> QED BY <1>1, <1>2, <2>1, <2>2 DEF ContextInv, ContextTypes
<1>4. PrevInv'
  <2>1. prev_thread # None => avpkt[prev_thread] \in Nat
    BY DEF ContextInv, ContextTypes
  <2> QED BY <1>1, <1>2, <2>1 DEF ContextInv, PrevInv
<1>5. NextPktInv'
  <2>1. prev_thread # None => avpkt[prev_thread] \in Nat /\ avpkt[prev_thread] <= nb_packets
    BY DEF ContextInv, ContextTypes, PrevInv
  <2>2. \A k \in setups : k \in Nat /\ k <= nb_packets
    BY DEF ContextInv, ContextTypes
  <2> QED BY <1>1, <1>2, <2>1, <2>2 DEF NextPktInv, Empty
<1>6. ToSetUpInv' /\ HeaderInv'
  BY <1>1 DEF ContextInv, ToSetUpInv, ToSetUp, HeaderInv, IsLast, Source, OldContext
<1> QED BY <1>3, <1>4, <1>5, <1>6 DEF ContextInv

LEMMA PrevIsNotNext ==
  ASSUME IInv, ContextInv, prev_thread # None
  PROVE  prev_thread \in Workers /\ prev_thread # next_decoding
<1>1. prev_thread \in Workers /\ next_decoding = (prev_thread + 1) % NbThreads
  BY DEF ContextInv, ContextTypes, PrevInv
<1> QED BY <1>1, NextWorker DEF Workers

LEMMA SubmitKeepsContext ==
  ASSUME IInv, ContextInv, submit_packet
  PROVE  ContextInv'
<1>1. /\ UNCHANGED <<setups, header, prev_thread, drained, next_decoding, first, then, wpc, state,
                     nb_packets, next_pkt, draining>>
      /\ user = "submit" /\ user' = "update" /\ wpc[next_decoding] = "input"
      /\ avpkt' = [avpkt EXCEPT ![next_decoding] = next_pkt]
  BY DEF submit_packet, countVars, madeVars
<1>2. /\ next_decoding \in Workers /\ next_pkt \in Nat /\ avpkt' \in [Workers -> Nat]
      /\ avpkt'[next_decoding] = next_pkt
      /\ \A v \in Workers : v # next_decoding => avpkt'[v] = avpkt[v]
  BY <1>1 DEF IInv, Types, ContextInv, ContextTypes
<1>3. prev_thread # None => prev_thread \in Workers /\ avpkt'[prev_thread] = avpkt[prev_thread]
  BY <1>2, PrevIsNotNext
<1>4. ContextTypes' /\ PrevInv' /\ NextPktInv'
  BY <1>1, <1>2, <1>3 DEF ContextInv, ContextTypes, PrevInv, NextPktInv
<1>5. ToSetUpInv'
  <2>1. \A v \in Workers : state[v] = "SETTING_UP" => prev_thread = v /\ v # None
    BY DEF IInv, SetupInv, None, Workers
  <2>2. \A v \in Workers : ToSetUp(v)' => ToSetUp(v) /\ avpkt'[v] = avpkt[v]
    BY <1>1, <1>3, <2>1 DEF ToSetUp
  <2> QED BY <1>1, <2>2 DEF ContextInv, ToSetUpInv
<1>6. HeaderInv'
  BY <1>1, <1>3 DEF ContextInv, HeaderInv, IsLast, Source, OldContext
<1> QED BY <1>4, <1>5, <1>6 DEF ContextInv

(* update_context_from_thread(): the last context goes on.                 *)
LEMMA SubmittedKeepsContext ==
  ASSUME IInv, ContextInv, Submitted
  PROVE  ContextInv'
<1> DEFINE w == next_decoding
<1>1. /\ UNCHANGED <<setups, avpkt, drained, first, then, wpc, nb_packets, next_pkt, draining>>
      /\ user = "update" /\ user' \in {"loop", "collect"}
      /\ prev_thread' = w /\ next_decoding' = (w + 1) % NbThreads
      /\ state' = [state EXCEPT ![w] = "SETTING_UP"]
      /\ PrevIsSetUp /\ update_context_from_thread(w)
  BY DEF Submitted, countVars, madeVars
<1>2. w \in Workers /\ w # None /\ avpkt[w] = next_pkt
  BY <1>1 DEF IInv, Types, Workers, None, ContextInv, NextPktInv
<1>3. prev_thread # None => prev_thread \in Workers
  BY DEF ContextInv, ContextTypes
<1>4. /\ header' = IF prev_thread = None \/ avpkt[w] = Empty THEN header
                   ELSE [header EXCEPT ![w] = header[prev_thread]]
  BY <1>1 DEF update_context_from_thread
<1>5. ContextTypes'
  BY <1>1, <1>2, <1>3, <1>4 DEF ContextInv, ContextTypes
<1>6. PrevInv'
  <2>1. next_pkt \in Nat /\ nb_packets \in Nat
    BY DEF ContextInv, ContextTypes
  <2>2. next_pkt = Empty => draining
    BY <1>1 DEF ContextInv, NextPktInv
  <2>3. next_pkt # Empty => next_pkt = nb_packets
    BY <1>1 DEF ContextInv, NextPktInv
  <2> QED BY <1>1, <1>2, <2>1, <2>2, <2>3 DEF PrevInv, Empty
<1>7. NextPktInv'
  BY <1>1 DEF NextPktInv
<1>8. ToSetUpInv'
  <2>1. \A v \in Workers : v # w => state'[v] = state[v] /\ state[v] # "SETTING_UP"
    BY <1>1, <1>2, <1>3 DEF IInv, SetupInv, PrevIsSetUp, None, Workers, Types
  <2>2. avpkt[w] # Empty => \A k \in setups : k < avpkt[w]
    BY <1>1, <1>2 DEF ContextInv, NextPktInv
  <2> QED BY <1>1, <2>1, <2>2 DEF ToSetUpInv, ToSetUp
<1>9. HeaderInv'
  <2>1. SUFFICES ASSUME avpkt[w] # Empty
               PROVE  \/ /\ header'[w] \in setups \cup {None}
                         /\ \A k \in setups : k <= header'[w]
                      \/ OldContext
    BY <1>1, <1>2 DEF HeaderInv, IsLast, Source, OldContext
  <2>2. ~draining
    BY <1>1, <1>2, <2>1 DEF ContextInv, NextPktInv
  <2>3. prev_thread # None => avpkt[prev_thread] # Empty
    BY <1>1, <2>2 DEF ContextInv, PrevInv
  <2>4. IsLast(header[Source]) \/ OldContext
    BY <2>3 DEF ContextInv, HeaderInv
  <2>5. header'[w] = header[Source]
    <3>1. CASE prev_thread = None
      BY <1>4, <3>1 DEF ContextInv, PrevInv, Source
    <3>2. CASE prev_thread # None
      BY <1>2, <1>4, <2>1, <3>2 DEF ContextInv, ContextTypes, Source
    <3> QED BY <3>1, <3>2
  <2> QED BY <2>4, <2>5 DEF IsLast
<1> QED BY <1>5, <1>6, <1>7, <1>8, <1>9 DEF ContextInv

(* ff_thread_flush(): the first thread gets the last context, unless the   *)
(* thread that has it was drained.                                         *)
LEMMA FlushKeepsContext ==
  ASSUME IInv, ContextInv, ff_thread_flush
  PROVE  ContextInv'
<1>1. /\ UNCHANGED <<state, wpc, avpkt, next_pkt, draining, nb_packets, setups>>
      /\ header' = IF prev_thread = None THEN header ELSE [header EXCEPT ![0] = header[prev_thread]]
      /\ next_decoding' = 0 /\ prev_thread' = None
      /\ user' = "outside" /\ first' = nb_packets + 1
      /\ drained' = (DrainedNow \/ OldContext)
      /\ Unparked = {}
  BY DEF ff_thread_flush, madeVars
<1>2. 0 \in Workers /\ (prev_thread # None => prev_thread \in Workers)
  BY DEF Workers, ContextInv, ContextTypes
<1>3. drained' \in BOOLEAN
  BY <1>1 DEF DrainedNow, OldContext
<1>4. ContextTypes' /\ PrevInv' /\ NextPktInv'
  BY <1>1, <1>2, <1>3 DEF ContextInv, ContextTypes, PrevInv, NextPktInv
<1>5. ToSetUpInv'
  BY <1>1 DEF ToSetUpInv, ToSetUp, Unparked
<1>6. HeaderInv'
  <2>1. header'[0] = header[Source]
    BY <1>1, <1>2 DEF ContextInv, ContextTypes, Source
  <2>2. drained' => OldContext'
    <3>1. \A k \in setups : k \in Nat /\ k <= nb_packets /\ nb_packets \in Nat
      BY DEF ContextInv, ContextTypes
    <3> QED BY <1>1, <3>1 DEF OldContext
  <2>3. ~drained' => IsLast(header[Source])
    BY <1>1 DEF ContextInv, HeaderInv, DrainedNow
  <2>4. Source' = 0
    BY <1>1 DEF Source
  <2> QED BY <1>1, <1>3, <2>1, <2>2, <2>3, <2>4 DEF HeaderInv, IsLast
<1> QED BY <1>4, <1>5, <1>6 DEF ContextInv

LEMMA NextContextInv == IInv /\ ContextInv /\ [Next]_vars => ContextInv'
<1> SUFFICES ASSUME IInv, ContextInv, [Next]_vars PROVE ContextInv'
  OBVIOUS
<1>1. CASE UserStep
  BY <1>1, MovesKeepContext, GetPacketKeepsContext, SubmitKeepsContext, SubmittedKeepsContext,
     FlushKeepsContext DEF UserStep, InCall
<1>2. ASSUME NEW w \in Workers, WorkerStep(w) PROVE ContextInv'
  BY <1>2, WorkerKeepsContext
<1>3. CASE UNCHANGED vars
  <2>1. UNCHANGED <<packetVars, next_pkt, draining, user, then, wpc, state>>
    BY <1>3 DEF vars, workerVars, userVars, countVars, madeVars, packetVars
  <2>2. \A v \in Workers : ToSetUp(v)' => ToSetUp(v)
    BY <2>1 DEF ToSetUp, packetVars
  <2> QED BY <2>1, <2>2, ContextFrame
<1> QED BY <1>1, <1>2, <1>3 DEF Next

LEMMA LastIsMax ==
  ASSUME NEW S \in SUBSET Int, NEW x \in S, \A y \in S : y <= x
  PROVE  x = Max(S)
<1>1. PICK m : m = Max(S)
  OBVIOUS
<1>2. m \in S /\ \A y \in S : m >= y
  BY <1>1 DEF Max
<1> QED BY <1>1, <1>2

(* Each thread sets its packet up from the context of the packet that was  *)
(* set up last before it: submit_packet() waits for the thread before, and *)
(* ff_thread_flush() hands the context on to the first thread.             *)
THEOREM SetupIsInOrder == Spec => []SetupInOrder
<1>1. IInv /\ ContextInv => SetupInOrder
  <2> SUFFICES ASSUME IInv, ContextInv, NEW w \in Workers, wpc[w] = "setup", avpkt[w] # Empty
               PROVE  LET before == {k \in setups : k < avpkt[w]} IN
                      \/ header[w] = Max(before \cup {None})
                      \/ drained /\ \A k \in before : k < first
    BY DEF SetupInOrder
  <2>1. state[w] = "SETTING_UP" /\ prev_thread = w /\ w # None
    BY DEF IInv, PlaceInv, SetupInv, None, Workers
  <2>2. {k \in setups : k < avpkt[w]} = setups
    BY <2>1 DEF ContextInv, ToSetUpInv, ToSetUp
  <2>3. IsLast(header[w]) \/ OldContext
    BY <2>1 DEF ContextInv, HeaderInv, Source
  <2>4. ASSUME IsLast(header[w]) PROVE header[w] = Max(setups \cup {None})
    <3>1. setups \cup {None} \in SUBSET Int /\ header[w] \in setups \cup {None}
      BY <2>4 DEF IsLast, ContextInv, ContextTypes, None
    <3>2. \A y \in setups \cup {None} : y <= header[w]
      BY <2>4 DEF IsLast, ContextInv, ContextTypes, None
    <3> HIDE DEF None
    <3> QED BY <3>1, <3>2, LastIsMax
  <2> QED BY <2>2, <2>3, <2>4 DEF OldContext
<1>2. IInv /\ [Next]_vars => IInv'
  BY NextIInv
<1>3. IInv /\ ContextInv /\ [Next]_vars => ContextInv'
  BY NextContextInv
<1> QED BY InitIInv, InitContextInv, <1>1, <1>2, <1>3, PTL DEF Spec

-----------------------------------------------------------------------------
(* What packets give, put together.                                        *)

(* What n packets from f on gave, when packet k gave m[k].                 *)
Items == Nat \X Nat
Gave(m, f, n) == FlattenSeq([i \in 1 .. n |-> m[f + i - 1]])

LEMMA GaveType ==
  ASSUME NEW m \in [Packets -> Seq(Items)], NEW f \in Nat \ {0}, NEW n \in Nat,
         f + n - 1 <= MaxPackets
  PROVE  Gave(m, f, n) \in Seq(Items)
<1> DEFINE s == [i \in 1 .. n |-> m[f + i - 1]]
<1>1. \A i \in 1 .. n : m[f + i - 1] \in Seq(Items)
  BY DEF Packets
<1>2. s \in Seq(Seq(Items))
  BY <1>1
<1> HIDE DEF s
<1>3. FlattenSeq(s) \in Seq(Items)
  BY <1>2, FlattenType
<1> QED BY <1>3 DEF Gave, s

LEMMA GaveNothing ==
  ASSUME NEW m \in [Packets -> Seq(Items)], NEW f \in Nat \ {0}
  PROVE  Gave(m, f, 0) = <<>>
<1> DEFINE s == [i \in 1 .. 0 |-> m[f + i - 1]]
<1>1. s = <<>>
  OBVIOUS
<1> QED BY <1>1 DEF Gave, FlattenSeq

LEMMA GaveNext ==
  ASSUME NEW m \in [Packets -> Seq(Items)], NEW f \in Nat \ {0}, NEW n \in Nat,
         f + n <= MaxPackets
  PROVE  Gave(m, f, n + 1) = Gave(m, f, n) \o m[f + n]
<1> DEFINE s == [i \in 1 .. n |-> m[f + i - 1]]
           t == [i \in 1 .. n + 1 |-> m[f + i - 1]]
<1>1. \A i \in 1 .. n + 1 : m[f + i - 1] \in Seq(Items)
  BY DEF Packets
<1>2. s \in Seq(Seq(Items)) /\ m[f + n] \in Seq(Items)
  <2>0. \A i \in 1 .. n : i \in 1 .. n + 1
    OBVIOUS
  <2>1. \A i \in 1 .. n : m[f + i - 1] \in Seq(Items)
    BY <1>1, <2>0, Zenon
  <2>2. n + 1 \in 1 .. n + 1 /\ f + (n + 1) - 1 = f + n
    OBVIOUS
  <2>3. m[f + n] \in Seq(Items)
    BY <1>1, <2>2
  <2> QED BY <2>1, <2>3
<1>3. t = Append(s, m[f + n])
  <2>1. Len(s) = n /\ Len(t) = n + 1 /\ t \in Seq(Seq(Items))
    BY <1>1
  <2>2. \A i \in 1 .. n : t[i] = s[i]
    OBVIOUS
  <2>3. t[n + 1] = m[f + n]
    OBVIOUS
  <2> HIDE DEF s, t
  <2>4. /\ Append(s, m[f + n]) \in Seq(Seq(Items)) /\ Len(Append(s, m[f + n])) = n + 1
        /\ \A i \in 1 .. n : Append(s, m[f + n])[i] = s[i]
        /\ Append(s, m[f + n])[n + 1] = m[f + n]
    <3> DEFINE e == m[f + n]
    <3>1. e \in Seq(Items) /\ s \in Seq(Seq(Items)) /\ Len(s) = n
      BY <1>2, <2>1
    <3> HIDE DEF e
    <3>2. /\ Append(s, e) \in Seq(Seq(Items)) /\ Len(Append(s, e)) = n + 1
          /\ \A i \in 1 .. n : Append(s, e)[i] = s[i]
          /\ Append(s, e)[n + 1] = e
      BY <3>1, AppendProperties
    <3> QED BY <3>2 DEF e
  <2> DEFINE u == Append(s, m[f + n])
  <2>5. \A i \in 1 .. n + 1 : t[i] = u[i]
    BY <2>2, <2>3, <2>4
  <2> HIDE DEF u
  <2>6. t = u
    BY <2>1, <2>4, <2>5, SeqEqual DEF u
  <2> QED BY <2>6 DEF u
<1> HIDE DEF s, t
<1>4. FlattenSeq(t) = FlattenSeq(s) \o m[f + n]
  BY <1>2, <1>3, FlattenAppend
<1> QED BY <1>4 DEF Gave, s, t

LEMMA GaveSame ==
  ASSUME NEW m, NEW m2, NEW f \in Nat \ {0}, NEW n \in Nat,
         \A k \in f .. f + n - 1 : m2[k] = m[k]
  PROVE  Gave(m2, f, n) = Gave(m, f, n)
<1>1. [i \in 1 .. n |-> m2[f + i - 1]] = [i \in 1 .. n |-> m[f + i - 1]]
  <2>1. \A i \in 1 .. n : m2[f + i - 1] = m[f + i - 1]
    OBVIOUS
  <2> QED BY <2>1
<1> QED BY <1>1 DEF Gave

(* Packets that gave nothing.                                              *)
LEMMA GaveSkip ==
  ASSUME NEW m \in [Packets -> Seq(Items)], NEW f \in Nat \ {0}, NEW a \in Nat, NEW b \in Nat,
         a <= b, f + b - 1 <= MaxPackets, \A k \in f + a .. f + b - 1 : m[k] = <<>>
  PROVE  Gave(m, f, b) = Gave(m, f, a)
<1> DEFINE S == {d \in 0 .. b - a : Gave(m, f, a + d) = Gave(m, f, a)}
<1>1. 0 \in S
  OBVIOUS
<1>2. ASSUME NEW d \in 0 .. (b - a) - 1, d \in S PROVE d + 1 \in S
  <2>1. m[f + (a + d)] = <<>> /\ f + (a + d) <= MaxPackets /\ a + d \in Nat
    OBVIOUS
  <2>2. Gave(m, f, (a + d) + 1) = Gave(m, f, a + d) \o <<>>
    BY <2>1, GaveNext
  <2>3. Gave(m, f, a + d) \in Seq(Items)
    BY <2>1, GaveType
  <2>4. Gave(m, f, (a + d) + 1) = Gave(m, f, a + d)
    BY <2>2, <2>3, ConcatEmptySeq
  <2>5. (a + d) + 1 = a + (d + 1) /\ d + 1 \in 0 .. b - a
    OBVIOUS
  <2> QED BY <1>2, <2>4, <2>5
<1>3. 0 .. b - a \subseteq S
  <2> HIDE DEF S
  <2>1. b - a \in Nat
    OBVIOUS
  <2> QED BY <1>1, <1>2, <2>1, BoundedInduction
<1>4. b - a \in 0 .. b - a /\ a + (b - a) = b
  OBVIOUS
<1> QED BY <1>3, <1>4

Extends(s, t) == \E r \in Seq(Items) : t = s \o r

LEMMA GaveExtends ==
  ASSUME NEW m \in [Packets -> Seq(Items)], NEW f \in Nat \ {0}, NEW a \in Nat, NEW b \in Nat,
         a <= b, f + b - 1 <= MaxPackets
  PROVE  Extends(Gave(m, f, a), Gave(m, f, b))
<1> DEFINE S == {d \in 0 .. b - a : \E r \in Seq(Items) : Gave(m, f, a + d) = Gave(m, f, a) \o r}
<1>0. Gave(m, f, a) \in Seq(Items)
  BY GaveType
<1>1. 0 \in S
  <2>1. Gave(m, f, a + 0) = Gave(m, f, a) \o <<>> /\ <<>> \in Seq(Items)
    BY <1>0, ConcatEmptySeq
  <2>2. 0 \in 0 .. b - a
    OBVIOUS
  <2> QED BY <2>1, <2>2, Zenon
<1>2. ASSUME NEW d \in 0 .. (b - a) - 1, d \in S PROVE d + 1 \in S
  <2>1. f + (a + d) <= MaxPackets /\ a + d \in Nat /\ m[f + (a + d)] \in Seq(Items)
    BY DEF Packets
  <2>2. Gave(m, f, (a + d) + 1) = Gave(m, f, a + d) \o m[f + (a + d)]
    BY <2>1, GaveNext
  <2>3. PICK r \in Seq(Items) : Gave(m, f, a + d) = Gave(m, f, a) \o r
    BY <1>2
  <2> DEFINE q == r \o m[f + (a + d)]
  <2>4. q \in Seq(Items)
    BY <2>1, <2>3
  <2>5. Gave(m, f, (a + d) + 1) = Gave(m, f, a) \o q
    <3> DEFINE x == Gave(m, f, a)
               y == m[f + (a + d)]
    <3>1. x \in Seq(Items) /\ y \in Seq(Items)
      BY <1>0, <2>1
    <3>2. Gave(m, f, (a + d) + 1) = (x \o r) \o y
      BY <2>2, <2>3
    <3> HIDE DEF x, y
    <3>3. (x \o r) \o y = x \o (r \o y)
      BY <3>1, ConcatAssociative
    <3> QED BY <3>2, <3>3 DEF x, y
  <2>6. (a + d) + 1 = a + (d + 1) /\ d + 1 \in 0 .. b - a
    OBVIOUS
  <2> HIDE DEF q
  <2> QED BY <2>4, <2>5, <2>6
<1>3. 0 .. b - a \subseteq S
  <2> HIDE DEF S
  <2>1. b - a \in Nat
    OBVIOUS
  <2> QED BY <1>1, <1>2, <2>1, BoundedInduction
<1>4. b - a \in 0 .. b - a /\ a + (b - a) = b
  OBVIOUS
<1>5. \E r \in Seq(Items) : Gave(m, f, b) = Gave(m, f, a) \o r
  BY <1>3, <1>4
<1> QED BY <1>5 DEF Extends

LEMMA IsPrefixOfConcat ==
  ASSUME NEW S, NEW s \in Seq(S), NEW t \in Seq(S)
  PROVE  IsPrefix(s, s \o t)
<1>1. SubSeq(s, 1, Len(s)) = s
  BY SubSeqFull
<1>2. SubSeq(s \o t, 1, Len(s)) = s
  BY ConcatSimplifications, SubSeqOfConcat1, <1>1
<1>3. Len(s) <= Len(s \o t)
  OBVIOUS
<1> QED BY <1>1, <1>2, <1>3 DEF IsPrefix

-----------------------------------------------------------------------------
(* AllFramesInOrder.                                                       *)

Results == Packets \cup {Ok, Eof}

FrameTypes ==
  /\ nb_packets \in Nat /\ nb_packets <= MaxPackets
  /\ first \in Nat \ {0} /\ first <= nb_packets + 1
  /\ next_pkt \in Nat /\ next_pkt <= nb_packets
  /\ avpkt \in [Workers -> Nat] /\ \A w \in Workers : avpkt[w] <= nb_packets
  /\ nb_frames \in [Workers -> Nat]
  /\ df \in [Workers -> Seq(Items)] /\ result \in [Workers -> Results]
  /\ out_df \in Seq(Items) /\ out_result \in Results
  /\ returned \in Seq(Items) /\ eof \in BOOLEAN
  /\ made \in [Packets -> Seq(Items)]

(* The threads that have a packet, or a result, in the order in which they *)
(* were given packets.                                                     *)
InRing(w) == Given(w) \/ (user = "collect" /\ next_finished = next_decoding)
Pos(w) == IF next_finished <= w THEN w - next_finished ELSE w + NbThreads - next_finished

(* Their packets are in order, and the empty ones come last.               *)
RingOrder ==
  \A v, w \in Workers :
    InRing(v) /\ InRing(w) /\ Pos(v) < Pos(w) =>
      avpkt[w] = Empty \/ (avpkt[v] # Empty /\ avpkt[v] < avpkt[w])

Flushing == user = "park" /\ then = "flush"

DrainInv ==
  draining \/ Flushing \/ \A w \in Workers : InRing(w) => avpkt[w] # Empty

Submitting == user \in {"submit", "update"} /\ next_pkt # Empty

NewestInv == Submitting => \A w \in Workers : InRing(w) => avpkt[w] < next_pkt

RingData == RingOrder /\ DrainInv /\ NewestInv

(* A thread that is done has what its packet gave, the others nothing.     *)
Done(w) == wpc[w] = "finish" \/ state[w] = "INPUT_READY"
Error(r) == IF r \in Packets THEN <<<<r, 0>>>> ELSE <<>>

ResultInv ==
  \A w \in Workers :
    wpc[w] \in {"serialize", "async", "publish", "decode", "finish"} =>
      IF avpkt[w] = Empty
      THEN result[w] = Eof /\ nb_frames[w] = 0
      ELSE result[w] \in {Ok, avpkt[w]}

FilledInv ==
  \A w \in Workers :
    /\ ~Done(w) => df[w] = <<>>
    /\ ~InRing(w) => df[w] = <<>> /\ result[w] = Ok
    /\ InRing(w) /\ Done(w) =>
         IF avpkt[w] = Empty
         THEN df[w] = <<>> /\ result[w] = Eof
         ELSE result[w] \in {Ok, avpkt[w]} /\ made[avpkt[w]] = df[w] \o Error(result[w])

OutputInv == user \in {"submit", "update", "collect"} => NoOutput

(* The caller has been given what the packets up to c gave: those after it *)
(* that gave something are still with the threads.                         *)
HandedOut(c) ==
  /\ returned \o (out_df \o Error(out_result)) = Gave(made, first, c + 1 - first)
  /\ \A w \in Workers : InRing(w) => avpkt[w] = Empty \/ c < avpkt[w]
  /\ Submitting => c < next_pkt
  /\ \A k \in c + 1 .. nb_packets :
       made[k] = <<>> \/ \E w \in Workers : InRing(w) /\ avpkt[w] = k

HandedOutInv ==
  /\ \E c \in Int : first - 1 <= c /\ c <= nb_packets /\ HandedOut(c)
  /\ \A k \in Packets : nb_packets < k => made[k] = <<>>

(* After the end nothing is left.                                          *)
EofInv ==
  eof \/ out_result = Eof =>
    /\ draining \/ Flushing
    /\ out_df = <<>> /\ out_result \in {Ok, Eof}
    /\ \A w \in Workers : InRing(w) => avpkt[w] = Empty

FramesInv ==
  FrameTypes /\ RingData /\ ResultInv /\ FilledInv /\ OutputInv /\ HandedOutInv /\ EofInv

LEMMA InitFramesInv == Init => FramesInv
<1> SUFFICES ASSUME Init PROVE FramesInv
  OBVIOUS
<1>0. 0 \in Workers /\ Ok \in Results /\ Ok \notin Packets /\ Ok # Eof
  BY DEF Workers, Results, Ok, Packets, Eof
<1>1. \A w \in Workers : ~InRing(w) /\ Done(w)
  BY DEF Init, InRing, Given, Done, Workers
<1>2. <<>> \in Seq(Items)
  OBVIOUS
<1>3. FrameTypes
  <2>1. /\ nb_packets = 0 /\ first = 1 /\ next_pkt = Empty
        /\ avpkt = [w \in Workers |-> Empty] /\ nb_frames = [w \in Workers |-> 0]
        /\ df = [w \in Workers |-> <<>>] /\ result = [w \in Workers |-> Ok]
        /\ out_df = <<>> /\ out_result = Ok /\ returned = <<>> /\ eof = FALSE
        /\ made = [k \in Packets |-> <<>>]
    BY DEF Init
  <2>2. df \in [Workers -> Seq(Items)] /\ made \in [Packets -> Seq(Items)]
    BY <1>2, <2>1
  <2>3. result \in [Workers -> Results] /\ out_result \in Results
    BY <1>0, <2>1
  <2>4. avpkt \in [Workers -> Nat] /\ \A w \in Workers : avpkt[w] = 0
    BY <2>1 DEF Empty
  <2>5. nb_frames \in [Workers -> Nat]
    BY <2>1
  <2>6. /\ nb_packets \in Nat /\ nb_packets <= MaxPackets
        /\ first \in Nat \ {0} /\ first <= nb_packets + 1
        /\ next_pkt \in Nat /\ next_pkt <= nb_packets
        /\ \A w \in Workers : avpkt[w] <= nb_packets
    BY <2>1, <2>4 DEF Empty
  <2>7. out_df \in Seq(Items) /\ returned \in Seq(Items) /\ eof \in BOOLEAN
    BY <1>2, <2>1
  <2> QED BY <2>2, <2>3, <2>4, <2>5, <2>6, <2>7 DEF FrameTypes
<1>4. RingData /\ OutputInv
  BY <1>1 DEF Init, RingData, RingOrder, DrainInv, NewestInv, Submitting, OutputInv
<1>5. ResultInv /\ FilledInv
  BY <1>1 DEF Init, ResultInv, FilledInv
<1>6. EofInv
  BY <1>0 DEF Init, EofInv
<1>7. HandedOutInv
  <2>1. made \in [Packets -> Seq(Items)] /\ first = 1 /\ nb_packets = 0
    BY <1>3 DEF FrameTypes, Init
  <2>2. Gave(made, first, 0) = <<>>
    BY <2>1, GaveNothing
  <2>3. returned \o (out_df \o Error(out_result)) = <<>>
    <3>1. returned = <<>> /\ out_df = <<>> /\ Error(out_result) = <<>>
      BY <1>0 DEF Init, Error
    <3> QED BY <3>1
  <2>4. HandedOut(0)
    <3>1. 0 + 1 - first = 0
      BY <2>1
    <3>2. returned \o (out_df \o Error(out_result)) = Gave(made, first, 0 + 1 - first)
      BY <2>2, <2>3, <3>1
    <3>3. 0 + 1 .. nb_packets = {}
      BY <2>1
    <3>4. ~Submitting
      BY DEF Init, Submitting
    <3> QED BY <1>1, <3>2, <3>3, <3>4 DEF HandedOut
  <2>5. \A k \in Packets : made[k] = <<>>
    BY DEF Init
  <2> QED BY <2>1, <2>4, <2>5 DEF HandedOutInv
<1> QED BY <1>3, <1>4, <1>5, <1>6, <1>7 DEF FramesInv

-----------------------------------------------------------------------------
(* The threads.                                                            *)

(* A thread that is at work is in the ring.                                *)
LEMMA BusyInRing ==
  ASSUME IInv, NEW w \in Workers, state[w] # "INPUT_READY"
  PROVE  InRing(w)
BY DEF IInv, RingInv, InRing

(* No two threads have the same packet.                                    *)
LEMMA PacketOfOne ==
  ASSUME IInv, FrameTypes, RingOrder, NEW v \in Workers, NEW w \in Workers, v # w,
         InRing(v), InRing(w), avpkt[v] # Empty
  PROVE  avpkt[v] # avpkt[w]
<1>1. Pos(v) < Pos(w) \/ Pos(w) < Pos(v)
  BY DEF Pos, Workers, IInv, Types
<1>2. avpkt[v] \in Nat /\ avpkt[w] \in Nat
  BY DEF FrameTypes
<1> QED BY <1>1, <1>2 DEF RingOrder

(* What the steps of the threads leave to the caller.                      *)
ringVars == <<next_finished, next_decoding, user, then, draining, next_pkt, avpkt>>
outVars  == <<out_df, out_result, returned, eof, nb_packets, first>>

LEMMA WorkerFrameVars ==
  ASSUME NEW w \in Workers, WorkerStep(w)
  PROVE  UNCHANGED <<ringVars, outVars>>
<1> USE DEF ringVars, outVars, workerVars, userVars, gotVars, countVars
<1>1. CASE WaitForInput(w) \/ GetInput(w) \/ Start(w) \/ SetUp(w) \/ NothingToDecode(w)
  BY <1>1 DEF WaitForInput, GetInput, Start, SetUp, NothingToDecode
<1>2. CASE Serialize(w) \/ LockAsync(w) \/ ff_thread_finish_setup(w) \/ AwaitProgress(w)
  BY <1>2 DEF Serialize, LockAsync, ff_thread_finish_setup, AwaitProgress
<1>3. CASE ReportProgress(w) \/ Release(w) \/ Finish(w)
  BY <1>3 DEF ReportProgress, Release, Finish
<1> QED BY <1>1, <1>2, <1>3 DEF WorkerStep

LEMMA RingFrame ==
  ASSUME UNCHANGED ringVars
  PROVE  /\ \A w : InRing(w)' <=> InRing(w)
         /\ \A w : Pos(w)' = Pos(w)
         /\ Submitting' <=> Submitting
         /\ Flushing' <=> Flushing
         /\ RingData => RingData'
BY DEF ringVars, InRing, Given, Pos, Submitting, Flushing, RingData, RingOrder, DrainInv, NewestInv

(* Steps that leave all the frames where they are.                         *)
LEMMA OutFrame ==
  ASSUME UNCHANGED <<ringVars, outVars, made>>, OutputInv, HandedOutInv, EofInv
  PROVE  OutputInv' /\ HandedOutInv' /\ EofInv'
<1>1. /\ \A w : InRing(w)' <=> InRing(w)
      /\ Submitting' <=> Submitting
      /\ Flushing' <=> Flushing
  BY RingFrame
<1>2. OutputInv' /\ EofInv'
  BY <1>1 DEF OutputInv, NoOutput, EofInv, ringVars, outVars
<1>3. \A c : HandedOut(c) => HandedOut(c)'
  BY <1>1 DEF HandedOut, Gave, ringVars, outVars
<1>4. HandedOutInv'
  BY <1>3 DEF HandedOutInv, outVars
<1> QED BY <1>2, <1>4

(* Steps at which a thread has no frames yet.                              *)
LEMMA EarlyStep ==
  ASSUME IInv, FramesInv, NEW w \in Workers, UNCHANGED <<ringVars, outVars, made, df>>,
         \A v \in Workers : v # w => /\ state'[v] = state[v] /\ wpc'[v] = wpc[v]
                                     /\ result'[v] = result[v] /\ nb_frames'[v] = nb_frames[v],
         Done(w)' <=> Done(w),
         result' \in [Workers -> Results], nb_frames' \in [Workers -> Nat],
         \/ result'[w] = result[w] /\ nb_frames'[w] = nb_frames[w]
         \/ ~Done(w) /\ InRing(w),
         wpc'[w] \in {"serialize", "async", "publish", "decode", "finish"} =>
           IF avpkt[w] = Empty
           THEN result'[w] = Eof /\ nb_frames'[w] = 0
           ELSE result'[w] \in {Ok, avpkt[w]}
  PROVE  FramesInv'
<1>1. /\ FrameTypes /\ RingData /\ ResultInv /\ FilledInv /\ OutputInv /\ HandedOutInv /\ EofInv
  BY DEF FramesInv
<1>2. \A v : InRing(v)' <=> InRing(v)
  BY RingFrame
<1>3. \A v \in Workers : Done(v)' <=> Done(v)
  BY DEF Done
<1>4. FrameTypes'
  BY <1>1 DEF FrameTypes, ringVars, outVars
<1>5. RingData'
  BY <1>1, RingFrame
<1>6. ResultInv'
  BY <1>1 DEF ResultInv, ringVars
<1>7. FilledInv'
  <2>1. \A v \in Workers : df'[v] = df[v] /\ avpkt'[v] = avpkt[v] /\ made' = made
    BY DEF ringVars
  <2>2. \A v \in Workers : result'[v] = result[v] \/ (~Done(v) /\ InRing(v))
    OBVIOUS
  <2>3. \A v \in Workers : Error(result[v])' = Error(result'[v])
    BY DEF Error
  <2> SUFFICES ASSUME NEW v \in Workers
               PROVE  /\ ~Done(v)' => df'[v] = <<>>
                      /\ ~InRing(v)' => df'[v] = <<>> /\ result'[v] = Ok
                      /\ InRing(v)' /\ Done(v)' =>
                           IF avpkt'[v] = Empty
                           THEN df'[v] = <<>> /\ result'[v] = Eof
                           ELSE /\ result'[v] \in {Ok, avpkt'[v]}
                                /\ made'[avpkt'[v]] = df'[v] \o Error(result'[v])
    BY <2>3 DEF FilledInv
  <2>4. CASE result'[v] = result[v]
    BY <1>1, <1>2, <1>3, <2>1, <2>4 DEF FilledInv
  <2>5. CASE ~Done(v) /\ InRing(v)
    BY <1>1, <1>2, <1>3, <2>1, <2>5 DEF FilledInv
  <2> QED BY <2>2, <2>4, <2>5
<1>8. OutputInv' /\ HandedOutInv' /\ EofInv'
  BY <1>1, OutFrame
<1> QED BY <1>4, <1>5, <1>6, <1>7, <1>8 DEF FramesInv

LEMMA MadeIs ==
  ASSUME FrameTypes, NEW w \in Workers
  PROVE  /\ [i \in 1 .. nb_frames[w] |-> <<avpkt[w], i>>] \in Seq(Items)
         /\ Error(result[w]) \in Seq(Items)
         /\ Made(w) = [i \in 1 .. nb_frames[w] |-> <<avpkt[w], i>>] \o Error(result[w])
         /\ Made(w) \in Seq(Items)
<1> DEFINE s == [i \in 1 .. nb_frames[w] |-> <<avpkt[w], i>>]
<1>1. s \in Seq(Items)
  <2>1. nb_frames[w] \in Nat /\ avpkt[w] \in Nat
    BY DEF FrameTypes
  <2>2. \A i \in 1 .. nb_frames[w] : <<avpkt[w], i>> \in Items
    BY <2>1 DEF Items
  <2> QED BY <2>1, <2>2
<1>2. Error(result[w]) \in Seq(Items)
  <2>1. result[w] \in Packets => <<result[w], 0>> \in Items
    BY DEF Items, Packets
  <2> QED BY <2>1 DEF Error
<1>3. Made(w) = s \o Error(result[w])
  BY DEF Made, Error
<1> HIDE DEF s
<1> DEFINE e == Error(result[w])
<1>4. s \o e \in Seq(Items)
  <2> HIDE DEF e
  <2> QED BY <1>1, <1>2, ConcatProperties DEF e
<1> QED BY <1>1, <1>2, <1>3, <1>4 DEF s

(* The frames are there.                                                   *)
LEMMA ReleaseKeepsFrames ==
  ASSUME IInv, FramesInv, NEW w \in Workers, Release(w)
  PROVE  FramesInv'
<1>1. /\ FrameTypes /\ RingData /\ ResultInv /\ FilledInv /\ OutputInv /\ HandedOutInv /\ EofInv
  BY DEF FramesInv
<1> DEFINE s == [i \in 1 .. nb_frames[w] |-> <<avpkt[w], i>>]
<1>2. /\ wpc[w] = "decode" /\ wpc' = [wpc EXCEPT ![w] = "finish"]
      /\ df' = [df EXCEPT ![w] = df[w] \o s]
      /\ made' = IF avpkt[w] = Empty THEN made ELSE [made EXCEPT ![avpkt[w]] = Made(w)]
      /\ UNCHANGED <<state, nb_frames, result>>
  BY DEF Release, Goto
<1>3. UNCHANGED <<ringVars, outVars>>
  BY WorkerFrameVars DEF WorkerStep
<1>4. state[w] = "SETUP_FINISHED" /\ InRing(w) /\ ~Done(w) /\ df[w] = <<>>
  <2>1. state[w] = "SETUP_FINISHED"
    BY <1>2 DEF IInv, PlaceInv
  <2> QED BY <1>1, <1>2, <2>1, BusyInRing DEF Done, FilledInv
<1>5. s \in Seq(Items) /\ Made(w) = s \o Error(result[w]) /\ Made(w) \in Seq(Items)
  BY <1>1, MadeIs
<1>6. avpkt[w] = Empty => s = <<>> /\ result[w] = Eof
  <2> SUFFICES ASSUME avpkt[w] = Empty PROVE s = <<>> /\ result[w] = Eof
    OBVIOUS
  <2>1. nb_frames[w] = 0 /\ result[w] = Eof
    BY <1>1, <1>2 DEF ResultInv
  <2> QED BY <2>1
<1>7. avpkt[w] # Empty => result[w] \in {Ok, avpkt[w]} /\ avpkt[w] \in Packets
  BY <1>1, <1>2 DEF ResultInv, FrameTypes, Packets, Empty
<1> HIDE DEF s
<1>8. /\ df'[w] = s /\ df' \in [Workers -> Seq(Items)] /\ made' \in [Packets -> Seq(Items)]
      /\ \A v \in Workers : v # w => df'[v] = df[v] /\ wpc'[v] = wpc[v]
      /\ wpc'[w] = "finish"
      /\ avpkt[w] # Empty => made'[avpkt[w]] = Made(w)
      /\ \A k \in Packets : k # avpkt[w] => made'[k] = made[k]
  <2>1. <<>> \o s = s
    BY <1>5, ConcatEmptySeq
  <2>2. df \in [Workers -> Seq(Items)] /\ made \in [Packets -> Seq(Items)] /\ wpc = [v \in Workers |-> wpc[v]]
    BY <1>1 DEF FrameTypes, IInv, Types
  <2> QED BY <1>2, <1>4, <1>5, <1>7, <2>1, <2>2
<1>9. \A v : InRing(v)' <=> InRing(v)
  BY <1>3, RingFrame
<1>10. FrameTypes'
  BY <1>1, <1>2, <1>3, <1>8 DEF FrameTypes, ringVars, outVars
<1>11. RingData'
  BY <1>1, <1>3, RingFrame
<1>12. ResultInv'
  BY <1>1, <1>2, <1>3, <1>8 DEF ResultInv, ringVars
<1>13. FilledInv'
  <2> SUFFICES ASSUME NEW v \in Workers
               PROVE  /\ ~Done(v)' => df'[v] = <<>>
                      /\ ~InRing(v) => df'[v] = <<>> /\ result[v] = Ok
                      /\ InRing(v) /\ Done(v)' =>
                           IF avpkt[v] = Empty
                           THEN df'[v] = <<>> /\ result[v] = Eof
                           ELSE /\ result[v] \in {Ok, avpkt[v]}
                                /\ made'[avpkt[v]] = df'[v] \o Error(result[v])
    BY <1>2, <1>3, <1>9 DEF FilledInv, Error, ringVars
  <2>1. CASE v = w
    <3>1. Done(v)'
      BY <1>8, <2>1 DEF Done
    <3>2. CASE avpkt[w] = Empty
      BY <1>4, <1>6, <1>8, <2>1, <3>1, <3>2
    <3>3. CASE avpkt[w] # Empty
      BY <1>4, <1>5, <1>7, <1>8, <2>1, <3>1, <3>3
    <3> QED BY <3>2, <3>3
  <2>2. CASE v # w
    <3>1. /\ Done(v)' <=> Done(v)
          /\ df'[v] = df[v]
      BY <1>2, <1>8, <2>2 DEF Done
    <3>2. InRing(v) /\ avpkt[v] # Empty => avpkt[v] # avpkt[w] /\ avpkt[v] \in Packets
      <4> SUFFICES ASSUME InRing(v), avpkt[v] # Empty
                   PROVE  avpkt[v] # avpkt[w] /\ avpkt[v] \in Packets
        OBVIOUS
      <4>1. avpkt[v] # avpkt[w]
        BY <1>1, <1>4, <2>2, PacketOfOne DEF RingData
      <4>2. avpkt[v] \in Packets
        BY <1>1 DEF FrameTypes, Packets, Empty
      <4> QED BY <4>1, <4>2
    <3>3. InRing(v) /\ avpkt[v] # Empty => made'[avpkt[v]] = made[avpkt[v]]
      BY <1>8, <3>2
    <3> QED BY <1>1, <3>1, <3>3 DEF FilledInv
  <2> QED BY <2>1, <2>2
<1>14. OutputInv' /\ EofInv'
  <2>1. (Flushing' <=> Flushing)
    BY <1>3, RingFrame
  <2> QED BY <1>1, <1>3, <1>9, <2>1 DEF OutputInv, EofInv, NoOutput, ringVars, outVars
<1>15. HandedOutInv'
  <2>1. PICK c \in Int : first - 1 <= c /\ c <= nb_packets /\ HandedOut(c)
    BY <1>1 DEF HandedOutInv
  <2>2. avpkt[w] = Empty \/ c < avpkt[w]
    BY <1>4, <2>1 DEF HandedOut
  <2>3. /\ first \in Nat \ {0} /\ c + 1 - first \in Nat /\ nb_packets \in Nat
        /\ nb_packets <= MaxPackets /\ avpkt[w] \in Nat /\ avpkt[w] <= nb_packets
    BY <1>1, <2>1 DEF FrameTypes
  <2>4. \A k \in first .. first + (c + 1 - first) - 1 : made'[k] = made[k]
    <3>1. \A k \in first .. first + (c + 1 - first) - 1 : k \in Packets /\ k # avpkt[w]
      BY <2>1, <2>2, <2>3 DEF Packets, Empty
    <3> QED BY <1>8, <3>1
  <2>5. Gave(made', first, c + 1 - first) = Gave(made, first, c + 1 - first)
    <3>1. PICK n \in Nat : n = c + 1 - first
      BY <2>3
    <3>2. PICK m2 : m2 = made'
      OBVIOUS
    <3>3. first \in Nat \ {0} /\ \A k \in first .. first + n - 1 : m2[k] = made[k]
      BY <2>3, <2>4, <3>1, <3>2
    <3>4. Gave(m2, first, n) = Gave(made, first, n)
      BY <3>3, GaveSame
    <3> QED BY <3>1, <3>2, <3>4
  <2>6. \A k \in c + 1 .. nb_packets : made'[k] = <<>> \/ \E v \in Workers : InRing(v) /\ avpkt[v] = k
    <3>1. \A k \in c + 1 .. nb_packets : k \in Packets
      BY <2>1, <2>3 DEF Packets
    <3>2. \A k \in c + 1 .. nb_packets : made[k] = <<>> \/ \E v \in Workers : InRing(v) /\ avpkt[v] = k
      BY <2>1 DEF HandedOut
    <3>3. \A k \in c + 1 .. nb_packets : made'[k] = made[k] \/ (InRing(w) /\ avpkt[w] = k)
      BY <1>4, <1>8, <3>1
    <3> QED BY <3>2, <3>3
  <2>7. \A k \in Packets : nb_packets < k => made'[k] = <<>>
    <3>1. \A k \in Packets : nb_packets < k => made[k] = <<>>
      BY <1>1 DEF HandedOutInv
    <3>2. \A k \in Packets : nb_packets < k => k # avpkt[w]
      BY <2>3 DEF Packets
    <3> QED BY <1>8, <3>1, <3>2
  <2>8. HandedOut(c)'
    <3>1. Submitting' <=> Submitting
      BY <1>3, RingFrame
    <3>2. UNCHANGED <<returned, out_df, out_result, first, nb_packets, avpkt, next_pkt>>
      BY <1>3 DEF ringVars, outVars
    <3>3. Gave(made, first, c + 1 - first)' = Gave(made', first, c + 1 - first)
      BY <3>2 DEF Gave
    <3>4. (returned \o (out_df \o Error(out_result)))' = Gave(made, first, c + 1 - first)'
      <4>1. (returned \o (out_df \o Error(out_result)))' = returned \o (out_df \o Error(out_result))
        BY <3>2 DEF Error
      <4>2. returned \o (out_df \o Error(out_result)) = Gave(made, first, c + 1 - first)
        BY <2>1 DEF HandedOut
      <4> QED BY <2>5, <3>3, <4>1, <4>2
    <3>5. \A v \in Workers : InRing(v)' => avpkt'[v] = Empty \/ c < avpkt'[v]
      BY <1>9, <2>1, <3>2 DEF HandedOut
    <3>6. Submitting' => c < next_pkt'
      BY <2>1, <3>1, <3>2 DEF HandedOut
    <3>7. \A k \in (c + 1 .. nb_packets)' :
             made'[k] = <<>> \/ \E v \in Workers : InRing(v)' /\ avpkt'[v] = k
      BY <1>9, <2>6, <3>2
    <3> QED BY <3>4, <3>5, <3>6, <3>7 DEF HandedOut
  <2> QED BY <1>3, <2>1, <2>7, <2>8 DEF HandedOutInv, outVars
<1> QED BY <1>10, <1>11, <1>12, <1>13, <1>14, <1>15 DEF FramesInv

LEMMA WorkerKeepsFrames ==
  ASSUME IInv, FramesInv, NEW w \in Workers, WorkerStep(w)
  PROVE  FramesInv'
<1>1. Types /\ FrameTypes /\ ResultInv
  BY DEF IInv, FramesInv
<1>2. UNCHANGED <<ringVars, outVars>>
  BY WorkerFrameVars
<1>3. /\ wpc = [v \in Workers |-> wpc[v]] /\ state = [v \in Workers |-> state[v]]
      /\ result \in [Workers -> Results] /\ nb_frames \in [Workers -> Nat]
  BY <1>1 DEF Types, FrameTypes
<1>4. \A v \in Workers : v # w => state'[v] = state[v] /\ wpc'[v] = wpc[v]
  BY <1>1, WorkerFrame
<1>5. CASE Release(w)
  BY <1>5, ReleaseKeepsFrames
<1>6. CASE WaitForInput(w) \/ GetInput(w) \/ Start(w)
  <2>1. /\ UNCHANGED <<state, made, df, result, nb_frames>>
        /\ wpc[w] \in {"top", "input"} /\ wpc'[w] \in {"top", "input", "setup", "dead"}
    BY <1>3, <1>6 DEF WaitForInput, GetInput, Start, Goto, madeVars
  <2>2. Done(w)' <=> Done(w)
    BY <2>1 DEF Done
  <2> QED BY <1>2, <1>3, <1>4, <2>1, <2>2, EarlyStep
<1>7. CASE Serialize(w) \/ LockAsync(w) \/ ff_thread_finish_setup(w) \/ AwaitProgress(w) \/ ReportProgress(w)
  <2>1. /\ UNCHANGED <<made, df, result, nb_frames>>
        /\ wpc[w] \in {"serialize", "async", "publish", "decode"}
        /\ wpc'[w] \in {"async", "publish", "decode"}
        /\ state'[w] = state[w] \/ state'[w] = "SETUP_FINISHED"
    BY <1>3, <1>7 DEF Serialize, LockAsync, ff_thread_finish_setup, AwaitProgress, ReportProgress, Goto,
                      madeVars, workerVars
  <2>2. state[w] # "INPUT_READY"
    BY <2>1 DEF IInv, PlaceInv
  <2>3. Done(w)' <=> Done(w)
    BY <2>1, <2>2 DEF Done
  <2> QED BY <1>1, <1>2, <1>3, <1>4, <2>1, <2>3, EarlyStep DEF ResultInv
<1>8. CASE SetUp(w) \/ NothingToDecode(w)
  <2>1. /\ UNCHANGED <<state, made, df>>
        /\ wpc[w] = "setup" /\ wpc'[w] = "serialize"
    BY <1>3, <1>8 DEF SetUp, NothingToDecode, Goto, madeVars
  <2>2. state[w] # "INPUT_READY" /\ ~Done(w) /\ InRing(w)
    BY <2>1, BusyInRing DEF IInv, PlaceInv, Done
  <2>3. Done(w)' <=> Done(w)
    BY <2>1, <2>2 DEF Done
  <2>4. avpkt[w] \in Nat /\ avpkt[w] <= MaxPackets /\ Ok \in Results /\ Eof \in Results
    BY <1>1 DEF FrameTypes, Results
  <2>5. avpkt[w] # Empty => avpkt[w] \in Results
    BY <2>4 DEF Empty, Results, Packets
  <2>6. \E n \in Nat, r \in Results :
          /\ nb_frames' = [nb_frames EXCEPT ![w] = n] /\ result' = [result EXCEPT ![w] = r]
          /\ IF avpkt[w] = Empty THEN r = Eof /\ n = 0 ELSE r \in {Ok, avpkt[w]}
    <3>1. CASE SetUp(w)
      BY <2>4, <3>1 DEF SetUp
    <3>2. CASE NothingToDecode(w)
      BY <2>4, <2>5, <3>2 DEF NothingToDecode
    <3> QED BY <1>8, <3>1, <3>2
  <2>7. /\ result' \in [Workers -> Results] /\ nb_frames' \in [Workers -> Nat]
        /\ \A v \in Workers : v # w => result'[v] = result[v] /\ nb_frames'[v] = nb_frames[v]
        /\ IF avpkt[w] = Empty THEN result'[w] = Eof /\ nb_frames'[w] = 0
                               ELSE result'[w] \in {Ok, avpkt[w]}
    BY <1>3, <2>6
  <2> QED BY <1>2, <1>4, <2>1, <2>2, <2>3, <2>7, EarlyStep
<1>9. CASE Finish(w)
  <2>1. /\ UNCHANGED <<made, df, result, nb_frames>>
        /\ wpc[w] = "finish" /\ wpc'[w] = "top" /\ state'[w] = "INPUT_READY"
    BY <1>3, <1>9 DEF Finish, Goto, madeVars
  <2>2. Done(w)' <=> Done(w)
    BY <2>1 DEF Done
  <2> QED BY <1>2, <1>3, <1>4, <2>1, <2>2, EarlyStep
<1> QED BY <1>5, <1>6, <1>7, <1>8, <1>9 DEF WorkerStep

-----------------------------------------------------------------------------
(* The caller.                                                             *)

queueVars == <<avpkt, next_pkt, next_decoding, next_finished>>
frameData == <<state, wpc, nb_frames, df, result, made>>

(* Steps that only take the caller on in its call.                         *)
LEMMA MoveKeepsFrames ==
  ASSUME FramesInv, UNCHANGED <<queueVars, frameData, outVars>>,
         user' = user \/ (user # "collect" /\ user' \notin {"submit", "update", "collect"}),
         Flushing' \/ (draining' = draining /\ (Flushing => Flushing'))
  PROVE  FramesInv'
<1>1. /\ FrameTypes /\ RingData /\ ResultInv /\ FilledInv /\ OutputInv /\ HandedOutInv /\ EofInv
  BY DEF FramesInv
<1> USE DEF queueVars, frameData, outVars
<1>2. /\ \A w : InRing(w)' <=> InRing(w)
      /\ \A w : Pos(w)' = Pos(w)
  BY DEF InRing, Given, Pos
<1>3. Submitting' => Submitting
  BY DEF Submitting
<1>4. FrameTypes' /\ ResultInv'
  BY <1>1 DEF FrameTypes, ResultInv
<1>5. RingData'
  <2>1. RingOrder'
    BY <1>1, <1>2 DEF RingData, RingOrder
  <2>2. DrainInv' /\ NewestInv'
    BY <1>1, <1>2, <1>3 DEF RingData, DrainInv, NewestInv
  <2> QED BY <2>1, <2>2 DEF RingData
<1>6. FilledInv'
  BY <1>1, <1>2 DEF FilledInv, Done, Error
<1>7. OutputInv' /\ EofInv'
  BY <1>1, <1>2 DEF OutputInv, NoOutput, EofInv
<1>8. \A c : HandedOut(c) => HandedOut(c)'
  BY <1>2, <1>3 DEF HandedOut, Gave, Error
<1>9. HandedOutInv'
  BY <1>1, <1>8 DEF HandedOutInv
<1> QED BY <1>4, <1>5, <1>6, <1>7, <1>9 DEF FramesInv

LEMMA MovesKeepFrames ==
  ASSUME FramesInv,
         \/ ff_thread_receive_frame \/ WaitForSetUp \/ SubmitFails \/ WaitForOutput \/ Leave
         \/ avcodec_flush_buffers \/ Free \/ park_frame_worker_threads \/ StartFree \/ Die \/ Freed
  PROVE  FramesInv'
<1> USE DEF queueVars, frameData, outVars, workerVars, userVars, countVars, madeVars, gotVars
<1>1. CASE WaitForSetUp \/ WaitForOutput \/ park_frame_worker_threads \/ Die
  <2>1. UNCHANGED <<queueVars, frameData, outVars, user, then, draining>>
    BY <1>1 DEF WaitForSetUp, WaitForOutput, park_frame_worker_threads, Die
  <2> QED BY <2>1, MoveKeepsFrames DEF Flushing
<1>2. CASE ff_thread_receive_frame \/ SubmitFails \/ Leave \/ StartFree \/ Freed
  <2>1. /\ UNCHANGED <<queueVars, frameData, outVars, then, draining>>
        /\ user # "collect" /\ user' \notin {"submit", "update", "collect"} /\ ~Flushing
    BY <1>2 DEF ff_thread_receive_frame, SubmitFails, Leave, StartFree, Freed, Flushing
  <2> QED BY <2>1, MoveKeepsFrames
<1>3. CASE avcodec_flush_buffers \/ Free
  <2>1. /\ UNCHANGED <<queueVars, frameData, outVars>>
        /\ user = "outside" /\ user' = "park"
        /\ (then' = "flush") \/ draining' = draining
    BY <1>3 DEF avcodec_flush_buffers, Free, ParkFor
  <2> QED BY <2>1, MoveKeepsFrames DEF Flushing
<1> QED BY <1>1, <1>2, <1>3

LEMMA AtMostOneMore ==
  ASSUME NEW f \in Nat, NEW a \in Nat, NEW b \in Nat, f <= a + 1, a <= b
  PROVE  f <= b + 1
OBVIOUS

(* ff_decode_get_packet().                                                 *)
LEMMA GetPacketKeepsFrames ==
  ASSUME FramesInv, GetPacket
  PROVE  FramesInv'
<1>1. /\ FrameTypes /\ RingData /\ ResultInv /\ FilledInv /\ OutputInv /\ HandedOutInv /\ EofInv
  BY DEF FramesInv
<1>2. /\ UNCHANGED <<frameData, avpkt, next_decoding, next_finished, out_df, out_result, returned, eof,
                     first, then>>
      /\ user = "loop" /\ user' \in {"submit", "leave"} /\ NoOutput
  BY DEF GetPacket, frameData, workerVars, madeVars, gotVars
<1>3. \/ /\ ~draining /\ draining' = draining /\ nb_packets < MaxPackets /\ user' = "submit"
         /\ nb_packets' = nb_packets + 1 /\ next_pkt' = nb_packets + 1
      \/ /\ draining' = TRUE /\ next_pkt' = Empty /\ nb_packets' = nb_packets
      \/ /\ user' = "leave" /\ UNCHANGED <<nb_packets, next_pkt, draining>>
  BY DEF GetPacket
<1> HIDE DEF NoOutput
<1>4. /\ nb_packets \in Nat /\ nb_packets <= MaxPackets
      /\ \A w \in Workers : avpkt[w] \in Nat /\ avpkt[w] <= nb_packets
  BY <1>1 DEF FrameTypes
<1>5. FrameTypes'
  <2>1. /\ nb_packets' \in Nat /\ nb_packets <= nb_packets' /\ nb_packets' <= MaxPackets
        /\ next_pkt' \in Nat /\ next_pkt' <= nb_packets'
    BY <1>1, <1>3, <1>4 DEF FrameTypes, Empty
  <2>2. first' <= nb_packets' + 1 /\ \A w \in Workers : avpkt'[w] <= nb_packets'
    <3>1. first \in Nat /\ first <= nb_packets + 1
      BY <1>1 DEF FrameTypes
    <3>2. nb_packets <= nb_packets' /\ \A w \in Workers : avpkt'[w] = avpkt[w]
      BY <1>2, <2>1
    <3>3. first' <= nb_packets' + 1
      <4>1. first' = first /\ nb_packets' \in Nat
        BY <1>2, <2>1
      <4>2. nb_packets \in Nat /\ nb_packets <= nb_packets'
        BY <1>4, <2>1
      <4>3. first <= nb_packets' + 1
        BY <3>1, <4>1, <4>2, AtMostOneMore
      <4> QED BY <4>1, <4>3
    <3>4. ASSUME NEW w \in Workers PROVE avpkt'[w] <= nb_packets'
      <4>1. avpkt'[w] = avpkt[w] /\ avpkt[w] \in Nat /\ avpkt[w] <= nb_packets /\ nb_packets' \in Nat
        BY <1>4, <2>1, <3>2
      <4> QED BY <1>4, <3>2, <4>1
    <3> QED BY <3>3, <3>4
  <2> QED BY <1>1, <1>2, <2>1, <2>2 DEF FrameTypes, frameData
<1>6. /\ \A w : InRing(w)' <=> InRing(w)
      /\ \A w : Pos(w)' = Pos(w)
      /\ ~Flushing
  BY <1>2 DEF InRing, Given, Pos, Flushing
<1>7. Submitting' => next_pkt' = nb_packets + 1 /\ nb_packets' = nb_packets + 1
  BY <1>2, <1>3 DEF Submitting
<1>8. RingData'
  <2>1. RingOrder'
    BY <1>1, <1>2, <1>6 DEF RingData, RingOrder
  <2>2. DrainInv'
    BY <1>1, <1>2, <1>3, <1>6 DEF RingData, DrainInv
  <2>3. NewestInv'
    BY <1>2, <1>4, <1>7 DEF NewestInv
  <2> QED BY <2>1, <2>2, <2>3 DEF RingData
<1>9. ResultInv' /\ FilledInv'
  BY <1>1, <1>2, <1>6 DEF ResultInv, FilledInv, Done, Error, frameData
<1>10. OutputInv' /\ EofInv'
  BY <1>1, <1>2, <1>3, <1>6 DEF OutputInv, NoOutput, EofInv
<1>11. HandedOutInv'
  <2>1. PICK c \in Int : first - 1 <= c /\ c <= nb_packets /\ HandedOut(c)
    BY <1>1 DEF HandedOutInv
  <2>2. nb_packets' = nb_packets \/ (nb_packets' = nb_packets + 1 /\ nb_packets' \in Packets)
    BY <1>3, <1>4 DEF Packets
  <2>3. \A k \in Packets : nb_packets < k => made[k] = <<>>
    BY <1>1 DEF HandedOutInv
  <2>4. \A k \in c + 1 .. nb_packets' : made'[k] = <<>> \/ \E w \in Workers : InRing(w)' /\ avpkt'[w] = k
    <3> SUFFICES ASSUME NEW k \in c + 1 .. nb_packets'
                 PROVE  made[k] = <<>> \/ \E w \in Workers : InRing(w) /\ avpkt[w] = k
      BY <1>2, <1>6 DEF frameData
    <3>1. CASE k \in c + 1 .. nb_packets
      BY <2>1, <3>1 DEF HandedOut
    <3>2. CASE k \notin c + 1 .. nb_packets
      <4>1. k = nb_packets + 1 /\ k \in Packets
        BY <1>4, <2>1, <2>2, <3>2
      <4> QED BY <1>4, <2>3, <4>1
    <3> QED BY <3>1, <3>2
  <2>5. HandedOut(c)'
    <3>1. (returned \o (out_df \o Error(out_result)) = Gave(made, first, c + 1 - first))'
      BY <1>2, <2>1 DEF HandedOut, Gave, Error, frameData
    <3>2. \A w \in Workers : InRing(w)' => avpkt'[w] = Empty \/ c < avpkt'[w]
      BY <1>2, <1>6, <2>1 DEF HandedOut
    <3>3. Submitting' => c < next_pkt'
      BY <1>4, <1>7, <2>1
    <3> QED BY <2>4, <3>1, <3>2, <3>3 DEF HandedOut
  <2>6. \A k \in Packets : nb_packets' < k => made'[k] = <<>>
    BY <1>2, <1>4, <2>2, <2>3 DEF frameData, Packets
  <2>7. first' = first /\ c <= nb_packets'
    BY <1>2, <1>4, <2>1, <2>2
  <2> QED BY <2>1, <2>5, <2>6, <2>7 DEF HandedOutInv
<1> QED BY <1>5, <1>8, <1>9, <1>10, <1>11 DEF FramesInv

(* submit_packet(): a thread that has nothing gets the packet, ...         *)
LEMMA SubmitKeepsFrames ==
  ASSUME IInv, FramesInv, submit_packet
  PROVE  FramesInv'
<1>1. /\ FrameTypes /\ RingData /\ ResultInv /\ FilledInv /\ OutputInv /\ HandedOutInv /\ EofInv
  BY DEF FramesInv
<1>2. /\ UNCHANGED <<frameData, outVars, next_pkt, next_decoding, next_finished, draining, then>>
      /\ user = "submit" /\ user' = "update" /\ wpc[next_decoding] = "input"
      /\ avpkt' = [avpkt EXCEPT ![next_decoding] = next_pkt]
  BY DEF submit_packet, frameData, outVars, countVars, madeVars, gotVars
<1> USE DEF frameData, outVars
<1>3. next_decoding \in Workers /\ next_finished \in Workers
  BY DEF IInv, Types
<1>4. ~InRing(next_decoding)
  BY <1>2, <1>3 DEF InRing, Given, Workers
<1>5. /\ \A w : InRing(w)' <=> InRing(w)
      /\ \A w : Pos(w)' = Pos(w)
      /\ Submitting' <=> Submitting
      /\ ~Flushing /\ ~Flushing'
  BY <1>2 DEF InRing, Given, Pos, Submitting, Flushing
<1>6. \A w \in Workers : w # next_decoding => avpkt'[w] = avpkt[w]
  BY <1>1, <1>2 DEF FrameTypes
<1>7. \A w \in Workers : InRing(w) => avpkt'[w] = avpkt[w]
  BY <1>4, <1>6
<1>8. FrameTypes'
  BY <1>1, <1>2 DEF FrameTypes
<1>9. RingData'
  <2>1. RingOrder'
    BY <1>1, <1>5, <1>7 DEF RingData, RingOrder
  <2>2. DrainInv' /\ NewestInv'
    BY <1>1, <1>2, <1>5, <1>7 DEF RingData, DrainInv, NewestInv
  <2> QED BY <2>1, <2>2 DEF RingData
<1>10. ResultInv'
  <2>1. \A w \in Workers : wpc[w] # "input" => avpkt'[w] = avpkt[w]
    BY <1>2, <1>6
  <2> QED BY <1>1, <1>2, <2>1 DEF ResultInv
<1>11. FilledInv'
  <2>1. \A v : (Done(v)' <=> Done(v)) /\ Error(result[v])' = Error(result[v])
    BY <1>2 DEF Done, Error
  <2> SUFFICES ASSUME NEW v \in Workers
               PROVE  /\ ~Done(v) => df[v] = <<>>
                      /\ ~InRing(v) => df[v] = <<>> /\ result[v] = Ok
                      /\ InRing(v) /\ Done(v) =>
                           IF avpkt'[v] = Empty
                           THEN df[v] = <<>> /\ result[v] = Eof
                           ELSE /\ result[v] \in {Ok, avpkt'[v]}
                                /\ made[avpkt'[v]] = df[v] \o Error(result[v])
    BY <1>2, <1>5, <2>1 DEF FilledInv
  <2> QED BY <1>1, <1>7 DEF FilledInv
<1>12. OutputInv' /\ EofInv'
  BY <1>1, <1>2, <1>5, <1>7 DEF OutputInv, NoOutput, EofInv
<1>13. HandedOutInv'
  <2>1. \A c : HandedOut(c) => HandedOut(c)'
    <3> SUFFICES ASSUME NEW c, HandedOut(c) PROVE HandedOut(c)'
      OBVIOUS
    <3>1. (returned \o (out_df \o Error(out_result)) = Gave(made, first, c + 1 - first))'
      BY <1>2 DEF HandedOut, Gave, Error
    <3>2. \A w \in Workers : InRing(w)' => avpkt'[w] = Empty \/ c < avpkt'[w]
      BY <1>5, <1>7 DEF HandedOut
    <3>3. \A k \in c + 1 .. nb_packets : made[k] = <<>> \/ \E w \in Workers : InRing(w)' /\ avpkt'[w] = k
      BY <1>5, <1>7 DEF HandedOut
    <3>4. Submitting' => c < next_pkt'
      BY <1>2, <1>5 DEF HandedOut
    <3> QED BY <1>2, <3>1, <3>2, <3>3, <3>4 DEF HandedOut
  <2> QED BY <1>1, <1>2, <2>1 DEF HandedOutInv
<1> QED BY <1>8, <1>9, <1>10, <1>11, <1>12, <1>13 DEF FramesInv

LEMMA PosType ==
  ASSUME IInv, NEW v \in Workers
  PROVE  Pos(v) \in Int
<1>1. v \in Int /\ next_finished \in Int /\ NbThreads \in Int
  BY DEF IInv, Types, Workers
<1> QED BY <1>1 DEF Pos

(* ... and is the last of the ring.                                        *)
LEMMA SubmittedKeepsFrames ==
  ASSUME IInv, ContextInv, FramesInv, Submitted
  PROVE  FramesInv'
<1>1. /\ FrameTypes /\ RingData /\ ResultInv /\ FilledInv /\ OutputInv /\ HandedOutInv /\ EofInv
  BY DEF FramesInv
<1>0. PICK w \in Workers : w = next_decoding
  BY DEF IInv, Types
<1>2. /\ UNCHANGED <<wpc, nb_frames, df, result, made, outVars, avpkt, next_pkt, next_finished, draining,
                     then>>
      /\ user = "update" /\ user' \in {"loop", "collect"}
      /\ state' = [state EXCEPT ![w] = "SETTING_UP"]
      /\ next_decoding' = (w + 1) % NbThreads
      /\ user' = IF next_decoding' # next_finished /\ ~draining THEN "loop" ELSE "collect"
  BY <1>0 DEF Submitted, outVars, countVars, madeVars, gotVars
<1> USE DEF outVars
<1>3. /\ w \in Workers /\ next_finished \in Workers /\ next_decoding' \in Workers
      /\ next_decoding' = IF w = NbThreads - 1 THEN 0 ELSE w + 1
      /\ state = [v \in Workers |-> state[v]] /\ wpc[w] = "input"
  BY <1>0, <1>2, NextWorker DEF IInv, Types, RingInv
<1>4. ~InRing(w) /\ \A v \in Workers : InRing(v) => Pos(v) < Pos(w)
  BY <1>0, <1>2, <1>3 DEF InRing, Given, Pos, Workers
<1>5. \A v \in Workers : InRing(v)' <=> (InRing(v) \/ v = w)
  <2>1. CASE next_decoding' = next_finished
    <3>1. \A v \in Workers : InRing(v)'
      BY <1>2, <2>1 DEF InRing
    <3>2. \A v \in Workers : Given(v) \/ v = w
      BY <1>0, <1>3, <2>1 DEF Given, Workers
    <3> QED BY <3>1, <3>2 DEF InRing
  <2>2. CASE next_decoding' # next_finished
    <3>1. \A v \in Workers : InRing(v)' <=> Given(v)'
      BY <1>2, <2>2 DEF InRing
    <3>2. \A v \in Workers : Given(v)' <=> (Given(v) \/ v = w)
      <4>1. CASE w = NbThreads - 1
        BY <1>0, <1>2, <1>3, <2>2, <4>1 DEF Given, Workers
      <4>2. CASE w # NbThreads - 1
        BY <1>0, <1>2, <1>3, <2>2, <4>2 DEF Given, Workers
      <4> QED BY <4>1, <4>2
    <3>3. \A v \in Workers : InRing(v) <=> Given(v)
      BY <1>2 DEF InRing
    <3> QED BY <3>1, <3>2, <3>3
  <2> QED BY <2>1, <2>2
<1>6. \A v : Pos(v)' = Pos(v)
  BY <1>2 DEF Pos
<1>7. /\ avpkt[w] = next_pkt /\ next_pkt \in Nat
      /\ next_pkt = Empty <=> draining
      /\ next_pkt # Empty => next_pkt = nb_packets
  BY <1>0, <1>2 DEF ContextInv, ContextTypes, NextPktInv
<1>8. ~Flushing /\ ~Flushing' /\ ~Submitting' /\ (Submitting <=> next_pkt # Empty)
  BY <1>2 DEF Flushing, Submitting
<1>9. FrameTypes'
  BY <1>1, <1>2 DEF FrameTypes
<1>10. RingData'
  <2>1. RingOrder'
    <3> SUFFICES ASSUME NEW v \in Workers, NEW u \in Workers, InRing(v)', InRing(u)', Pos(v) < Pos(u)
                 PROVE  avpkt[u] = Empty \/ (avpkt[v] # Empty /\ avpkt[v] < avpkt[u])
      BY <1>2, <1>6 DEF RingOrder
    <3>0. Pos(v) \in Int /\ Pos(u) \in Int /\ Pos(w) \in Int
      BY <1>3, PosType
    <3>1. v # w /\ InRing(v)
      BY <1>4, <1>5, <3>0
    <3>2. CASE u # w
      BY <1>1, <1>5, <3>1, <3>2 DEF RingData, RingOrder
    <3>3. CASE u = w /\ avpkt[w] # Empty
      <4>1. avpkt[v] # Empty
        BY <1>1, <1>7, <1>8, <3>1, <3>3 DEF RingData, DrainInv
      <4>2. avpkt[v] < next_pkt
        BY <1>1, <1>7, <1>8, <3>1, <3>3 DEF RingData, NewestInv
      <4> QED BY <1>7, <3>3, <4>1, <4>2
    <3> QED BY <3>2, <3>3
  <2>2. DrainInv'
    BY <1>1, <1>2, <1>5, <1>7, <1>8 DEF RingData, DrainInv
  <2>3. NewestInv'
    BY <1>8 DEF NewestInv
  <2> QED BY <2>1, <2>2, <2>3 DEF RingData
<1>11. ResultInv'
  BY <1>1, <1>2 DEF ResultInv
<1>12. FilledInv'
  <2>1. \A v \in Workers : v # w => (Done(v)' <=> Done(v))
    BY <1>2, <1>3 DEF Done
  <2>2. ~Done(w)' /\ df[w] = <<>>
    <3>1. state'[w] = "SETTING_UP" /\ wpc'[w] = "input"
      BY <1>2, <1>3
    <3> QED BY <1>1, <1>3, <1>4, <3>1 DEF Done, FilledInv
  <2>3. \A v : Error(result[v])' = Error(result[v])
    BY <1>2 DEF Error
  <2> SUFFICES ASSUME NEW v \in Workers
               PROVE  /\ ~Done(v)' => df[v] = <<>>
                      /\ ~InRing(v)' => df[v] = <<>> /\ result[v] = Ok
                      /\ InRing(v)' /\ Done(v)' =>
                           IF avpkt[v] = Empty
                           THEN df[v] = <<>> /\ result[v] = Eof
                           ELSE /\ result[v] \in {Ok, avpkt[v]}
                                /\ made[avpkt[v]] = df[v] \o Error(result[v])
    BY <1>2, <2>3 DEF FilledInv
  <2>4. CASE v = w
    <3>1. InRing(w)'
      BY <1>3, <1>5
    <3> QED BY <2>2, <2>4, <3>1
  <2>5. CASE v # w
    BY <1>1, <1>5, <2>1, <2>5 DEF FilledInv
  <2> QED BY <2>4, <2>5
<1>13. OutputInv'
  BY <1>1, <1>2 DEF OutputInv, NoOutput
<1>14. EofInv'
  BY <1>1, <1>2, <1>5, <1>7, <1>8 DEF EofInv
<1>15. HandedOutInv'
  <2>1. PICK c \in Int : first - 1 <= c /\ c <= nb_packets /\ HandedOut(c)
    BY <1>1 DEF HandedOutInv
  <2>2. (returned \o (out_df \o Error(out_result)) = Gave(made, first, c + 1 - first))'
    BY <1>2, <2>1 DEF HandedOut, Gave, Error
  <2>3. \A v \in Workers : InRing(v)' => avpkt'[v] = Empty \/ c < avpkt'[v]
    BY <1>2, <1>5, <1>7, <1>8, <2>1 DEF HandedOut
  <2>4. \A k \in c + 1 .. nb_packets : made[k] = <<>> \/ \E v \in Workers : InRing(v)' /\ avpkt[v] = k
    BY <1>5, <2>1 DEF HandedOut
  <2>5. HandedOut(c)'
    BY <1>2, <1>8, <2>2, <2>3, <2>4 DEF HandedOut
  <2> QED BY <1>1, <1>2, <2>1, <2>5 DEF HandedOutInv
<1> QED BY <1>9, <1>10, <1>11, <1>12, <1>13, <1>14, <1>15 DEF FramesInv

(* The oldest packet's frames and error are taken over.                    *)
LEMMA CollectKeepsFrames ==
  ASSUME IInv, FramesInv, Collect
  PROVE  FramesInv'
<1>1. /\ FrameTypes /\ RingData /\ ResultInv /\ FilledInv /\ OutputInv /\ HandedOutInv /\ EofInv
  BY DEF FramesInv
<1>0. PICK w \in Workers : w = next_finished
  BY DEF IInv, Types
<1>2. /\ UNCHANGED <<state, wpc, avpkt, nb_frames, made, next_pkt, next_decoding, draining, then,
                     nb_packets, first, returned, eof>>
      /\ user = "collect" /\ user' = "loop" /\ state[w] = "INPUT_READY"
      /\ out_result' = result[w] /\ result' = [result EXCEPT ![w] = Ok]
      /\ out_df' = df[w] /\ df' = [df EXCEPT ![w] = <<>>]
      /\ next_finished' = (w + 1) % NbThreads
  BY <1>0 DEF Collect, countVars, madeVars, gotVars
<1>3. /\ next_decoding \in Workers /\ next_finished' \in Workers
      /\ next_finished' = IF w = NbThreads - 1 THEN 0 ELSE w + 1
      /\ wpc[w] # "finish" /\ Done(w)
  BY <1>2, NextWorker DEF IInv, Types, PlaceInv, Done
<1>4. InRing(w) /\ Pos(w) = 0 /\ \A v \in Workers : v # w => Pos(w) < Pos(v)
  BY <1>0, <1>2, <1>3 DEF InRing, Given, Pos, Workers
<1>5. \A v \in Workers : InRing(v)' <=> (InRing(v) /\ v # w)
  <2>1. \A v \in Workers : InRing(v)' <=> Given(v)'
    BY <1>2 DEF InRing
  <2>2. CASE next_finished = next_decoding
    <3>1. \A v \in Workers : InRing(v)
      BY <1>2, <2>2 DEF InRing
    <3>2. \A v \in Workers : Given(v)' <=> v # w
      BY <1>0, <1>2, <1>3, <2>2 DEF Given, Workers
    <3> QED BY <2>1, <3>1, <3>2
  <2>3. CASE next_finished # next_decoding
    <3>1. \A v \in Workers : InRing(v) <=> Given(v)
      BY <2>3 DEF InRing
    <3>2. \A v \in Workers : Given(v)' <=> (Given(v) /\ v # w)
      <4>1. CASE w = NbThreads - 1
        BY <1>0, <1>2, <1>3, <2>3, <4>1 DEF Given, Workers
      <4>2. CASE w # NbThreads - 1
        BY <1>0, <1>2, <1>3, <2>3, <4>2 DEF Given, Workers
      <4> QED BY <4>1, <4>2
    <3> QED BY <2>1, <3>1, <3>2
  <2> QED BY <2>2, <2>3
<1>6. \A u, v \in Workers : u # w /\ v # w /\ Pos(u)' < Pos(v)' => Pos(u) < Pos(v)
  <2>1. CASE w = NbThreads - 1
    BY <1>0, <1>3, <2>1 DEF Pos, Workers
  <2>2. CASE w # NbThreads - 1
    BY <1>0, <1>3, <2>2 DEF Pos, Workers
  <2> QED BY <2>1, <2>2
<1>7. ~Flushing /\ ~Flushing' /\ ~Submitting' /\ ~Submitting
  BY <1>2 DEF Flushing, Submitting
<1>8. /\ df[w] \in Seq(Items) /\ result[w] \in Results /\ avpkt[w] \in Nat
      /\ IF avpkt[w] = Empty
         THEN df[w] = <<>> /\ result[w] = Eof
         ELSE result[w] \in {Ok, avpkt[w]} /\ made[avpkt[w]] = df[w] \o Error(result[w])
  BY <1>1, <1>3, <1>4 DEF FrameTypes, FilledInv
<1>9. out_df = <<>> /\ out_result = Ok
  BY <1>1, <1>2 DEF OutputInv, NoOutput
<1>10. FrameTypes'
  <2>1. <<>> \in Seq(Items) /\ Ok \in Results
    BY DEF Results
  <2>2. df' \in [Workers -> Seq(Items)] /\ result' \in [Workers -> Results]
    BY <1>1, <1>2, <2>1 DEF FrameTypes
  <2> QED BY <1>1, <1>2, <1>8, <2>2 DEF FrameTypes
<1>11. RingData'
  <2>1. RingOrder'
    BY <1>1, <1>2, <1>5, <1>6 DEF RingData, RingOrder
  <2>2. DrainInv' /\ NewestInv'
    BY <1>1, <1>2, <1>5, <1>7 DEF RingData, DrainInv, NewestInv
  <2> QED BY <2>1, <2>2 DEF RingData
<1>12. /\ \A v \in Workers : v # w => df'[v] = df[v] /\ result'[v] = result[v]
       /\ df'[w] = <<>> /\ result'[w] = Ok
  BY <1>1, <1>2 DEF FrameTypes
<1>13. ResultInv'
  <2>1. wpc[w] \notin {"serialize", "async", "publish", "decode", "finish"}
    BY <1>2 DEF IInv, PlaceInv
  <2> QED BY <1>1, <1>2, <1>12, <2>1 DEF ResultInv
<1>14. FilledInv'
  <2>1. \A v : Done(v)' <=> Done(v)
    BY <1>2 DEF Done
  <2>2. \A v : Error(result[v])' = Error(result'[v])
    BY DEF Error
  <2> SUFFICES ASSUME NEW v \in Workers
               PROVE  /\ ~Done(v) => df'[v] = <<>>
                      /\ ~InRing(v)' => df'[v] = <<>> /\ result'[v] = Ok
                      /\ InRing(v)' /\ Done(v) =>
                           IF avpkt[v] = Empty
                           THEN df'[v] = <<>> /\ result'[v] = Eof
                           ELSE /\ result'[v] \in {Ok, avpkt[v]}
                                /\ made[avpkt[v]] = df'[v] \o Error(result'[v])
    BY <1>2, <2>1, <2>2 DEF FilledInv
  <2>3. CASE v = w
    <3>1. ~InRing(v)'
      BY <1>5, <2>3
    <3> QED BY <1>12, <2>3, <3>1
  <2>4. CASE v # w
    BY <1>1, <1>5, <1>12, <2>4 DEF FilledInv
  <2> QED BY <2>3, <2>4
<1>15. OutputInv'
  BY <1>2 DEF OutputInv
<1>16. EofInv'
  <2> SUFFICES ASSUME eof \/ result[w] = Eof
               PROVE  /\ draining
                      /\ df[w] = <<>> /\ result[w] \in {Ok, Eof}
                      /\ \A v \in Workers : InRing(v) => avpkt[v] = Empty
    BY <1>2, <1>5 DEF EofInv
  <2>1. avpkt[w] = Empty
    <3>1. CASE eof
      BY <1>1, <1>4, <3>1 DEF EofInv
    <3>2. CASE result[w] = Eof
      BY <1>8, <3>2 DEF Ok, Eof
    <3> QED BY <3>1, <3>2
  <2>2. draining
    BY <1>1, <1>4, <1>7, <2>1 DEF RingData, DrainInv
  <2>3. \A v \in Workers : InRing(v) => avpkt[v] = Empty
    BY <1>1, <1>4, <2>1 DEF RingData, RingOrder
  <2> QED BY <1>8, <2>1, <2>2, <2>3
<1>17. HandedOutInv'
  <2>1. PICK c \in Int : first - 1 <= c /\ c <= nb_packets /\ HandedOut(c)
    BY <1>1 DEF HandedOutInv
  <2>2. /\ first \in Nat \ {0} /\ nb_packets \in Nat /\ nb_packets <= MaxPackets
        /\ made \in [Packets -> Seq(Items)] /\ returned \in Seq(Items)
        /\ \A v \in Workers : avpkt[v] \in Nat
        /\ avpkt[w] <= nb_packets
    BY <1>1 DEF FrameTypes
  <2>3. returned = Gave(made, first, c + 1 - first)
    <3>1. Error(out_result) = <<>>
      BY <1>9 DEF Error, Ok, Packets
    <3>2. returned \o (<<>> \o <<>>) = returned
      BY <2>2, ConcatEmptySeq
    <3> QED BY <1>9, <2>1, <3>1, <3>2 DEF HandedOut
  <2> DEFINE d == IF avpkt[w] = Empty THEN c ELSE avpkt[w]
  <2>4. d \in Int /\ first - 1 <= d /\ d <= nb_packets /\ c <= d
    BY <1>4, <2>1, <2>2 DEF HandedOut
  <2>5. returned \o (df[w] \o Error(result[w])) = Gave(made, first, d + 1 - first)
    <3>1. CASE avpkt[w] = Empty
      <4>1. df[w] = <<>> /\ Error(result[w]) = <<>>
        BY <1>8, <3>1 DEF Error, Eof, Packets
      <4>2. returned \o (<<>> \o <<>>) = returned
        BY <2>2, ConcatEmptySeq
      <4> QED BY <2>3, <3>1, <4>1, <4>2
    <3>2. CASE avpkt[w] # Empty
      <4> DEFINE p == avpkt[w]
      <4>1. p \in Int /\ c < p /\ p <= MaxPackets /\ first <= p /\ d = p
        BY <1>4, <2>1, <2>2, <3>2 DEF HandedOut
      <4>2. \A k \in c + 1 .. p - 1 : made[k] = <<>>
        <5> SUFFICES ASSUME NEW k \in c + 1 .. p - 1, NEW v \in Workers, InRing(v), avpkt[v] = k
                     PROVE  FALSE
          BY <2>1, <2>2, <4>1 DEF HandedOut
        <5>1. v # w /\ k # Empty
          BY <2>1, <2>2, <4>1 DEF Empty
        <5>2. avpkt[w] < avpkt[v]
          BY <1>1, <1>4, <5>1 DEF RingData, RingOrder
        <5> QED BY <2>2, <4>1, <5>2
      <4> DEFINE a == c + 1 - first
                 b == p - first
      <4>3. /\ a \in Nat /\ b \in Nat /\ a <= b /\ first + b - 1 <= MaxPackets
            /\ first + b <= MaxPackets /\ first + b = p /\ d + 1 - first = b + 1
            /\ \A k \in first + a .. first + b - 1 : made[k] = <<>>
        BY <2>1, <2>2, <4>1, <4>2
      <4> HIDE DEF a, b, p, d
      <4>4. Gave(made, first, b) = Gave(made, first, a)
        BY <2>2, <4>3, GaveSkip
      <4>5. Gave(made, first, b + 1) = Gave(made, first, b) \o made[p]
        BY <2>2, <4>3, GaveNext
      <4>6. made[p] = df[w] \o Error(result[w])
        BY <1>8, <3>2 DEF p
      <4>7. returned = Gave(made, first, a)
        BY <2>3 DEF a
      <4> QED BY <4>3, <4>4, <4>5, <4>6, <4>7
    <3> QED BY <3>1, <3>2
  <2>6. \A v \in Workers : InRing(v) /\ v # w => avpkt[v] = Empty \/ d < avpkt[v]
    BY <1>1, <1>4, <2>1 DEF RingData, RingOrder, HandedOut
  <2>7. \A k \in d + 1 .. nb_packets : made[k] = <<>> \/ \E v \in Workers : InRing(v) /\ v # w /\ avpkt[v] = k
    <3> SUFFICES ASSUME NEW k \in d + 1 .. nb_packets, made[k] # <<>>
                 PROVE  \E v \in Workers : InRing(v) /\ v # w /\ avpkt[v] = k
      OBVIOUS
    <3>1. k \in c + 1 .. nb_packets /\ k # avpkt[w]
      <4>1. avpkt[w] \in Int /\ k \in Int /\ d + 1 <= k /\ k <= nb_packets /\ c \in Int
        BY <2>1, <2>2, <2>4
      <4>2. c + 1 <= k
        BY <2>4, <4>1
      <4>3. CASE avpkt[w] = Empty
        BY <2>1, <2>2, <4>1, <4>2, <4>3 DEF Empty
      <4>4. CASE avpkt[w] # Empty
        BY <2>2, <4>1, <4>2, <4>4
      <4> QED BY <4>3, <4>4
    <3>2. PICK v \in Workers : InRing(v) /\ avpkt[v] = k
      BY <2>1, <3>1 DEF HandedOut
    <3> QED BY <3>1, <3>2
  <2>8. PICK e \in Int : e = d
    BY <2>4
  <2> HIDE DEF d
  <2>9. HandedOut(e)'
    <3>1. (returned \o (out_df \o Error(out_result)))' = returned \o (df[w] \o Error(result[w]))
      BY <1>2 DEF Error
    <3>2. Gave(made, first, e + 1 - first)' = Gave(made, first, e + 1 - first)
      BY <1>2 DEF Gave
    <3>3. (returned \o (out_df \o Error(out_result)) = Gave(made, first, e + 1 - first))'
      BY <2>5, <2>8, <3>1, <3>2
    <3>4. \A v \in Workers : InRing(v)' => avpkt'[v] = Empty \/ e < avpkt'[v]
      BY <1>2, <1>5, <2>6, <2>8
    <3>5. \A k \in e + 1 .. nb_packets : made[k] = <<>> \/ \E v \in Workers : InRing(v)' /\ avpkt[v] = k
      BY <1>5, <2>7, <2>8
    <3> QED BY <1>2, <1>7, <3>3, <3>4, <3>5 DEF HandedOut
  <2>10. \A k \in Packets : nb_packets < k => made[k] = <<>>
    BY <1>1 DEF HandedOutInv
  <2> QED BY <1>2, <2>4, <2>8, <2>9, <2>10 DEF HandedOutInv
<1> QED BY <1>10, <1>11, <1>13, <1>14, <1>15, <1>16, <1>17 DEF FramesInv

(* What is returned has been taken over.                                   *)
LEMMA ReturnKeepsFrames ==
  ASSUME FramesInv, ReturnFrame \/ ReturnResult
  PROVE  FramesInv'
<1>1. /\ FrameTypes /\ RingData /\ ResultInv /\ FilledInv /\ OutputInv /\ HandedOutInv /\ EofInv
  BY DEF FramesInv
<1>2. /\ UNCHANGED <<queueVars, frameData, draining, then, nb_packets, first>>
      /\ user = "loop" /\ user' = "leave"
      /\ \/ /\ out_df # <<>> /\ returned' = Append(returned, Head(out_df)) /\ out_df' = Tail(out_df)
            /\ UNCHANGED <<out_result, eof>>
         \/ /\ out_df = <<>> /\ out_result # Ok /\ out_df' = out_df /\ out_result' = Ok
            /\ IF out_result = Eof
               THEN eof' = TRUE /\ returned' = returned
               ELSE returned' = Append(returned, <<out_result, 0>>) /\ eof' = eof
  BY DEF ReturnFrame, ReturnResult, queueVars, frameData, workerVars, madeVars, countVars
<1> USE DEF queueVars, frameData
<1>3. out_df \in Seq(Items) /\ returned \in Seq(Items) /\ out_result \in Results /\ eof \in BOOLEAN
  BY <1>1 DEF FrameTypes
<1>4. Error(out_result) \in Seq(Items)
  <2>1. out_result \in Packets => <<out_result, 0>> \in Items
    BY DEF Items, Packets
  <2> QED BY <2>1 DEF Error
<1>5. /\ returned' \o (out_df' \o Error(out_result')) = returned \o (out_df \o Error(out_result))
      /\ returned' \in Seq(Items) /\ out_df' \in Seq(Items) /\ out_result' \in Results
      /\ eof' \in BOOLEAN
  <2>1. CASE out_df # <<>>
    <3> DEFINE h == Head(out_df)
               t == Tail(out_df)
               e == Error(out_result)
    <3>1. h \in Items /\ t \in Seq(Items) /\ e \in Seq(Items) /\ out_df = <<h>> \o t
      <4>1. h \in Items /\ t \in Seq(Items)
        BY <1>3, <2>1
      <4>2. out_df = <<h>> \o t
        BY <1>3, <2>1
      <4> QED BY <1>4, <4>1, <4>2
    <3>2. returned' = Append(returned, h) /\ out_df' = t /\ out_result' = out_result /\ eof' = eof
      BY <1>2, <2>1
    <3> HIDE DEF h, t, e
    <3>3. Append(returned, h) = returned \o <<h>> /\ <<h>> \in Seq(Items)
      BY <1>3, <3>1, AppendIsConcat
    <3>4. (<<h>> \o t) \o e = <<h>> \o (t \o e) /\ t \o e \in Seq(Items)
      BY <3>1, <3>3, ConcatAssociative, ConcatProperties
    <3>5. (returned \o <<h>>) \o (t \o e) = returned \o (<<h>> \o (t \o e))
      BY <1>3, <3>3, <3>4, ConcatAssociative
    <3>6. Append(returned, h) \in Seq(Items)
      BY <1>3, <3>1
    <3> QED BY <1>3, <3>1, <3>2, <3>3, <3>4, <3>5, <3>6 DEF e
  <2>2. CASE out_df = <<>>
    <3>1. out_df' = <<>> /\ out_result' = Ok /\ out_result # Ok
      BY <1>2, <2>2
    <3>2. Error(Ok) = <<>> /\ Error(Eof) = <<>> /\ Ok \in Results
      BY DEF Error, Ok, Eof, Packets, Results
    <3>3. returned' \o (out_df' \o Error(out_result')) = returned'
      <4>1. returned' \in Seq(Items)
        <5>1. out_result \in Packets => <<out_result, 0>> \in Items
          BY DEF Items, Packets
        <5>2. out_result = Eof \/ out_result \in Packets
          BY <1>3, <3>1 DEF Results
        <5> QED BY <1>2, <1>3, <2>2, <5>1, <5>2
      <4> DEFINE r == returned'
      <4>2. r \o (<<>> \o <<>>) = r
        <5> HIDE DEF r
        <5>1. r \in Seq(Items)
          BY <4>1 DEF r
        <5> QED BY <5>1, ConcatEmptySeq
      <4> QED BY <3>1, <3>2, <4>2
    <3>4. CASE out_result = Eof
      <4>1. returned' = returned /\ eof' = TRUE
        BY <1>2, <2>2, <3>1, <3>4
      <4>2. returned \o (<<>> \o <<>>) = returned
        BY <1>3, ConcatEmptySeq
      <4> QED BY <1>3, <2>2, <3>1, <3>2, <3>3, <3>4, <4>1, <4>2
    <3>5. CASE out_result # Eof
      <4> DEFINE h == <<out_result, 0>>
      <4>1. returned' = Append(returned, h) /\ eof' = eof
        BY <1>2, <2>2, <3>1, <3>5
      <4>2. out_result \in Packets
        BY <1>3, <3>1, <3>5 DEF Results
      <4>3. h \in Items /\ Error(out_result) = <<h>>
        BY <4>2 DEF Error, Items, Packets
      <4> HIDE DEF h
      <4>4. /\ Append(returned, h) = returned \o <<h>> /\ Append(returned, h) \in Seq(Items)
            /\ <<h>> \in Seq(Items)
        BY <1>3, <4>3, AppendIsConcat
      <4>5. <<>> \o <<h>> = <<h>>
        BY <4>4, ConcatEmptySeq
      <4> QED BY <1>3, <2>2, <3>1, <3>2, <3>3, <4>1, <4>3, <4>4, <4>5
    <3> QED BY <3>4, <3>5
  <2> QED BY <2>1, <2>2
<1>6. /\ \A w : InRing(w)' <=> InRing(w)
      /\ \A w : Pos(w)' = Pos(w)
      /\ ~Submitting /\ ~Submitting' /\ ~Flushing /\ ~Flushing'
  BY <1>2 DEF InRing, Given, Pos, Submitting, Flushing
<1>7. FrameTypes' /\ ResultInv'
  BY <1>1, <1>2, <1>5 DEF FrameTypes, ResultInv
<1>8. RingData'
  <2>1. RingOrder'
    BY <1>1, <1>2, <1>6 DEF RingData, RingOrder
  <2>2. DrainInv' /\ NewestInv'
    BY <1>1, <1>2, <1>6 DEF RingData, DrainInv, NewestInv
  <2> QED BY <2>1, <2>2 DEF RingData
<1>9. FilledInv'
  BY <1>1, <1>2, <1>6 DEF FilledInv, Done, Error
<1>10. OutputInv'
  BY <1>2 DEF OutputInv
<1>11. EofInv'
  <2> SUFFICES ASSUME eof' \/ out_result' = Eof
               PROVE  /\ draining
                      /\ out_df' = <<>> /\ out_result' \in {Ok, Eof}
                      /\ \A w \in Workers : InRing(w) => avpkt[w] = Empty
    BY <1>2, <1>6 DEF EofInv
  <2>1. eof \/ out_result = Eof
    BY <1>2 DEF Ok, Eof
  <2> QED BY <1>1, <1>2, <1>6, <2>1 DEF EofInv
<1>12. HandedOutInv'
  <2>1. \A c : HandedOut(c) => HandedOut(c)'
    <3> SUFFICES ASSUME NEW c, HandedOut(c) PROVE HandedOut(c)'
      OBVIOUS
    <3>1. (returned \o (out_df \o Error(out_result)))' = returned' \o (out_df' \o Error(out_result'))
      BY DEF Error
    <3>2. Gave(made, first, c + 1 - first)' = Gave(made, first, c + 1 - first)
      BY <1>2 DEF Gave
    <3>3. (returned \o (out_df \o Error(out_result)) = Gave(made, first, c + 1 - first))'
      BY <1>5, <3>1, <3>2 DEF HandedOut
    <3>4. \A w \in Workers : InRing(w)' => avpkt'[w] = Empty \/ c < avpkt'[w]
      BY <1>2, <1>6 DEF HandedOut
    <3>5. \A k \in c + 1 .. nb_packets : made[k] = <<>> \/ \E w \in Workers : InRing(w)' /\ avpkt[w] = k
      BY <1>6 DEF HandedOut
    <3> QED BY <1>2, <1>6, <3>3, <3>4, <3>5 DEF HandedOut
  <2> QED BY <1>1, <1>2, <2>1 DEF HandedOutInv
<1> QED BY <1>7, <1>8, <1>9, <1>10, <1>11, <1>12 DEF FramesInv

(* ff_thread_flush(): nothing is left of the packets before.               *)
LEMMA FlushKeepsFrames ==
  ASSUME IInv, FramesInv, ff_thread_flush
  PROVE  FramesInv'
<1>1. FrameTypes /\ HandedOutInv
  BY DEF FramesInv
<1>2. /\ UNCHANGED <<state, wpc, avpkt, nb_frames, next_pkt, draining, nb_packets, made>>
      /\ df' = [w \in Workers |-> <<>>] /\ result' = [w \in Workers |-> Ok]
      /\ out_df' = <<>> /\ out_result' = Ok /\ returned' = <<>> /\ eof' = FALSE
      /\ next_decoding' = 0 /\ next_finished' = 0
      /\ user' = "outside" /\ first' = nb_packets + 1
      /\ Unparked = {}
  BY DEF ff_thread_flush, FlushFrames, madeVars
<1>3. /\ \A w \in Workers : ~InRing(w)'
      /\ ~Submitting'
  BY <1>2 DEF InRing, Given, Workers, Submitting
<1>4. <<>> \in Seq(Items) /\ Ok \in Results /\ Ok # Eof /\ Error(Ok) = <<>>
  BY DEF Results, Ok, Eof, Error, Packets
<1>5. FrameTypes'
  <2>1. df' \in [Workers -> Seq(Items)] /\ result' \in [Workers -> Results]
    BY <1>2, <1>4
  <2>2. first' \in Nat \ {0} /\ first' <= nb_packets + 1
    BY <1>1, <1>2 DEF FrameTypes
  <2> QED BY <1>1, <1>2, <1>4, <2>1, <2>2 DEF FrameTypes
<1>6. RingData' /\ OutputInv'
  BY <1>2, <1>3 DEF RingData, RingOrder, DrainInv, NewestInv, OutputInv
<1>7. ResultInv'
  <2>1. \A w \in Workers : wpc[w] \notin {"serialize", "async", "publish", "decode", "finish"}
    BY <1>2 DEF Unparked, IInv, PlaceInv
  <2> QED BY <1>2, <2>1 DEF ResultInv
<1>8. FilledInv'
  BY <1>2, <1>3 DEF FilledInv
<1>9. EofInv'
  BY <1>2, <1>4 DEF EofInv
<1>10. HandedOutInv'
  <2>1. PICK c \in Int : c = nb_packets
    BY <1>1 DEF FrameTypes
  <2>2. /\ first' \in Nat \ {0} /\ made \in [Packets -> Seq(Items)] /\ c + 1 - first' = 0
        /\ first' - 1 <= c /\ c <= nb_packets' /\ nb_packets' \in Nat
    BY <1>1, <1>2, <2>1 DEF FrameTypes
  <2>3. HandedOut(c)'
    <3> DEFINE f == first'
    <3>1. Gave(made, f, 0) = <<>>
      <4> HIDE DEF f
      <4>1. f \in Nat \ {0}
        BY <2>2 DEF f
      <4> QED BY <2>2, <4>1, GaveNothing
    <3>2. Gave(made, first, c + 1 - first)' = Gave(made, f, 0)
      BY <1>2, <2>2 DEF Gave
    <3>3. (returned \o (out_df \o Error(out_result)))' = <<>>
      <4>1. (returned \o (out_df \o Error(out_result)))' = <<>> \o (<<>> \o Error(Ok))
        BY <1>2 DEF Error
      <4>2. <<>> \o (<<>> \o <<>>) = <<>>
        OBVIOUS
      <4> QED BY <1>4, <4>1, <4>2
    <3>4. (c + 1 .. nb_packets)' = {}
      BY <1>2, <2>1, <2>2
    <3> HIDE DEF f
    <3> QED BY <1>3, <3>1, <3>2, <3>3, <3>4 DEF HandedOut
  <2>4. \A k \in Packets : nb_packets < k => made[k] = <<>>
    BY <1>1 DEF HandedOutInv
  <2> QED BY <1>2, <2>1, <2>2, <2>3, <2>4 DEF HandedOutInv
<1> QED BY <1>5, <1>6, <1>7, <1>8, <1>9, <1>10 DEF FramesInv

LEMMA NextFramesInv == IInv /\ ContextInv /\ FramesInv /\ [Next]_vars => FramesInv'
<1> SUFFICES ASSUME IInv, ContextInv, FramesInv, [Next]_vars PROVE FramesInv'
  OBVIOUS
<1>1. CASE UserStep
  BY <1>1, MovesKeepFrames, GetPacketKeepsFrames, SubmitKeepsFrames, SubmittedKeepsFrames,
     CollectKeepsFrames, ReturnKeepsFrames, FlushKeepsFrames DEF UserStep, InCall
<1>2. ASSUME NEW w \in Workers, WorkerStep(w) PROVE FramesInv'
  BY <1>2, WorkerKeepsFrames
<1>3. CASE UNCHANGED vars
  <2>1. UNCHANGED <<queueVars, frameData, outVars, user, then, draining>>
    BY <1>3 DEF vars, workerVars, userVars, countVars, madeVars, gotVars, queueVars, frameData, outVars
  <2> QED BY <2>1, MoveKeepsFrames DEF Flushing
<1> QED BY <1>1, <1>2, <1>3 DEF Next

(* The caller gets the frames and the error of each packet, in the order   *)
(* of the packets, whichever thread had it, none of them twice and none    *)
(* from before the last flush; and all of them before AVERROR_EOF          *)
(* (ff_thread_receive_frame(), ff_thread_flush()).                         *)
THEOREM FramesAreInOrder == Spec => []AllFramesInOrder
<1>1. FramesInv => AllFramesInOrder
  <2> SUFFICES ASSUME FramesInv PROVE AllFramesInOrder
    OBVIOUS
  <2>1. FrameTypes /\ HandedOutInv /\ EofInv
    BY DEF FramesInv
  <2>2. PICK c \in Int : first - 1 <= c /\ c <= nb_packets /\ HandedOut(c)
    BY <2>1 DEF HandedOutInv
  <2> DEFINE n == nb_packets + 1 - first
             a == c + 1 - first
             x == out_df \o Error(out_result)
  <2>3. /\ first \in Nat \ {0} /\ n \in Nat /\ a \in Nat /\ a <= n
        /\ first + n - 1 <= MaxPackets /\ first + a = c + 1 /\ first + n - 1 = nb_packets
        /\ nb_packets \in Nat /\ returned \in Seq(Items) /\ made \in [Packets -> Seq(Items)]
    BY <2>1, <2>2 DEF FrameTypes
  <2>4. returned \o x = Gave(made, first, a)
    BY <2>2 DEF HandedOut
  <2>5. x \in Seq(Items)
    <3>1. out_result \in Packets => <<out_result, 0>> \in Items
      BY DEF Items, Packets
    <3>2. Error(out_result) \in Seq(Items)
      BY <3>1 DEF Error
    <3>3. out_df \in Seq(Items)
      BY <2>1 DEF FrameTypes
    <3> QED BY <3>2, <3>3, ConcatProperties
  <2>6. IsPrefix(returned, Gave(made, first, n))
    <3> HIDE DEF n, a, x
    <3>0. \E r \in Seq(Items) : Gave(made, first, n) = Gave(made, first, a) \o r
      <4>1. /\ made \in [Packets -> Seq(Items)] /\ first \in Nat \ {0} /\ n \in Nat /\ a \in Nat
            /\ a <= n /\ first + n - 1 <= MaxPackets
        BY <2>3
      <4>2. Extends(Gave(made, first, a), Gave(made, first, n))
        BY <4>1, GaveExtends
      <4> QED BY <4>2 DEF Extends
    <3>1. PICK r \in Seq(Items) : Gave(made, first, n) = Gave(made, first, a) \o r
      BY <3>0
    <3>2. x \o r \in Seq(Items)
      BY <2>5, <3>1, ConcatProperties
    <3>3. (returned \o x) \o r = returned \o (x \o r)
      <4>1. returned \in Seq(Items) /\ r \in Seq(Items)
        BY <2>3, <3>1
      <4> QED BY <2>5, <4>1, ConcatAssociative
    <3>4. Gave(made, first, n) = returned \o (x \o r)
      BY <2>4, <3>1, <3>3
    <3>5. IsPrefix(returned, returned \o (x \o r))
      BY <2>3, <3>2, IsPrefixOfConcat
    <3> QED BY <3>4, <3>5
  <2>7. ASSUME eof PROVE returned = Gave(made, first, n)
    <3>1. /\ out_df = <<>> /\ out_result \in {Ok, Eof}
          /\ \A w \in Workers : InRing(w) => avpkt[w] = Empty
      BY <2>1, <2>7 DEF EofInv
    <3>2. x = <<>>
      <4>1. Error(out_result) = <<>>
        BY <3>1 DEF Error, Ok, Eof, Packets
      <4> QED BY <3>1, <4>1
    <3>3. \A k \in c + 1 .. nb_packets : made[k] = <<>>
      <4> SUFFICES ASSUME NEW k \in c + 1 .. nb_packets, NEW w \in Workers, InRing(w), avpkt[w] = k
                   PROVE  FALSE
        BY <2>2 DEF HandedOut
      <4>1. k # Empty
        BY <2>2, <2>3 DEF Empty
      <4> QED BY <3>1, <4>1
    <3> HIDE DEF n, a, x
    <3>4. Gave(made, first, n) = Gave(made, first, a)
      BY <2>3, <3>3, GaveSkip
    <3>5. returned \o <<>> = returned
      BY <2>3, ConcatEmptySeq
    <3> QED BY <2>4, <3>2, <3>4, <3>5
  <2> QED BY <2>6, <2>7 DEF AllFramesInOrder, Gave
<1>2. IInv /\ [Next]_vars => IInv'
  BY NextIInv
<1>3. IInv /\ ContextInv /\ [Next]_vars => ContextInv'
  BY NextContextInv
<1>4. IInv /\ ContextInv /\ FramesInv /\ [Next]_vars => FramesInv'
  BY NextFramesInv
<1> QED BY InitIInv, InitContextInv, InitFramesInv, <1>1, <1>2, <1>3, <1>4, PTL DEF Spec
=============================================================================
