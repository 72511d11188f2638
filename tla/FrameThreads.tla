---------------------------- MODULE FrameThreads ----------------------------
(***************************************************************************)
(* Frame threading, libavcodec/pthread_frame.c: the packets of a stream    *)
(* are decoded by several threads in turn, each starting from the context  *)
(* the one before it has set up and waiting for the rows of the frame it   *)
(* refers to, while the caller gets the frames in the order of the         *)
(* packets.  The caller is "user"; it may flush the decoder at any time,   *)
(* and frees it.                                                           *)
(*                                                                         *)
(* The codec implements update_thread_context() and has no delay: what it  *)
(* does is modelled by what it calls.  A context is the number of the      *)
(* packet that was set up last, and of the one its frame refers to.        *)
(* With a hwaccel that is not thread safe (serial) its state goes from     *)
(* thread to thread, too.  Allocations that fail are left out, but for     *)
(* those in submit_packet().                                               *)
(***************************************************************************)
EXTENDS Integers, Sequences, FiniteSets, FiniteSetsExt, SequencesExt

CONSTANTS
  NbThreads,    (* avctx->thread_count                                     *)
  MaxPackets,   (* bound: packets                                          *)
  MaxFlushes,   (* bound: calls of avcodec_flush_buffers()                 *)
  MaxErrors,    (* bound: broken packets, contexts that cannot be updated  *)
  Rows,         (* steps in which the progress of a frame is reported      *)
  FramesOf      (* how many frames there may be in a packet                *)

ASSUME FrameThreadsAssumption ==
  /\ NbThreads \in Nat \ {0, 1}
  /\ MaxPackets \in Nat /\ MaxFlushes \in Nat /\ MaxErrors \in Nat
  /\ Rows \in Nat \ {0}
  /\ FramesOf \subseteq Nat

Workers == 0 .. NbThreads - 1
Packets == 1 .. MaxPackets
None    == -1
User    == -2       (* among the threads that sleep                        *)
Empty   == 0        (* the empty packet, in place of a number              *)

(* A result is one of these, or the number of the packet that is broken    *)
Ok  == 0
Eof == -1

VARIABLES
  (* PerThreadContext *)
  state,              (* INPUT_READY, SETTING_UP, SETUP_FINISHED           *)
  wpc,                (* where the worker is; it holds its mutex but at    *)
                      (* "input", where it waits for input_cond            *)
  avpkt,              (* the packet to decode                              *)
  nb_frames,          (* the frames in it                                  *)
  header, refFrame,   (* its context: last set up, last to refer to        *)
  row,                (* the next row to decode                            *)
  df, result, die,
  (* FrameThreadContext *)
  user,               (* where the caller is: "outside", or in a call      *)
  then,               (* what it parks the threads for                     *)
  next_pkt, next_decoding, next_finished, prev_thread,
  out_df, out_result, (* fctx->df, fctx->result                            *)
  draining,           (* avctx->internal->draining                         *)
  (* Condition variables and locks *)
  sleeps,             (* thread, condition and its owner, while it sleeps  *)
  async_lock, hwaccel_mutex,
  hwaccel_serializing, async_serializing,   (* workers that hold them      *)
  (* The state of the hwaccel *)
  serial,             (* there is one, not safe for threads nor async      *)
  hwaccel,            (* workers whose context has it                      *)
  stash_hwaccel,
  (* Frames *)
  progress, owner,    (* ThreadFrame, by the number of its packet          *)
  (* History *)
  nb_packets, first,  (* packets taken so far; the first since the flush   *)
  flushes, errors,
  setups,             (* packets that were set up                          *)
  made,               (* what each packet gave: frames, and an error       *)
  returned, eof,      (* what the caller got since the flush               *)
  drained             (* it was flushed when drained, or before a packet   *)
                      (* was set up after that                             *)

workerVars == <<state, wpc, avpkt, nb_frames, header, refFrame, row, df, result, die>>
userVars   == <<user, then, next_pkt, next_decoding, next_finished, prev_thread,
                out_df, out_result, draining>>
lockVars   == <<async_lock, hwaccel_mutex, hwaccel_serializing, async_serializing>>
hwVars     == <<hwaccel, stash_hwaccel>>
frameVars  == <<progress, owner>>
countVars  == <<nb_packets, first, flushes, errors, drained>>
madeVars   == <<setups, made>>
gotVars    == <<returned, eof>>
vars == <<workerVars, userVars, sleeps, lockVars, serial, hwVars, frameVars,
          countVars, madeVars, gotVars>>

Goto(w, l)   == wpc' = [wpc EXCEPT ![w] = l]
Asleep(t)    == \E s \in sleeps : s[1] = t
Sleep(t, cond, w) == sleeps' = sleeps \cup {<<t, cond, w>>}
Woken(conds, w)   == {s \in sleeps : s[2] \in conds /\ s[3] = w}
Wake(conds, w)    == sleeps' = sleeps \ Woken(conds, w)

-----------------------------------------------------------------------------
(* frame_worker_thread().                                                  *)

(* It sleeps while there is no input; submit_packet() may hold its mutex   *)
(* when it wakes up.                                                       *)
WaitForInput(w) ==
  /\ wpc[w] = "top"
  /\ \/ /\ die[w] /\ Goto(w, "dead") /\ UNCHANGED sleeps
     \/ /\ ~die[w] /\ state[w] = "INPUT_READY"
        /\ Goto(w, "input") /\ Sleep(w, "input", w)
  /\ UNCHANGED <<state, avpkt, nb_frames, header, refFrame, row, df, result, die>>
  /\ UNCHANGED <<userVars, lockVars, serial, hwVars, frameVars, countVars, madeVars, gotVars>>

GetInput(w) ==
  /\ wpc[w] = "input" /\ ~Asleep(w)
  /\ ~(user = "update" /\ next_decoding = w)
  /\ Goto(w, "top")
  /\ UNCHANGED <<state, avpkt, nb_frames, header, refFrame, row, df, result, die>>
  /\ UNCHANGED <<userVars, sleeps, lockVars, serial, hwVars, frameVars, countVars, madeVars, gotVars>>

LockHwaccel(w) ==
  /\ hwaccel_mutex = None
  /\ hwaccel_mutex' = w
  /\ hwaccel_serializing' = hwaccel_serializing \cup {w}
LockIfSerial(w) ==
  IF w \in hwaccel \ hwaccel_serializing
  THEN LockHwaccel(w)
  ELSE UNCHANGED <<hwaccel_mutex, hwaccel_serializing>>

Start(w) ==
  /\ wpc[w] = "top" /\ ~die[w] /\ state[w] # "INPUT_READY"
  /\ LockIfSerial(w)
  /\ Goto(w, "setup")
  /\ UNCHANGED <<state, avpkt, nb_frames, header, refFrame, row, df, result, die, async_lock, async_serializing>>
  /\ UNCHANGED <<userVars, sleeps, serial, hwVars, frameVars, countVars, madeVars, gotVars>>

(* The codec sets the packet up: it gets a frame and the format, in which  *)
(* the hwaccel is set up.                                                  *)
SetUp(w) ==
  /\ wpc[w] = "setup" /\ avpkt[w] # Empty
  /\ header' = [header EXCEPT ![w] = avpkt[w]]
  /\ setups' = setups \cup {avpkt[w]}
  /\ owner' = [owner EXCEPT ![avpkt[w]] = w]
  /\ row' = [row EXCEPT ![w] = 1]
  /\ hwaccel' = IF serial THEN hwaccel \cup {w} ELSE hwaccel
  /\ \E n \in FramesOf : nb_frames' = [nb_frames EXCEPT ![w] = n]
  /\ result' = [result EXCEPT ![w] = Ok]
  /\ Goto(w, "serialize")
  /\ UNCHANGED <<state, avpkt, refFrame, df, die, stash_hwaccel, progress, made>>
  /\ UNCHANGED <<userVars, sleeps, lockVars, serial, countVars, gotVars>>

(* A packet with an error, or none: ff_thread_finish_setup() is called     *)
(* when the codec has returned.                                            *)
NothingToDecode(w) ==
  /\ wpc[w] = "setup"
  /\ IF avpkt[w] = Empty
     THEN UNCHANGED errors
     ELSE errors < MaxErrors /\ errors' = errors + 1
  /\ result' = [result EXCEPT ![w] = IF avpkt[w] = Empty THEN Eof ELSE avpkt[w]]
  /\ nb_frames' = [nb_frames EXCEPT ![w] = 0]
  /\ row' = [row EXCEPT ![w] = Rows + 1]
  /\ Goto(w, "serialize")
  /\ UNCHANGED <<state, avpkt, header, refFrame, df, die>>
  /\ UNCHANGED <<userVars, sleeps, lockVars, serial, hwVars, frameVars, nb_packets, first, flushes, drained, madeVars, gotVars>>

(* ff_thread_finish_setup(): hwaccel_mutex and async_lock, then the state  *)
(* of the hwaccel is passed on, and the next thread may start.             *)
Serialize(w) ==
  /\ wpc[w] = "serialize"
  /\ LockIfSerial(w)
  /\ Goto(w, "async")
  /\ UNCHANGED <<state, avpkt, nb_frames, header, refFrame, row, df, result, die, async_lock, async_serializing>>
  /\ UNCHANGED <<userVars, sleeps, serial, hwVars, frameVars, countVars, madeVars, gotVars>>

LockAsync(w) ==
  /\ wpc[w] = "async"
  /\ IF w \in hwaccel
     THEN ~async_lock /\ async_lock' = TRUE /\ async_serializing' = async_serializing \cup {w}
     ELSE UNCHANGED <<async_lock, async_serializing>>
  /\ Goto(w, "publish")
  /\ UNCHANGED <<state, avpkt, nb_frames, header, refFrame, row, df, result, die, hwaccel_mutex, hwaccel_serializing>>
  /\ UNCHANGED <<userVars, sleeps, serial, hwVars, frameVars, countVars, madeVars, gotVars>>

ff_thread_finish_setup(w) ==
  /\ wpc[w] = "publish"
  /\ stash_hwaccel' = (stash_hwaccel \/ w \in hwaccel)
  /\ state' = [state EXCEPT ![w] = "SETUP_FINISHED"]
  /\ Wake({"progress"}, w)
  /\ Goto(w, "decode")
  /\ UNCHANGED <<avpkt, nb_frames, header, refFrame, row, df, result, die, hwaccel>>
  /\ UNCHANGED <<userVars, lockVars, serial, frameVars, countVars, madeVars, gotVars>>

(* ff_thread_await_progress() of the frame referred to, ...                *)
RefIsReady(w) == refFrame[w] # None => progress[refFrame[w]] >= row[w]

AwaitProgress(w) ==
  /\ wpc[w] = "decode" /\ row[w] <= Rows /\ ~Asleep(w)
  /\ ~RefIsReady(w)
  /\ Sleep(w, "progress", owner[refFrame[w]])
  /\ UNCHANGED <<workerVars, userVars, lockVars, serial, hwVars, frameVars, countVars, madeVars, gotVars>>

(* ... and ff_thread_report_progress() of the own one, row by row.         *)
ReportProgress(w) ==
  /\ wpc[w] = "decode" /\ row[w] <= Rows /\ ~Asleep(w)
  /\ RefIsReady(w)
  /\ progress' = [progress EXCEPT ![avpkt[w]] = row[w]]
  /\ row' = [row EXCEPT ![w] = @ + 1]
  /\ Wake({"progress"}, w)
  /\ UNCHANGED <<state, wpc, avpkt, nb_frames, header, refFrame, df, result, die, owner>>
  /\ UNCHANGED <<userVars, lockVars, serial, hwVars, countVars, madeVars, gotVars>>

(* The frames are there and the hwaccel is given up, ...                   *)
Made(w) ==
  [i \in 1 .. nb_frames[w] |-> <<avpkt[w], i>>]
    \o (IF result[w] \in Packets THEN <<<<result[w], 0>>>> ELSE <<>>)

Release(w) ==
  /\ wpc[w] = "decode" /\ row[w] > Rows
  /\ df' = [df EXCEPT ![w] = @ \o [i \in 1 .. nb_frames[w] |-> <<avpkt[w], i>>]]
  /\ hwaccel' = hwaccel \ ({w} \cap hwaccel_serializing)
  /\ hwaccel_serializing' = hwaccel_serializing \ {w}
  /\ hwaccel_mutex' = IF w \in hwaccel_serializing THEN None ELSE hwaccel_mutex
  /\ async_serializing' = async_serializing \ {w}
  /\ async_lock' = (async_lock /\ w \notin async_serializing)
  /\ made' = IF avpkt[w] = Empty THEN made ELSE [made EXCEPT ![avpkt[w]] = Made(w)]
  /\ Goto(w, "finish")
  /\ UNCHANGED <<state, avpkt, nb_frames, header, refFrame, row, result, die, stash_hwaccel, setups>>
  /\ UNCHANGED <<userVars, sleeps, serial, frameVars, countVars, gotVars>>

(* Mutant: output_cond is not signalled.                                   *)
WakesForProgress == {"progress"}

(* ... then whoever waits for the thread is woken.                         *)
Wakes == {"progress", "output"}
Finish(w) ==
  /\ wpc[w] = "finish"
  /\ state' = [state EXCEPT ![w] = "INPUT_READY"]
  /\ Wake(Wakes, w)
  /\ Goto(w, "top")
  /\ UNCHANGED <<avpkt, nb_frames, header, refFrame, row, df, result, die>>
  /\ UNCHANGED <<userVars, lockVars, serial, hwVars, frameVars, countVars, madeVars, gotVars>>

WorkerStep(w) ==
  \/ WaitForInput(w) \/ GetInput(w) \/ Start(w) \/ SetUp(w) \/ NothingToDecode(w)
  \/ Serialize(w) \/ LockAsync(w) \/ ff_thread_finish_setup(w)
  \/ AwaitProgress(w) \/ ReportProgress(w) \/ Release(w) \/ Finish(w)

-----------------------------------------------------------------------------
(* ff_thread_receive_frame().                                              *)

async_unlock == async_lock' = FALSE

(* Mutant: the user does not wait for the threads that use the hwaccel.    *)
async_lock_at_once == async_lock' = TRUE

async_lock_again ==
  /\ ~async_lock
  /\ async_lock' = TRUE

ff_thread_receive_frame ==
  /\ user = "outside"
  /\ async_unlock
  /\ user' = "loop"
  /\ UNCHANGED <<then, next_pkt, next_decoding, next_finished, prev_thread, out_df, out_result, draining>>
  /\ UNCHANGED <<hwaccel_mutex, hwaccel_serializing, async_serializing>>
  /\ UNCHANGED <<workerVars, sleeps, serial, hwVars, frameVars, countVars, madeVars, gotVars>>

NoOutput == out_df = <<>> /\ out_result = Ok

(* ff_decode_get_packet(): a packet, the end, or AVERROR(EAGAIN).          *)
GetPacket ==
  /\ user = "loop" /\ NoOutput
  /\ \/ /\ ~draining /\ nb_packets < MaxPackets
        /\ nb_packets' = nb_packets + 1 /\ next_pkt' = nb_packets + 1
        /\ user' = "submit"
        /\ UNCHANGED draining
     \/ /\ draining' = TRUE /\ next_pkt' = Empty
        /\ user' = "submit"
        /\ UNCHANGED nb_packets
     \/ /\ ~draining
        /\ user' = "leave"
        /\ UNCHANGED <<nb_packets, next_pkt, draining>>
  /\ UNCHANGED <<then, next_decoding, next_finished, prev_thread, out_df, out_result, first, flushes, errors, drained>>
  /\ UNCHANGED <<workerVars, sleeps, lockVars, serial, hwVars, frameVars, madeVars, gotVars>>

(* submit_packet() takes the mutex of the thread, ...                      *)
submit_packet ==
  /\ user = "submit" /\ wpc[next_decoding] = "input"
  /\ avpkt' = [avpkt EXCEPT ![next_decoding] = next_pkt]
  /\ user' = "update"
  /\ UNCHANGED <<state, wpc, nb_frames, header, refFrame, row, df, result, die>>
  /\ UNCHANGED <<then, next_pkt, next_decoding, next_finished, prev_thread, out_df, out_result, draining>>
  /\ UNCHANGED <<sleeps, lockVars, serial, hwVars, frameVars, countVars, madeVars, gotVars>>

(* Mutant: the previous thread may still be setting up.                    *)
PrevNeverWaitedFor == TRUE

(* ... waits for the previous one to be set up, ...                        *)
PrevIsSetUp == prev_thread # None => state[prev_thread] # "SETTING_UP"

WaitForSetUp ==
  /\ user = "update" /\ ~Asleep(User)
  /\ ~PrevIsSetUp
  /\ Sleep(User, "progress", prev_thread)
  /\ UNCHANGED <<workerVars, userVars, lockVars, serial, hwVars, frameVars, countVars, madeVars, gotVars>>

(* ... and updates the context from it, which may fail, but not while      *)
(* draining; the frame that was set up there will be referred to.          *)
update_context_from_thread(w) ==
  IF prev_thread = None \/ avpkt[w] = Empty
  THEN UNCHANGED <<header, refFrame>>
  ELSE /\ header' = [header EXCEPT ![w] = header[prev_thread]]
       /\ refFrame' = [refFrame EXCEPT ![w] = IF header[prev_thread] = avpkt[prev_thread]
                                              THEN avpkt[prev_thread]
                                              ELSE refFrame[prev_thread]]

Submitted ==
  LET w == next_decoding IN
  /\ user = "update" /\ ~Asleep(User) /\ PrevIsSetUp
  /\ update_context_from_thread(w)
  /\ hwaccel' = IF stash_hwaccel THEN hwaccel \cup {w} ELSE hwaccel \ {w}
  /\ stash_hwaccel' = (w \in hwaccel)
  /\ state' = [state EXCEPT ![w] = "SETTING_UP"]
  /\ Wake({"input"}, w)
  /\ prev_thread' = w
  /\ next_decoding' = (w + 1) % NbThreads
  /\ user' = IF next_decoding' # next_finished /\ ~draining THEN "loop" ELSE "collect"
  /\ UNCHANGED <<wpc, avpkt, nb_frames, row, df, result, die>>
  /\ UNCHANGED <<then, next_pkt, next_finished, out_df, out_result, draining>>
  /\ UNCHANGED <<lockVars, serial, frameVars, countVars, madeVars, gotVars>>

SubmitFails ==
  /\ user = "update" /\ ~Asleep(User) /\ PrevIsSetUp
  /\ errors < MaxErrors
  /\ errors' = errors + 1
  /\ user' = "leave"
  /\ UNCHANGED <<then, next_pkt, next_decoding, next_finished, prev_thread, out_df, out_result, draining>>
  /\ UNCHANGED <<nb_packets, first, flushes, drained>>
  /\ UNCHANGED <<workerVars, sleeps, lockVars, serial, hwVars, frameVars, madeVars, gotVars>>

(* When each thread has something to do the oldest is waited for.          *)
WaitForOutput ==
  /\ user = "collect" /\ ~Asleep(User)
  /\ state[next_finished] # "INPUT_READY"
  /\ Sleep(User, "output", next_finished)
  /\ UNCHANGED <<workerVars, userVars, lockVars, serial, hwVars, frameVars, countVars, madeVars, gotVars>>

Collect ==
  LET w == next_finished IN
  /\ user = "collect" /\ ~Asleep(User)
  /\ state[w] = "INPUT_READY"
  /\ out_result' = result[w] /\ result' = [result EXCEPT ![w] = Ok]
  /\ out_df' = df[w] /\ df' = [df EXCEPT ![w] = <<>>]
  /\ next_finished' = (w + 1) % NbThreads
  /\ user' = "loop"
  /\ UNCHANGED <<state, wpc, avpkt, nb_frames, header, refFrame, row, die>>
  /\ UNCHANGED <<then, next_pkt, next_decoding, prev_thread, draining>>
  /\ UNCHANGED <<sleeps, lockVars, serial, hwVars, frameVars, countVars, madeVars, gotVars>>

(* All the frames are returned first, then the error.                      *)
ReturnFrame ==
  /\ user = "loop" /\ out_df # <<>>
  /\ returned' = Append(returned, Head(out_df)) /\ out_df' = Tail(out_df)
  /\ user' = "leave"
  /\ UNCHANGED <<then, next_pkt, next_decoding, next_finished, prev_thread, out_result, draining, eof>>
  /\ UNCHANGED <<workerVars, sleeps, lockVars, serial, hwVars, frameVars, countVars, madeVars>>

ReturnResult ==
  /\ user = "loop" /\ out_df = <<>> /\ out_result # Ok
  /\ IF out_result = Eof
     THEN eof' = TRUE /\ UNCHANGED returned
     ELSE returned' = Append(returned, <<out_result, 0>>) /\ UNCHANGED eof
  /\ out_result' = Ok
  /\ user' = "leave"
  /\ UNCHANGED <<then, next_pkt, next_decoding, next_finished, prev_thread, out_df, draining>>
  /\ UNCHANGED <<workerVars, sleeps, lockVars, serial, hwVars, frameVars, countVars, madeVars>>

Leave ==
  /\ user = "leave"
  /\ async_lock_again
  /\ user' = "outside"
  /\ UNCHANGED <<then, next_pkt, next_decoding, next_finished, prev_thread, out_df, out_result, draining>>
  /\ UNCHANGED <<hwaccel_mutex, hwaccel_serializing, async_serializing>>
  /\ UNCHANGED <<workerVars, sleeps, serial, hwVars, frameVars, countVars, madeVars, gotVars>>

-----------------------------------------------------------------------------
(* ff_thread_flush() and ff_frame_thread_free().                           *)

ParkFor(purpose) ==
  /\ user = "outside"
  /\ async_unlock
  /\ user' = "park" /\ then' = purpose
  /\ UNCHANGED <<hwaccel_mutex, hwaccel_serializing, async_serializing>>
  /\ UNCHANGED <<workerVars, sleeps, serial, hwVars, frameVars, madeVars, gotVars>>

avcodec_flush_buffers ==
  /\ flushes < MaxFlushes
  /\ ParkFor("flush")
  /\ flushes' = flushes + 1
  /\ draining' = FALSE
  /\ UNCHANGED <<next_pkt, next_decoding, next_finished, prev_thread, out_df, out_result, nb_packets, first, errors, drained>>

Free ==
  /\ ParkFor("free")
  /\ UNCHANGED <<next_pkt, next_decoding, next_finished, prev_thread, out_df, out_result, draining, countVars>>

Unparked == {w \in Workers : state[w] # "INPUT_READY"}

park_frame_worker_threads ==
  /\ user = "park" /\ ~Asleep(User)
  /\ Unparked # {}
  /\ Sleep(User, "output", Min(Unparked))
  /\ UNCHANGED <<workerVars, userVars, lockVars, serial, hwVars, frameVars, countVars, madeVars, gotVars>>

(* Mutant: the frames the threads have not handed out are kept.            *)
FlushOutputOnly ==
  /\ UNCHANGED <<df, result>>
  /\ out_df' = <<>> /\ out_result' = Ok

FlushFrames ==
  /\ df' = [w \in Workers |-> <<>>]
  /\ result' = [w \in Workers |-> Ok]
  /\ out_df' = <<>> /\ out_result' = Ok

(* The context decoding goes on from is an old one: that of a thread that  *)
(* was given no packet.                                                    *)
OldContext == drained /\ \A k \in setups : k < first
DrainedNow == prev_thread # None /\ avpkt[prev_thread] = Empty

ff_thread_flush ==
  /\ user = "park" /\ then = "flush" /\ ~Asleep(User)
  /\ Unparked = {}
  /\ async_lock_again
  /\ header' = IF prev_thread = None THEN header ELSE [header EXCEPT ![0] = header[prev_thread]]
  /\ refFrame' = [w \in Workers |-> None]
  /\ FlushFrames
  /\ next_decoding' = 0 /\ next_finished' = 0 /\ prev_thread' = None
  /\ user' = "outside"
  /\ first' = nb_packets + 1
  /\ drained' = (DrainedNow \/ OldContext)
  /\ returned' = <<>> /\ eof' = FALSE
  /\ UNCHANGED <<state, wpc, avpkt, nb_frames, row, die, then, next_pkt, draining>>
  /\ UNCHANGED <<hwaccel_mutex, hwaccel_serializing, async_serializing>>
  /\ UNCHANGED <<sleeps, serial, hwVars, frameVars, nb_packets, flushes, errors, madeVars>>

StartFree ==
  /\ user = "park" /\ then = "free" /\ ~Asleep(User)
  /\ Unparked = {}
  /\ async_lock_again
  /\ user' = "free"
  /\ UNCHANGED <<then, next_pkt, next_decoding, next_finished, prev_thread, out_df, out_result, draining>>
  /\ UNCHANGED <<hwaccel_mutex, hwaccel_serializing, async_serializing>>
  /\ UNCHANGED <<workerVars, sleeps, serial, hwVars, frameVars, countVars, madeVars, gotVars>>

(* The threads are told to die and joined one after another.               *)
Alive == {w \in Workers : wpc[w] # "dead"}

Die ==
  /\ user = "free" /\ Alive # {}
  /\ LET w == Min(Alive) IN
       /\ ~die[w] /\ wpc[w] = "input"
       /\ die' = [die EXCEPT ![w] = TRUE]
       /\ Wake({"input"}, w)
  /\ UNCHANGED <<state, wpc, avpkt, nb_frames, header, refFrame, row, df, result>>
  /\ UNCHANGED <<userVars, lockVars, serial, hwVars, frameVars, countVars, madeVars, gotVars>>

Freed ==
  /\ user = "free" /\ Alive = {}
  /\ user' = "freed"
  /\ UNCHANGED <<then, next_pkt, next_decoding, next_finished, prev_thread, out_df, out_result, draining>>
  /\ UNCHANGED <<workerVars, sleeps, lockVars, serial, hwVars, frameVars, countVars, madeVars, gotVars>>

InCall ==
  \/ GetPacket \/ submit_packet \/ WaitForSetUp \/ Submitted \/ SubmitFails
  \/ WaitForOutput \/ Collect \/ ReturnFrame \/ ReturnResult \/ Leave
  \/ park_frame_worker_threads \/ ff_thread_flush \/ StartFree \/ Die \/ Freed

UserStep == ff_thread_receive_frame \/ avcodec_flush_buffers \/ Free \/ InCall

-----------------------------------------------------------------------------
Init ==
  /\ state = [w \in Workers |-> "INPUT_READY"]
  /\ wpc = [w \in Workers |-> "top"]
  /\ avpkt = [w \in Workers |-> Empty]
  /\ nb_frames = [w \in Workers |-> 0]
  /\ header = [w \in Workers |-> None] /\ refFrame = [w \in Workers |-> None]
  /\ row = [w \in Workers |-> 1]
  /\ df = [w \in Workers |-> <<>>] /\ result = [w \in Workers |-> Ok]
  /\ die = [w \in Workers |-> FALSE]
  /\ user = "outside" /\ then = "free"
  /\ next_pkt = Empty /\ next_decoding = 0 /\ next_finished = 0 /\ prev_thread = None
  /\ out_df = <<>> /\ out_result = Ok /\ draining = FALSE
  /\ sleeps = {}
  /\ async_lock = TRUE /\ hwaccel_mutex = None
  /\ hwaccel_serializing = {} /\ async_serializing = {}
  /\ serial \in BOOLEAN /\ hwaccel = {} /\ stash_hwaccel = FALSE
  /\ progress = [k \in Packets |-> 0] /\ owner = [k \in Packets |-> None]
  /\ nb_packets = 0 /\ first = 1 /\ flushes = 0 /\ errors = 0 /\ drained = FALSE
  /\ setups = {} /\ made = [k \in Packets |-> <<>>]
  /\ returned = <<>> /\ eof = FALSE

Next == UserStep \/ (\E w \in Workers : WorkerStep(w))

Spec == Init /\ [][Next]_vars

(* A thread that can run does run, and a call that was begun goes on; the  *)
(* caller need not call again.                                             *)
Fairness == WF_vars(InCall) /\ \A w \in Workers : WF_vars(WorkerStep(w))

FairSpec == Spec /\ Fairness

-----------------------------------------------------------------------------
(* Properties.                                                             *)

(* What the caller gets is what the packets since the last flush gave, in  *)
(* their order and with nothing from before it: of each packet the frames, *)
(* then its error; and when it gets AVERROR_EOF, it has got all            *)
(* (ff_thread_receive_frame(), ff_thread_flush()).                         *)
AllFramesInOrder ==
  LET given == FlattenSeq([i \in 1 .. nb_packets + 1 - first |-> made[first + i - 1]])
  IN  /\ IsPrefix(returned, given)
      /\ eof => returned = given

(* A thread that sets a packet up does so from the context of the last     *)
(* packet before it that was set up, whichever thread had it               *)
(* (submit_packet()).  Not so the first after a flush of a drained         *)
(* decoder: the threads that were given no packet have old contexts.       *)
SetupInOrder ==
  \A w \in Workers :
    (wpc[w] = "setup" /\ avpkt[w] # Empty) =>
      LET before == {k \in setups : k < avpkt[w]} IN
      \/ header[w] = Max(before \cup {None})
      \/ drained /\ \A k \in before : k < first

(* A hwaccel that is not thread safe is used by one thread at a time, and  *)
(* never while the caller is not in a call; a thread has given it up when  *)
(* it has no packet, and finds no other one's state stashed when it passes *)
(* on its own (the assertions of frame_worker_thread(), submit_packet()    *)
(* and ff_thread_finish_setup(); async_lock()).                            *)
HwaccelInTurn ==
  /\ stash_hwaccel => \A w \in Workers : wpc[w] # "publish"
  /\ \A w \in hwaccel :
       /\ wpc[w] = "decode" => hwaccel_mutex = w /\ user # "outside"
       /\ state[w] # "INPUT_READY"

(* Each call returns: the caller is never left waiting for a thread that   *)
(* waits for it, for the hwaccel, for a frame or for a packet              *)
(* (ff_thread_receive_frame(), park_frame_worker_threads()).               *)
CallReturns == user \notin {"outside", "freed"} ~> user \in {"outside", "freed"}
=============================================================================
