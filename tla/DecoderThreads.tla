---------------------------- MODULE DecoderThreads ----------------------------
(***************************************************************************)
(* The threads of rm_video::VideoDecoder, their start and their end.  The  *)
(* receive thread submits encoded frames to the decode thread, the decode  *)
(* thread hands pictures to the conversion thread.  running_ is an atomic  *)
(* that is written without holding either mutex, so a thread that has just *)
(* found nothing to do may be about to sleep when the end is announced.    *)
(*                                                                         *)
(* A thread in state "checked" holds the mutex of its condition variable:  *)
(* its predicate was false and it has not released the mutex yet; "asleep" *)
(* is a member of the wait set.  Every other critical section is a single  *)
(* step, taken while the mutex is free.                                    *)
(***************************************************************************)
EXTENDS Naturals

CONSTANTS
  QueueSize,  (* decode_queue_size                                         *)
  MaxFrames   (* bound: the complete frames received                       *)

ASSUME QueueAssumption == QueueSize \in Nat \ {0} /\ MaxFrames \in Nat

VARIABLES
  running,    (* running_                                                  *)
  queue,      (* the number of pending_frames_                             *)
  output,     (* pending_output_frame_ is set                              *)
  receive,    (* receive_thread_                                           *)
  decode,     (* decode_thread_                                            *)
  convert,    (* conversion_thread_                                        *)
  owner,      (* the thread that calls start() and stop()                  *)
  submitted,  (* frames submitted                                          *)
  dropped,    (* frames counted as dropped                                 *)
  taken       (* frames the decode thread took                             *)

counters == <<submitted, dropped, taken>>
vars == <<running, queue, output, receive, decode, convert, owner, counters>>

Ended == {"absent", "done"}
PendingMutexFree == decode # "checked"
OutputMutexFree == convert # "checked"

Woken(thread) == IF thread = "asleep" THEN "lock" ELSE thread
NotifyPending == decode' = Woken(decode)
NotifyOutput == convert' = Woken(convert)

-----------------------------------------------------------------------------
Init ==
  /\ running = TRUE
  /\ queue = 0
  /\ output = FALSE
  /\ receive = "absent"
  /\ decode = "absent"
  /\ convert = "absent"
  /\ owner = "start_receive"
  /\ submitted = 0
  /\ dropped = 0
  /\ taken = 0

(* start() after running_.store(true), one thread at a time.               *)
StartReceive ==
  /\ owner = "start_receive"
  /\ receive' = "test"
  /\ owner' = "start_convert"
  /\ UNCHANGED <<running, queue, output, decode, convert, counters>>

StartConvert ==
  /\ owner = "start_convert"
  /\ convert' = "lock"
  /\ owner' = "start_decode"
  /\ UNCHANGED <<running, queue, output, receive, decode, counters>>

StartDecode ==
  /\ owner = "start_decode"
  /\ decode' = "lock"
  /\ owner' = "started"
  /\ UNCHANGED <<running, queue, output, receive, convert, counters>>

(* A thread cannot be created: start() calls stop().                       *)
StartFails ==
  /\ owner \in {"start_receive", "start_convert", "start_decode"}
  /\ owner' = "stop"
  /\ UNCHANGED <<running, queue, output, receive, decode, convert, counters>>

Starter == StartReceive \/ StartConvert \/ StartDecode \/ StartFails

CallStop ==
  /\ owner = "started"
  /\ owner' = "stop"
  /\ UNCHANGED <<running, queue, output, receive, decode, convert, counters>>

-----------------------------------------------------------------------------
(* stop(), in the order of its statements.                                 *)
StopRunning ==
  /\ owner = "stop"
  /\ running' = FALSE
  /\ owner' = "notify_pending"
  /\ UNCHANGED <<queue, output, receive, decode, convert, counters>>

StopNotifyPending ==
  /\ owner = "notify_pending"
  /\ NotifyPending
  /\ owner' = "notify_output"
  /\ UNCHANGED <<running, queue, output, receive, convert, counters>>

(* Mutant: the queue is cleared without waiting for the receive thread.    *)
StopNotifyOutputNoJoin ==
  /\ owner = "notify_output"
  /\ NotifyOutput
  /\ owner' = "clear_pending"
  /\ UNCHANGED <<running, queue, output, receive, decode, counters>>

StopNotifyOutput ==
  /\ owner = "notify_output"
  /\ NotifyOutput
  /\ owner' = "join_receive"
  /\ UNCHANGED <<running, queue, output, receive, decode, counters>>

JoinReceive ==
  /\ owner = "join_receive"
  /\ receive \in Ended
  /\ owner' = "clear_pending"
  /\ UNCHANGED <<running, queue, output, receive, decode, convert, counters>>

(* Mutant: what is thrown away at the end is not counted.                  *)
ClearPendingUncounted ==
  /\ owner = "clear_pending"
  /\ PendingMutexFree
  /\ queue' = 0
  /\ owner' = "notify_pending_again"
  /\ UNCHANGED <<running, output, receive, decode, convert, counters>>

ClearPending ==
  /\ owner = "clear_pending"
  /\ PendingMutexFree
  /\ dropped' = dropped + queue
  /\ queue' = 0
  /\ owner' = "notify_pending_again"
  /\ UNCHANGED <<running, output, receive, decode, convert, submitted, taken>>

NotifyPendingAgain ==
  /\ owner = "notify_pending_again"
  /\ NotifyPending
  /\ owner' = "join_decode"
  /\ UNCHANGED <<running, queue, output, receive, convert, counters>>

JoinDecode ==
  /\ owner = "join_decode"
  /\ decode \in Ended
  /\ owner' = "reset_output"
  /\ UNCHANGED <<running, queue, output, receive, decode, convert, counters>>

(* Mutant: the second notification is left out.                            *)
ResetOutputOnly ==
  /\ owner = "reset_output"
  /\ OutputMutexFree
  /\ output' = FALSE
  /\ owner' = "join_convert"
  /\ UNCHANGED <<running, queue, receive, decode, convert, counters>>

ResetOutput ==
  /\ owner = "reset_output"
  /\ OutputMutexFree
  /\ output' = FALSE
  /\ owner' = "notify_output_again"
  /\ UNCHANGED <<running, queue, receive, decode, convert, counters>>

NotifyOutputAgain ==
  /\ owner = "notify_output_again"
  /\ NotifyOutput
  /\ owner' = "join_convert"
  /\ UNCHANGED <<running, queue, output, receive, decode, counters>>

JoinConvert ==
  /\ owner = "join_convert"
  /\ convert \in Ended
  /\ owner' = "stopped"
  /\ UNCHANGED <<running, queue, output, receive, decode, convert, counters>>

Owner ==
  \/ StopRunning \/ StopNotifyPending \/ StopNotifyOutput \/ JoinReceive
  \/ ClearPending \/ NotifyPendingAgain \/ JoinDecode \/ ResetOutput
  \/ NotifyOutputAgain \/ JoinConvert

-----------------------------------------------------------------------------
(* receive_loop                                                            *)
ReceiveTest ==
  /\ receive = "test"
  /\ receive' = IF running THEN "recvfrom" ELSE "done"
  /\ UNCHANGED <<running, queue, output, decode, convert, owner, counters>>

(* recvfrom returns: a timeout or a datagram that completes nothing, one   *)
(* that completes a frame, or an error.                                    *)
ReceiveReturns ==
  /\ receive = "recvfrom"
  /\ \/ receive' = "test"
     \/ submitted < MaxFrames /\ receive' = "submit"
     \/ receive' = "failed"
  /\ UNCHANGED <<running, queue, output, decode, convert, owner, counters>>

ReceiveFailed ==
  /\ receive = "failed"
  /\ running' = FALSE
  /\ receive' = IF running THEN "give_up" ELSE "test"
  /\ UNCHANGED <<queue, output, decode, convert, owner, counters>>

ReceiveGivesUp ==
  /\ receive = "give_up"
  /\ NotifyPending
  /\ receive' = "test"
  /\ UNCHANGED <<running, queue, output, convert, owner, counters>>

(* Mutant: the frame is queued without the mutex.                          *)
SubmitFrameUnlocked ==
  /\ receive = "submit"
  /\ submitted' = submitted + 1
  /\ IF queue >= QueueSize
     THEN dropped' = dropped + queue /\ queue' = 1
     ELSE queue' = queue + 1 /\ UNCHANGED dropped
  /\ receive' = "notify"
  /\ UNCHANGED <<running, output, decode, convert, owner, taken>>

(* submit_frame, without regard to running_.                               *)
SubmitFrame ==
  /\ receive = "submit"
  /\ PendingMutexFree
  /\ submitted' = submitted + 1
  /\ IF queue >= QueueSize
     THEN dropped' = dropped + queue /\ queue' = 1
     ELSE queue' = queue + 1 /\ UNCHANGED dropped
  /\ receive' = "notify"
  /\ UNCHANGED <<running, output, decode, convert, owner, taken>>

SubmitNotify ==
  /\ receive = "notify"
  /\ NotifyPending
  /\ receive' = "test"
  /\ UNCHANGED <<running, queue, output, convert, owner, counters>>

Receiver ==
  \/ ReceiveTest \/ ReceiveReturns \/ ReceiveFailed \/ ReceiveGivesUp
  \/ SubmitFrame \/ SubmitNotify

-----------------------------------------------------------------------------
(* decode_loop: the predicate is evaluated with the mutex held.            *)
DecodeCheck ==
  /\ decode = "lock"
  /\ IF ~running
     THEN decode' = "done" /\ UNCHANGED <<queue, taken>>
     ELSE IF queue > 0
     THEN decode' = "decode" /\ queue' = queue - 1 /\ taken' = taken + 1
     ELSE decode' = "checked" /\ UNCHANGED <<queue, taken>>
  /\ UNCHANGED <<running, output, receive, convert, owner, submitted, dropped>>

DecodeSleeps ==
  /\ decode = "checked"
  /\ decode' = "asleep"
  /\ UNCHANGED <<running, queue, output, receive, convert, owner, counters>>

(* decode_frame ends: the codec refuses the packet or has no more frames.  *)
DecodeEnds ==
  /\ decode = "decode"
  /\ decode' = "lock"
  /\ UNCHANGED <<running, queue, output, receive, convert, owner, counters>>

(* A picture comes out of the codec.                                       *)
DecodePicture ==
  /\ decode = "decode"
  /\ decode' = "submit"
  /\ UNCHANGED <<running, queue, output, receive, convert, owner, counters>>

(* Mutant: the picture is stored without the mutex.                        *)
SubmitOutputUnlocked ==
  /\ decode = "submit"
  /\ IF running
     THEN output' = TRUE /\ decode' = "notify"
     ELSE decode' = "decode" /\ UNCHANGED output
  /\ UNCHANGED <<running, queue, receive, convert, owner, counters>>

(* submit_output_frame replaces a picture that was not converted yet.      *)
SubmitOutput ==
  /\ decode = "submit"
  /\ OutputMutexFree
  /\ IF running
     THEN output' = TRUE /\ decode' = "notify"
     ELSE decode' = "decode" /\ UNCHANGED output
  /\ UNCHANGED <<running, queue, receive, convert, owner, counters>>

OutputNotify ==
  /\ decode = "notify"
  /\ NotifyOutput
  /\ decode' = "decode"
  /\ UNCHANGED <<running, queue, output, receive, owner, counters>>

Decoder ==
  \/ DecodeCheck \/ DecodeSleeps \/ SubmitOutput \/ OutputNotify

-----------------------------------------------------------------------------
(* conversion_loop                                                         *)
ConvertCheck ==
  /\ convert = "lock"
  /\ IF ~running
     THEN convert' = "done" /\ UNCHANGED output
     ELSE IF output
     THEN convert' = "convert" /\ output' = FALSE
     ELSE convert' = "checked" /\ UNCHANGED output
  /\ UNCHANGED <<running, queue, receive, decode, owner, counters>>

ConvertSleeps ==
  /\ convert = "checked"
  /\ convert' = "asleep"
  /\ UNCHANGED <<running, queue, output, receive, decode, owner, counters>>

(* convert_frame and the callback of the node.                             *)
ConvertEnds ==
  /\ convert = "convert"
  /\ convert' = "lock"
  /\ UNCHANGED <<running, queue, output, receive, decode, owner, counters>>

Converter == ConvertCheck \/ ConvertSleeps \/ ConvertEnds

(* A condition variable may wake a thread for no reason.                   *)
SpuriousWakeup ==
  /\ \/ decode = "asleep" /\ NotifyPending /\ UNCHANGED convert
     \/ convert = "asleep" /\ NotifyOutput /\ UNCHANGED decode
  /\ UNCHANGED <<running, queue, output, receive, owner, counters>>

(* stop() has returned: nothing is left to do.                             *)
Stopped == owner = "stopped" /\ UNCHANGED vars

Next ==
  \/ Starter \/ CallStop
  \/ Owner \/ Receiver \/ Decoder \/ DecodePicture \/ DecodeEnds \/ Converter
  \/ SpuriousWakeup \/ Stopped

(* Threads are scheduled; recvfrom has a timeout; a packet yields finitely *)
(* many pictures; whoever waits for a mutex that is only held to evaluate  *)
(* a predicate gets it.  Nobody has to call stop() or to wake a thread     *)
(* spuriously.                                                             *)
Fairness ==
  /\ WF_vars(Starter) /\ WF_vars(Owner) /\ WF_vars(Receiver) /\ WF_vars(Decoder)
  /\ WF_vars(Converter) /\ SF_vars(DecodeEnds)
  /\ SF_vars(SubmitFrame) /\ SF_vars(SubmitOutput)
  /\ SF_vars(ClearPending) /\ SF_vars(ResetOutput)

Spec == Init /\ [][Next]_vars /\ Fairness

-----------------------------------------------------------------------------
ThreadsOK ==
  /\ receive \in {"absent", "test", "recvfrom", "submit", "notify", "failed",
                  "give_up", "done"}
  /\ decode \in {"absent", "lock", "checked", "asleep", "decode", "submit",
                 "notify", "done"}
  /\ convert \in {"absent", "lock", "checked", "asleep", "convert", "done"}
  /\ owner \in {"start_receive", "start_convert", "start_decode", "started",
                "stop", "notify_pending", "notify_output", "join_receive",
                "clear_pending", "notify_pending_again", "join_decode",
                "reset_output", "notify_output_again", "join_convert",
                "stopped"}

TypeOK ==
  /\ running \in BOOLEAN
  /\ output \in BOOLEAN
  /\ ThreadsOK
  /\ queue \in 0..QueueSize
  /\ {submitted, dropped, taken} \subseteq 0..MaxFrames

(* stop() leaves nothing behind: no frame is queued after the queue was    *)
(* cleared, no picture after the slot was reset, no thread is alive to use *)
(* the codec that cleanup() frees, and every frame is accounted for        *)
(* (VideoDecoder::stop).                                                   *)
NothingLeftAfterStop ==
  owner = "stopped" =>
    /\ queue = 0 /\ ~output
    /\ {receive, decode, convert} \subseteq Ended
    /\ submitted = dropped + taken

(* A frame that was submitted is decoded, waits, or counts as dropped,     *)
(* also when the receive thread has given up and when stop() intervenes.   *)
FramesAccountedFor == submitted = dropped + taken + queue

(* stop() returns, whatever the threads are doing when it is called: no    *)
(* thread sleeps through the announcement, although running_ is written    *)
(* without the mutexes and the first notification may find nobody asleep.  *)
StopReturns == owner = "stop" ~> owner = "stopped"

(* While the decoder runs, a queued frame does not wait for the next one   *)
(* to arrive: the decode thread is never asleep beside a full queue.       *)
QueuedIsDecoded == queue > 0 ~> queue = 0 \/ ~running

(* Likewise the last picture of a burst is converted and published.        *)
PictureIsConverted == output ~> ~output \/ ~running
=============================================================================
