------------------------- MODULE DecoderThreadsProofs -------------------------
(***************************************************************************)
(* Proofs about DecoderThreads, for every queue size and any number of     *)
(* frames.                                                                 *)
(***************************************************************************)
EXTENDS DecoderThreads, TLAPS

(* The owner has passed a statement of stop().                             *)
ConvertJoined == owner = "stopped"
OutputReset == owner \in {"notify_output_again", "join_convert"} \/ ConvertJoined
DecodeJoined == owner = "reset_output" \/ OutputReset
PendingCleared == owner \in {"notify_pending_again", "join_decode"} \/ DecodeJoined
ReceiveJoined == owner = "clear_pending" \/ PendingCleared

(* What stop() relies on at each of its statements: a thread that was      *)
(* joined stays away, and what only it could fill stays empty.             *)
StopInv ==
  /\ ReceiveJoined => receive \in Ended
  /\ PendingCleared => queue = 0
  /\ DecodeJoined => decode \in Ended
  /\ OutputReset => ~output
  /\ ConvertJoined => convert \in Ended

(* A frame about to be submitted is not one too many for the bound.        *)
SubmitInv == receive = "submit" => submitted < MaxFrames

IInv == TypeOK /\ FramesAccountedFor /\ SubmitInv /\ StopInv

-----------------------------------------------------------------------------
(* submit_frame: at most one frame more than was accounted for.            *)
LEMMA SubmitFramePreserves ==
  ASSUME IInv, SubmitFrame
  PROVE  IInv'
<1>1. /\ queue \in 0..QueueSize /\ QueueSize \in Nat \ {0} /\ MaxFrames \in Nat
      /\ submitted \in Nat /\ dropped \in Nat /\ taken \in Nat
      /\ submitted < MaxFrames /\ submitted = dropped + taken + queue
      /\ receive = "submit"
  BY QueueAssumption DEF IInv, TypeOK, FramesAccountedFor, SubmitInv, SubmitFrame
<1>2. /\ receive' = "notify" /\ UNCHANGED <<running, output, decode, convert, owner, taken>>
      /\ submitted' = submitted + 1
      /\ IF queue >= QueueSize
         THEN dropped' = dropped + queue /\ queue' = 1
         ELSE queue' = queue + 1 /\ dropped' = dropped
  BY DEF SubmitFrame
<1>3. /\ queue' \in 0..QueueSize /\ dropped' \in Nat /\ submitted' \in 0..MaxFrames
      /\ submitted' = dropped' + taken' + queue'
  BY <1>1, <1>2
<1>4. dropped' \in 0..MaxFrames
  BY <1>1, <1>2, <1>3
<1>5. TypeOK' /\ FramesAccountedFor' /\ SubmitInv'
  <2>1. running' \in BOOLEAN /\ output' \in BOOLEAN
    BY <1>2, Zenon DEF IInv, TypeOK
  <2>2. ThreadsOK'
    BY <1>2 DEF IInv, TypeOK, ThreadsOK
  <2>3. taken' \in 0..MaxFrames
    BY <1>2 DEF IInv, TypeOK
  <2>4. TypeOK'
    BY <1>3, <1>4, <2>1, <2>2, <2>3 DEF TypeOK
  <2>5. FramesAccountedFor' /\ SubmitInv'
    BY <1>2, <1>3 DEF FramesAccountedFor, SubmitInv
  <2>6. QED
    BY <2>4, <2>5
<1>6. StopInv'
  BY <1>1, <1>2
     DEF IInv, StopInv, ReceiveJoined, PendingCleared, DecodeJoined, OutputReset,
         ConvertJoined, Ended
<1>7. QED
  BY <1>5, <1>6 DEF IInv

(* The thread that starts and stops the others.                            *)
LEMMA OwnerPreserves ==
  ASSUME IInv, Starter \/ CallStop \/ Owner
  PROVE  IInv'
<1> USE DEF IInv, TypeOK, ThreadsOK, FramesAccountedFor, SubmitInv, StopInv,
            ReceiveJoined, PendingCleared, DecodeJoined, OutputReset, ConvertJoined, Ended,
            counters
<1>1. CASE StartReceive
  BY <1>1 DEF StartReceive
<1>2. CASE StartConvert
  BY <1>2 DEF StartConvert
<1>3. CASE StartDecode
  BY <1>3 DEF StartDecode
<1>4. CASE StartFails
  BY <1>4 DEF StartFails
<1>5. CASE CallStop
  BY <1>5 DEF CallStop
<1>6. CASE StopRunning
  <2>1. running' \in BOOLEAN /\ output' \in BOOLEAN
    BY <1>6, Zenon DEF StopRunning
  <2>2. ThreadsOK'
    BY <1>6 DEF StopRunning
  <2>3. /\ queue' \in 0..QueueSize
        /\ {submitted', dropped', taken'} \subseteq 0..MaxFrames
        /\ FramesAccountedFor' /\ SubmitInv'
    BY <1>6 DEF StopRunning
  <2>4. StopInv'
    BY <1>6 DEF StopRunning
  <2>5. QED
    BY <2>1, <2>2, <2>3, <2>4
<1>7. CASE StopNotifyPending
  BY <1>7 DEF StopNotifyPending, NotifyPending, Woken
<1>8. CASE StopNotifyOutput
  BY <1>8 DEF StopNotifyOutput, NotifyOutput, Woken
<1>9. CASE JoinReceive
  BY <1>9 DEF JoinReceive
<1>10. CASE ClearPending
  BY <1>10, QueueAssumption DEF ClearPending
<1>11. CASE NotifyPendingAgain
  BY <1>11 DEF NotifyPendingAgain, NotifyPending, Woken
<1>12. CASE JoinDecode
  BY <1>12 DEF JoinDecode
<1>13. CASE ResetOutput
  <2>1. running' \in BOOLEAN /\ output' \in BOOLEAN
    BY <1>13, Zenon DEF ResetOutput
  <2>2. ThreadsOK'
    BY <1>13 DEF ResetOutput
  <2>3. /\ queue' \in 0..QueueSize
        /\ {submitted', dropped', taken'} \subseteq 0..MaxFrames
        /\ FramesAccountedFor' /\ SubmitInv'
    BY <1>13 DEF ResetOutput
  <2>4. StopInv'
    BY <1>13 DEF ResetOutput
  <2>5. QED
    BY <2>1, <2>2, <2>3, <2>4
<1>14. CASE NotifyOutputAgain
  BY <1>14 DEF NotifyOutputAgain, NotifyOutput, Woken
<1>15. CASE JoinConvert
  BY <1>15 DEF JoinConvert
<1> HIDE DEF IInv
<1>16. QED
  BY <1>1, <1>2, <1>3, <1>4, <1>5, <1>6, <1>7, <1>8, <1>9, <1>10, <1>11, <1>12,
     <1>13, <1>14, <1>15
     DEF Starter, Owner

(* The receive thread.                                                     *)
LEMMA ReceiverPreserves ==
  ASSUME IInv, Receiver
  PROVE  IInv'
<1> USE DEF IInv, TypeOK, ThreadsOK, FramesAccountedFor, SubmitInv, StopInv,
            ReceiveJoined, PendingCleared, DecodeJoined, OutputReset, ConvertJoined, Ended,
            counters
<1>1. CASE ReceiveTest
  BY <1>1 DEF ReceiveTest
<1>2. CASE ReceiveReturns
  BY <1>2, QueueAssumption DEF ReceiveReturns
<1>3. CASE ReceiveFailed
  <2>1. running' \in BOOLEAN /\ output' \in BOOLEAN
    BY <1>3, Zenon DEF ReceiveFailed
  <2>2. ThreadsOK'
    BY <1>3 DEF ReceiveFailed
  <2>3. /\ queue' \in 0..QueueSize
        /\ {submitted', dropped', taken'} \subseteq 0..MaxFrames
        /\ FramesAccountedFor' /\ SubmitInv'
    BY <1>3 DEF ReceiveFailed
  <2>4. StopInv'
    BY <1>3 DEF ReceiveFailed
  <2>5. QED
    BY <2>1, <2>2, <2>3, <2>4
<1>4. CASE ReceiveGivesUp
  BY <1>4 DEF ReceiveGivesUp, NotifyPending, Woken
<1>5. CASE SubmitFrame
  BY <1>5, SubmitFramePreserves
<1>6. CASE SubmitNotify
  BY <1>6 DEF SubmitNotify, NotifyPending, Woken
<1> HIDE DEF IInv
<1>7. QED
  BY <1>1, <1>2, <1>3, <1>4, <1>5, <1>6 DEF Receiver

(* The decode thread.                                                      *)
LEMMA DecoderPreserves ==
  ASSUME IInv, Decoder \/ DecodePicture \/ DecodeEnds
  PROVE  IInv'
<1> USE DEF IInv, TypeOK, ThreadsOK, FramesAccountedFor, SubmitInv, StopInv,
            ReceiveJoined, PendingCleared, DecodeJoined, OutputReset, ConvertJoined, Ended,
            counters
<1>1. CASE DecodeCheck
  BY <1>1, QueueAssumption DEF DecodeCheck
<1>2. CASE DecodeSleeps
  BY <1>2 DEF DecodeSleeps
<1>3. CASE SubmitOutput
  <2>1. running' \in BOOLEAN /\ output' \in BOOLEAN
    BY <1>3, Zenon DEF SubmitOutput
  <2>2. ThreadsOK'
    BY <1>3 DEF SubmitOutput
  <2>3. /\ queue' \in 0..QueueSize
        /\ {submitted', dropped', taken'} \subseteq 0..MaxFrames
        /\ FramesAccountedFor' /\ SubmitInv'
    BY <1>3 DEF SubmitOutput
  <2>4. StopInv'
    BY <1>3 DEF SubmitOutput
  <2>5. QED
    BY <2>1, <2>2, <2>3, <2>4
<1>4. CASE OutputNotify
  BY <1>4 DEF OutputNotify, NotifyOutput, Woken
<1>5. CASE DecodePicture
  BY <1>5 DEF DecodePicture
<1>6. CASE DecodeEnds
  BY <1>6 DEF DecodeEnds
<1> HIDE DEF IInv
<1>7. QED
  BY <1>1, <1>2, <1>3, <1>4, <1>5, <1>6 DEF Decoder

(* The conversion thread, and wakeups that nobody asked for.               *)
LEMMA ConverterPreserves ==
  ASSUME IInv, Converter \/ SpuriousWakeup
  PROVE  IInv'
<1> USE DEF IInv, TypeOK, ThreadsOK, FramesAccountedFor, SubmitInv, StopInv,
            ReceiveJoined, PendingCleared, DecodeJoined, OutputReset, ConvertJoined, Ended,
            counters
<1>1. CASE ConvertCheck
  <2>1. convert = "lock" /\ ~ConvertJoined
    BY <1>1 DEF ConvertCheck
  <2>2. /\ convert' \in {"done", "convert", "checked"}
        /\ output' \in BOOLEAN /\ (~output => ~output')
    BY <1>1, Zenon DEF ConvertCheck
  <2>3. UNCHANGED <<running, queue, receive, decode, owner, submitted, dropped, taken>>
    BY <1>1 DEF ConvertCheck
  <2>4. QED
    BY <2>1, <2>2, <2>3
<1>2. CASE ConvertSleeps
  BY <1>2 DEF ConvertSleeps
<1>3. CASE ConvertEnds
  BY <1>3 DEF ConvertEnds
<1>4. CASE SpuriousWakeup
  BY <1>4 DEF SpuriousWakeup, NotifyPending, NotifyOutput, Woken
<1>5. QED
  BY <1>1, <1>2, <1>3, <1>4 DEF Converter

(* The invariant holds in every behaviour.                                 *)
LEMMA Invariance == Spec => []IInv
<1>1. Init => IInv
  <2>1. Init => running \in BOOLEAN /\ output \in BOOLEAN /\ ~output
    BY Zenon DEF Init
  <2>2. QED
    BY <2>1, QueueAssumption
       DEF Init, IInv, TypeOK, ThreadsOK, FramesAccountedFor, SubmitInv, StopInv,
         ReceiveJoined, PendingCleared, DecodeJoined, OutputReset, ConvertJoined,
         Ended
<1>2. IInv /\ [Next]_vars => IInv'
  <2>1. ASSUME IInv, UNCHANGED vars
        PROVE  IInv'
    BY <2>1
       DEF vars, counters, IInv, TypeOK, ThreadsOK, FramesAccountedFor,
           SubmitInv, StopInv, ReceiveJoined, PendingCleared, DecodeJoined, OutputReset,
           ConvertJoined
  <2>2. QED
    BY <2>1, OwnerPreserves, ReceiverPreserves, DecoderPreserves,
       ConverterPreserves
       DEF Next, Stopped
<1>3. QED
  BY <1>1, <1>2, PTL DEF Spec

-----------------------------------------------------------------------------
(* Type correctness: in particular the queue never exceeds its size.       *)
THEOREM TypeCorrect == Spec => []TypeOK
<1>1. IInv => TypeOK
  BY DEF IInv
<1>2. QED
  BY <1>1, Invariance, PTL

(* No frame gets lost without being counted, whoever fails or stops when.  *)
THEOREM EveryFrameCounted == Spec => []FramesAccountedFor
<1>1. IInv => FramesAccountedFor
  BY DEF IInv
<1>2. QED
  BY <1>1, Invariance, PTL

(* When stop() returns, the threads have ended and nothing waits for them. *)
THEOREM CleanStop == Spec => []NothingLeftAfterStop
<1>1. IInv => NothingLeftAfterStop
  BY QueueAssumption
     DEF IInv, TypeOK, FramesAccountedFor, StopInv, ReceiveJoined, PendingCleared,
         DecodeJoined, OutputReset, ConvertJoined, NothingLeftAfterStop
<1>2. QED
  BY <1>1, Invariance, PTL
===============================================================================
