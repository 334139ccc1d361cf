-------------------------- MODULE WorkerThreadsProofs --------------------------
(***************************************************************************)
(* What the runs check of the worker threads on small instances, for any   *)
(* number of pictures, frames and threads of the pool.  One part runs in a *)
(* behaviour and the others keep the state they start in, so each part has *)
(* an invariant of its own, and the parts are put together at the end.     *)
(***************************************************************************)
EXTENDS WorkerThreads, Integers, SequenceTheorems, WellFoundedInduction, TLAPS

-----------------------------------------------------------------------------
(* Every set of numbers that is not empty has a least one.                 *)
LEMMA LessIsWellFounded == IsWellFoundedOn({p \in Nat \X Nat : p[1] < p[2]}, Nat)
BY NatLessThanWellFounded, Zenon DEF OpToRel

LEMMA LeastNumber ==
  ASSUME NEW T \in SUBSET Nat, T # {}
  PROVE  \E n \in T : \A m \in T : n <= m
<1> DEFINE R == {p \in Nat \X Nat : p[1] < p[2]}
<1>1. IsWellFoundedOn(R, Nat)
  BY LessIsWellFounded
<1>2. \A m, n \in Nat : m < n => <<m, n>> \in R
  OBVIOUS
<1> HIDE DEF R
<1>3. PICK n \in T : \A m \in T : ~ (<<m, n>> \in R)
  BY <1>1, WFMin, Zenon
<1>4. \A m \in T : ~ (m < n)
  BY <1>2, <1>3
<1>5. QED
  BY <1>4

(* What is taken from the head of one queue and put at the tail of another *)
(* leaves the order of all as it was.                                      *)
LEMMA HeadMoves ==
  ASSUME NEW s \in Seq(Nat), NEW t \in Seq(Nat), t # <<>>
  PROVE  Append(s, Head(t)) \o Tail(t) = s \o t
<1> DEFINE moved == Append(s, Head(t)) \o Tail(t)
<1>1. Head(t) \in Nat /\ Tail(t) \in Seq(Nat) /\ Len(Tail(t)) = Len(t) - 1
  BY HeadTailProperties
<1>2. Append(s, Head(t)) \in Seq(Nat) /\ Len(Append(s, Head(t))) = Len(s) + 1
  BY <1>1, AppendProperties
<1>3. /\ s \o t \in Seq(Nat) /\ moved \in Seq(Nat)
      /\ Len(s \o t) = Len(s) + Len(t) /\ Len(moved) = Len(s \o t)
  BY <1>1, <1>2, ConcatProperties, LenProperties
<1>4. \A i \in 1..Len(moved) : moved[i] = (s \o t)[i]
  BY <1>1, <1>2, <1>3, LenProperties
<1> HIDE DEF moved
<1>5. moved = s \o t
  BY <1>3, <1>4, SeqEqual
<1>6. QED
  BY <1>5 DEF moved

(* The numbers from c on are a sequence, and appended to the first c - 1   *)
(* numbers they count on.                                                  *)
LEMMA Numbers ==
  ASSUME NEW n \in Nat, NEW c \in Nat, NEW s, s = [i \in 1..n |-> c + i - 1]
  PROVE  s \in Seq(Nat) /\ Len(s) = n /\ \A i \in 1..n : s[i] = c + i - 1
<1>1. s \in [1..n -> Nat] /\ DOMAIN s = 1..n
  OBVIOUS
<1>2. s \in Seq(Nat)
  BY <1>1, SeqDef, Zenon
<1>3. QED
  BY <1>1, <1>2, LenProperties

LEMMA NumbersCountOn ==
  ASSUME NEW c \in Nat \ {0}, NEW k \in Nat, NEW s, s = [i \in 1..(c - 1) |-> i],
         NEW t, t = [i \in 1..k |-> c + i - 1]
  PROVE  s \o t = [i \in 1..(c + k - 1) |-> i]
<1> DEFINE all == [i \in 1..(c + k - 1) |-> 1 + i - 1]
<1>1. c - 1 \in Nat /\ c + k - 1 \in Nat /\ s = [i \in 1..(c - 1) |-> 1 + i - 1]
  OBVIOUS
<1>2. /\ s \in Seq(Nat) /\ Len(s) = c - 1 /\ \A i \in 1..(c - 1) : s[i] = i
      /\ t \in Seq(Nat) /\ Len(t) = k /\ \A i \in 1..k : t[i] = c + i - 1
  BY <1>1, Numbers
<1>3. all \in Seq(Nat) /\ Len(all) = c + k - 1 /\ \A i \in 1..(c + k - 1) : all[i] = i
  BY <1>1, Numbers
<1>4. /\ s \o t \in Seq(Nat) /\ Len(s \o t) = Len(s) + Len(t)
      /\ \A i \in 1..(Len(s) + Len(t)) :
           (s \o t)[i] = IF i <= Len(s) THEN s[i] ELSE t[i - Len(s)]
  BY <1>2, ConcatProperties
<1>5. all = [i \in 1..(c + k - 1) |-> i]
  OBVIOUS
<1> HIDE DEF all
<1> DEFINE both == s \o t
<1>6. /\ both \in Seq(Nat) /\ Len(both) = c + k - 1
      /\ \A i \in 1..(c + k - 1) : both[i] = IF i <= c - 1 THEN s[i] ELSE t[i - (c - 1)]
  BY <1>2, <1>4
<1> HIDE DEF both
<1>7. \A i \in 1..(c + k - 1) : both[i] = i
  BY <1>2, <1>6
<1>8. both = all
  BY <1>3, <1>6, <1>7, SeqEqual
<1>9. QED
  BY <1>5, <1>8 DEF both

LEMMA ConcatNumbers ==
  \A s, t, u \in Seq(Nat) : t \o u \in Seq(Nat) /\ s \o (t \o u) = (s \o t) \o u
<1>1. TAKE s, t, u \in Seq(Nat)
<1>2. t \o u \in Seq(Nat)
  BY ConcatProperties
<1>3. (s \o t) \o u = s \o (t \o u)
  BY ConcatAssociative, SMTT(30)
<1>4. QED
  BY <1>2, <1>3, Zenon

FirstNumbers(n) == [i \in 1..n |-> i]
NumbersFrom(c, k) == [i \in 1..k |-> c + i - 1]

LEMMA CountOn ==
  ASSUME NEW c \in Nat \ {0}, NEW k \in Nat, NEW s \in Seq(Nat), NEW t \in Seq(Nat),
         s \o t = FirstNumbers(c - 1)
  PROVE  /\ t \o NumbersFrom(c, k) \in Seq(Nat)
         /\ s \o (t \o NumbersFrom(c, k)) = FirstNumbers(c + k - 1)
<1>1. NumbersFrom(c, k) \in Seq(Nat)
  BY Numbers DEF NumbersFrom
<1>2. /\ t \o NumbersFrom(c, k) \in Seq(Nat)
      /\ s \o (t \o NumbersFrom(c, k)) = (s \o t) \o NumbersFrom(c, k)
  BY <1>1, ConcatNumbers, Zenon
<1>3. FirstNumbers(c - 1) \o NumbersFrom(c, k) = FirstNumbers(c + k - 1)
  BY NumbersCountOn DEF FirstNumbers, NumbersFrom
<1>4. QED
  BY <1>2, <1>3

-----------------------------------------------------------------------------
(* The debug images.  An image is only drawn and put while nobody has      *)
(* called the destructor, and the worker ends only after it was called.    *)
ImageInv ==
  /\ d_posted \in Nat /\ d_slot \in Nat
  /\ d_main \in {"construct", "loop", "put", "notify", "stop_notify", "join",
                 "stopped"}
  /\ d_main \in {"construct", "loop", "put", "notify"} <=> ~d_stopping
  /\ d_main = "construct" => d_worker = "absent" /\ d_slot = 0
  /\ d_stopping => d_slot = 0
  /\ d_worker = "done" => d_stopping
  /\ d_main = "stopped" => d_worker \in {"absent", "done"}
  /\ d_main = "put" => d_posted < MaxPictures

LEMMA ImageInit == Images!Init => ImageInv
  BY DEF Images!Init, ImageInv

LEMMA ImageStep == ASSUME ImageInv, [Images!Next]_imageVars PROVE ImageInv'
<1> USE DEF ImageInv, Images!Notify
<1>1. CASE Images!Construct
  BY <1>1 DEF Images!Construct
<1>2. CASE Images!DrawImage
  BY <1>2 DEF Images!DrawImage
<1>3. CASE Images!PublishPut
  BY <1>3 DEF Images!PublishPut
<1>4. CASE Images!PublishNotify
  BY <1>4 DEF Images!PublishNotify
<1>5. CASE Images!StopFlag
  BY <1>5 DEF Images!StopFlag
<1>6. CASE Images!StopNotify
  BY <1>6 DEF Images!StopNotify
<1>7. CASE Images!StopJoin
  BY <1>7 DEF Images!StopJoin
<1>8. CASE Images!Worker
  BY <1>8 DEF Images!Worker, Images!WorkerCheck, Images!WorkerSleeps,
              Images!WorkerPublish
<1>9. CASE Images!SpuriousWakeup
  BY <1>9 DEF Images!SpuriousWakeup
<1>10. CASE Images!SubscribersChange
  BY <1>10 DEF Images!SubscribersChange
<1>11. CASE UNCHANGED imageVars
  BY <1>11 DEF imageVars
<1>12. QED
  BY <1>1, <1>2, <1>3, <1>4, <1>5, <1>6, <1>7, <1>8, <1>9, <1>10, <1>11
     DEF Images!Next, Images!Main

(* A step of the debug images is a step of the mailbox or leaves it alone. *)
LEMMA ImageMailStep ==
  ASSUME ImageInv, [Images!Next]_imageVars
  PROVE  [Images!Mail!Next]_(Images!Mail!vars)
<1> USE DEF ImageInv, Images!Mail!Next, Images!Mail!vars
<1>1. CASE Images!Construct
  BY <1>1 DEF Images!Construct, Images!Mail!Close
<1>2. CASE Images!PublishPut
  BY <1>2 DEF Images!PublishPut, Images!Mail!Post
<1>3. CASE Images!StopFlag
  BY <1>3 DEF Images!StopFlag, Images!Mail!Close
<1>4. CASE Images!WorkerCheck
  BY <1>4 DEF Images!WorkerCheck, Images!Mail!Take
<1>5. CASE \/ Images!DrawImage \/ Images!PublishNotify \/ Images!StopNotify
           \/ Images!StopJoin \/ Images!WorkerSleeps \/ Images!WorkerPublish
           \/ Images!SpuriousWakeup \/ Images!SubscribersChange
           \/ UNCHANGED imageVars
  BY <1>5 DEF Images!DrawImage, Images!PublishNotify, Images!StopNotify,
              Images!StopJoin, Images!WorkerSleeps, Images!WorkerPublish,
              Images!SpuriousWakeup, Images!SubscribersChange, imageVars
<1>6. QED
  BY <1>1, <1>2, <1>3, <1>4, <1>5
     DEF Images!Next, Images!Main, Images!Worker

-----------------------------------------------------------------------------
(* The previews.  running_ is true from start() to stop(), the conversion  *)
(* thread works only while the decoder runs, and the worker is about to    *)
(* take a picture only if there is one.                                    *)
PreviewInv ==
  /\ p_posted \in Nat
  /\ p_slot \in [number : Nat, topics : SUBSET Previews!Topics]
  /\ p_frame \in [number : Nat, topics : SUBSET Previews!Topics]
  /\ p_slot.number = 0 => p_slot = Previews!NoFrame
  /\ p_subscribed \subseteq Previews!Topics /\ p_made \subseteq Previews!Topics
  /\ p_owner \in {"construct", "started", "running", "stop", "clear", "notify",
                  "join", "stopped"}
  /\ p_running <=> p_owner \in {"started", "running", "stop"}
  /\ p_owner = "construct" => p_worker = "absent"
  /\ p_owner \in {"construct", "notify", "join", "stopped"}
       => p_slot = Previews!NoFrame
  /\ p_owner \in {"construct", "started"} => p_converter = "absent"
  /\ p_owner \in {"stop", "clear", "notify", "join", "stopped"}
       => p_converter \in {"absent", "done"}
  /\ p_converter \in {"submit", "put"} => p_posted < MaxPictures
  /\ p_running /\ p_worker \in {"test", "take"} => p_slot # Previews!NoFrame
  /\ p_owner = "stopped" => p_worker = "done"

LEMMA PreviewInit == Previews!Init => PreviewInv
  BY DEF Previews!Init, Previews!NoFrame, PreviewInv

LEMMA PreviewStep == ASSUME PreviewInv, [Previews!Next]_previewVars PROVE PreviewInv'
<1> USE DEF PreviewInv, Previews!Notify, Previews!NoFrame
<1>1. CASE Previews!Start
  BY <1>1 DEF Previews!Start
<1>2. CASE Previews!StartDecoder
  BY <1>2 DEF Previews!StartDecoder
<1>3. CASE Previews!StopDecoder
  BY <1>3 DEF Previews!StopDecoder
<1>4. CASE Previews!StopRunning
  BY <1>4 DEF Previews!StopRunning
<1>5. CASE Previews!StopClear
  BY <1>5 DEF Previews!StopClear
<1>6. CASE Previews!StopNotify
  BY <1>6 DEF Previews!StopNotify
<1>7. CASE Previews!StopJoin
  BY <1>7 DEF Previews!StopJoin
<1>8. CASE Previews!MakePicture
  BY <1>8 DEF Previews!MakePicture
<1>9. CASE Previews!SubmitTest
  BY <1>9 DEF Previews!SubmitTest
<1>10. CASE Previews!SubmitPut
  BY <1>10 DEF Previews!SubmitPut, Previews!MutexFree, Previews!HoldsMutex
<1>11. CASE Previews!SubmitNotify
  BY <1>11 DEF Previews!SubmitNotify
<1>12. CASE Previews!WorkerCheck
  BY <1>12 DEF Previews!WorkerCheck
<1>13. CASE Previews!WorkerSleeps
  BY <1>13 DEF Previews!WorkerSleeps
<1>14. CASE Previews!WorkerTest
  BY <1>14 DEF Previews!WorkerTest
<1>15. CASE Previews!WorkerTake
  BY <1>15 DEF Previews!WorkerTake
<1>16. CASE Previews!WorkerPublish
  BY <1>16 DEF Previews!WorkerPublish
<1>17. CASE Previews!SpuriousWakeup
  BY <1>17 DEF Previews!SpuriousWakeup
<1>18. CASE Previews!SubscribersChange
  BY <1>18 DEF Previews!SubscribersChange
<1>19. CASE UNCHANGED previewVars
  BY <1>19 DEF previewVars
<1>20. QED
  BY <1>1, <1>2, <1>3, <1>4, <1>5, <1>6, <1>7, <1>8, <1>9, <1>10, <1>11, <1>12,
     <1>13, <1>14, <1>15, <1>16, <1>17, <1>18, <1>19
     DEF Previews!Next, Previews!Owner, Previews!Converter, Previews!Worker

(* A step of the previews is a step of the mailbox or leaves it alone.     *)
LEMMA PreviewMailStep ==
  ASSUME PreviewInv, [Previews!Next]_previewVars
  PROVE  [Previews!Mail!Next]_(Previews!Mail!vars)
<1> USE DEF PreviewInv, Previews!Mail!Next, Previews!Mail!vars,
            Previews!Committed, Previews!Notify, Previews!NoFrame
<1>1. CASE Previews!Start
  BY <1>1 DEF Previews!Start
<1>2. CASE Previews!StartDecoder
  BY <1>2 DEF Previews!StartDecoder
<1>3. CASE Previews!StopDecoder
  BY <1>3 DEF Previews!StopDecoder
<1>4. CASE Previews!StopRunning
  BY <1>4 DEF Previews!StopRunning, Previews!Mail!Close
<1>5. CASE Previews!StopClear
  BY <1>5 DEF Previews!StopClear, Previews!MutexFree, Previews!HoldsMutex
<1>6. CASE Previews!SubmitPut
  BY <1>6 DEF Previews!SubmitPut, Previews!MutexFree, Previews!HoldsMutex,
              Previews!Mail!Post
<1>7. CASE Previews!WorkerTest
  BY <1>7 DEF Previews!WorkerTest, Previews!Mail!Take
<1>8. CASE Previews!WorkerTake
  BY <1>8 DEF Previews!WorkerTake
<1>9. CASE Previews!WorkerPublish
  BY <1>9 DEF Previews!WorkerPublish
<1>10. CASE Previews!WorkerCheck \/ Previews!WorkerSleeps
  BY <1>10 DEF Previews!WorkerCheck, Previews!WorkerSleeps
<1>11. CASE \/ Previews!StopNotify \/ Previews!StopJoin \/ Previews!SubmitNotify
            \/ Previews!SpuriousWakeup
  BY <1>11 DEF Previews!StopNotify, Previews!StopJoin, Previews!SubmitNotify,
               Previews!SpuriousWakeup
<1>12. CASE \/ Previews!MakePicture \/ Previews!SubmitTest
            \/ Previews!SubscribersChange \/ UNCHANGED previewVars
  BY <1>12 DEF Previews!MakePicture, Previews!SubmitTest,
               Previews!SubscribersChange, previewVars
<1>13. QED
  BY <1>1, <1>2, <1>3, <1>4, <1>5, <1>6, <1>7, <1>8, <1>9, <1>10, <1>11, <1>12
     DEF Previews!Next, Previews!Owner, Previews!Converter, Previews!Worker

-----------------------------------------------------------------------------
(* The recorder.  The queue holds one frame at most; it was recorded after *)
(* all that were saved, and so was the one in the hands of the thread.     *)
SavedBefore(n) == \A i \in 1..Len(r_video) : r_video[i] < n

RecordInv ==
  /\ r_recorded \in Nat /\ r_frame \in Nat
  /\ r_video \in Seq(Nat) /\ r_text \in Seq(Nat)
  /\ \/ r_queue = <<>>
     \/ \E n \in 0..r_recorded :
          /\ r_queue = <<n>>
          /\ n # 0 => SavedBefore(n)
          /\ r_saver = "video" /\ n # 0 => r_frame < n
  /\ SavedBefore(r_recorded + 1)
  /\ \A i, j \in 1..Len(r_video) : i < j => r_video[i] < r_video[j]
  /\ r_saver \in {"absent", "test", "pop", "video", "text", "done"}
  /\ r_saver = "video" => /\ r_frame \in 1..r_recorded
                          /\ SavedBefore(r_frame)
  /\ IF r_saver = "text" THEN r_video = Append(r_text, r_frame)
                         ELSE r_video = r_text
  /\ r_main = "stopped" => r_saver \in {"absent", "done"}

LEMMA RecordInit == Records!Init => RecordInv
  BY DEF Records!Init, Records!EmptyFrame, RecordInv, SavedBefore

(* A queue of one takes a frame only if it is empty.                       *)
LEMMA PushedOntoOne ==
  ASSUME NEW n \in Nat, r_queue = <<>> \/ \E m \in Nat : r_queue = <<m>>
  PROVE  Records!Pushed(r_queue, n, 1) = IF r_queue = <<>> THEN <<n>> ELSE r_queue
<1>1. CASE r_queue = <<>>
  BY <1>1 DEF Records!Pushed
<1>2. CASE \E m \in Nat : r_queue = <<m>>
  <2>1. Len(r_queue) = 1 /\ r_queue # <<>>
    BY <1>2
  <2>2. QED
    BY <2>1 DEF Records!Pushed
<1>3. QED
  BY <1>1, <1>2

LEMMA RecordStep == ASSUME RecordInv, [Records!Next]_recordVars PROVE RecordInv'
<1>1. CASE Records!Record
  <2> USE <1>1 DEF Records!Record, Records!MaxSize
  <2>1. r_recorded' = r_recorded + 1 /\ UNCHANGED <<r_video, r_text, r_frame>>
    OBVIOUS
  <2>2. \/ r_queue # <<>> /\ r_queue' = r_queue
        \/ r_queue = <<>> /\ r_queue' = <<r_recorded + 1>>
    BY PushedOntoOne DEF RecordInv
  <2>3. QED
    BY <2>1, <2>2 DEF RecordInv, SavedBefore
<1>2. CASE Records!StopFlag \/ Records!StopJoin \/ Records!SaverTest
  BY <1>2 DEF Records!StopFlag, Records!StopJoin, Records!SaverTest, RecordInv,
              SavedBefore
<1>3. CASE Records!StopPush
  <2> USE <1>3 DEF Records!StopPush, Records!MaxSize, Records!EmptyFrame
  <2>1. \/ r_queue # <<>> /\ r_queue' = r_queue
        \/ r_queue = <<>> /\ r_queue' = <<0>>
    BY PushedOntoOne DEF RecordInv
  <2>2. QED
    BY <2>1 DEF RecordInv, SavedBefore
<1>4. CASE Records!SaverPop
  <2> USE <1>4 DEF Records!SaverPop, Records!CanPop, Records!Front, Records!Popped,
                   Records!EmptyFrame
  <2>1. PICK n \in 0..r_recorded :
          /\ r_queue = <<n>>
          /\ n # 0 => SavedBefore(n)
    BY DEF RecordInv
  <2>2. /\ r_frame' = n /\ r_queue' = <<>>
        /\ r_saver' = IF n = 0 THEN "test" ELSE "video"
    BY <2>1
  <2>3. QED
    BY <2>1, <2>2 DEF RecordInv, SavedBefore
<1>5. CASE Records!SaverWritesVideo
  <2> USE <1>5 DEF Records!SaverWritesVideo
  <2>1. /\ Len(r_video') = Len(r_video) + 1
        /\ \A i \in 1..Len(r_video) : r_video'[i] = r_video[i]
        /\ r_video'[Len(r_video) + 1] = r_frame
        /\ r_video' \in Seq(Nat) /\ Len(r_video) \in Nat
    BY DEF RecordInv
  <2>2. SavedBefore(r_frame) /\ r_frame \in Nat /\ r_frame <= r_recorded
    BY DEF RecordInv
  <2>3. \A n \in Nat : SavedBefore(n) /\ r_frame < n => SavedBefore(n)'
    BY <2>1 DEF SavedBefore
  <2>4. \A i, j \in 1..Len(r_video') : i < j => r_video'[i] < r_video'[j]
    <3>1. /\ \A i, j \in 1..Len(r_video) : i < j => r_video[i] < r_video[j]
          /\ \A i \in 1..Len(r_video) : r_video[i] < r_frame
      BY <2>2 DEF RecordInv, SavedBefore
    <3> HIDE <1>5
    <3>2. SUFFICES ASSUME NEW i \in 1..Len(r_video'), NEW j \in 1..Len(r_video'), i < j
                   PROVE  r_video'[i] < r_video'[j]
      OBVIOUS
    <3>3. i \in 1..Len(r_video) /\ r_video'[i] = r_video[i]
      BY <2>1, <3>2
    <3>4. \/ j = Len(r_video) + 1 /\ r_video'[j] = r_frame
          \/ j \in 1..Len(r_video) /\ r_video'[j] = r_video[j]
      BY <2>1, <3>2
    <3>5. CASE j = Len(r_video) + 1 /\ r_video'[j] = r_frame
      BY <3>1, <3>3, <3>5, Zenon
    <3>6. CASE j \in 1..Len(r_video) /\ r_video'[j] = r_video[j]
      BY <3>1, <3>2, <3>3, <3>6, Zenon
    <3>7. QED
      BY <3>4, <3>5, <3>6, Zenon
  <2>5. QED
    BY <2>1, <2>2, <2>3, <2>4 DEF RecordInv
<1>6. CASE Records!SaverWritesText
  BY <1>6 DEF Records!SaverWritesText, RecordInv, SavedBefore
<1>7. CASE UNCHANGED recordVars
  BY <1>7 DEF recordVars, RecordInv, SavedBefore
<1>8. QED
  BY <1>1, <1>2, <1>3, <1>4, <1>5, <1>6, <1>7 DEF Records!Next, Records!Saver

(* Video and text are each in order, and agree but for the last line.      *)
LEMMA RecordsInOrder == RecordInv => Records!InOrder
<1> SUFFICES ASSUME RecordInv PROVE Records!InOrder
  OBVIOUS
<1>1. DOMAIN r_video = 1..Len(r_video)
  BY LenProperties DEF RecordInv
<1>2. r_text = SubSeq(r_video, 1, Len(r_text))
  <2>1. CASE r_saver # "text"
    BY <2>1, SubSeqFull DEF RecordInv
  <2>2. CASE r_saver = "text"
    <3>1. r_video = Append(r_text, r_frame) /\ r_text \in Seq(Nat) /\ r_frame \in Nat
      BY <2>2 DEF RecordInv
    <3> DEFINE prefix == SubSeq(r_video, 1, Len(r_text))
    <3>2. /\ prefix \in Seq(Nat) /\ Len(prefix) = Len(r_text)
          /\ \A i \in 1..Len(r_text) : prefix[i] = r_text[i]
      BY <3>1
    <3> HIDE DEF prefix
    <3>3. prefix = r_text
      BY <3>1, <3>2, SeqEqual
    <3>4. QED
      BY <3>3 DEF prefix
  <2>3. QED
    BY <2>1, <2>2
<1>3. QED
  BY <1>1, <1>2 DEF RecordInv, Records!InOrder

-----------------------------------------------------------------------------
(* The pool.  Only frames that were read are worked on; what the ordered   *)
(* queue gave away are the frames below the one it waits for, in order.    *)
PoolInv ==
  /\ f_read \in 0..MaxFrames
  /\ f_tasks \in Seq(1..MaxFrames)
  /\ f_worker \in [Workers -> {"absent", "lock", "checked", "asleep", "detect",
                               "enqueue", "done"}]
  /\ f_frame \in [Workers -> 0..MaxFrames]
  /\ \A w \in Workers : f_worker[w] \in {"detect", "enqueue"} => f_frame[w] # 0
  /\ f_mainQueue \in Seq(Nat) /\ f_processed \in Seq(Nat)
  /\ f_buffer \subseteq 1..MaxFrames
  /\ f_current \in Nat \ {0}
  /\ Pool!InOrder
  /\ f_main \in {"notify_all", "join", "stopped"} => f_tasks = <<>>
  /\ f_main = "stopped" => \A w \in Workers : f_worker[w] = "done"

LEMMA PoolInit == Pool!Init => PoolInv
<1> SUFFICES ASSUME Pool!Init PROVE PoolInv
  OBVIOUS
<1> USE WorkerThreadsAssumption DEF Pool!Init
<1>1. Pool!InOrder
  <2>1. <<>> \o <<>> = <<>> /\ [i \in 1..0 |-> i] = <<>>
    OBVIOUS
  <2>2. f_current - 1 = 0
    OBVIOUS
  <2>3. QED
    BY <2>1, <2>2 DEF Pool!InOrder
<1>2. QED
  BY <1>1 DEF PoolInv

(* The frames that wait behind the current one without a gap end at the    *)
(* first number that is not among them.                                    *)
LEMMA FirstGapIsFirst ==
  ASSUME PoolInv, f_current <= MaxFrames
  PROVE  LET next == Pool!FirstGap(f_buffer)
         IN  /\ next \in (f_current + 1)..(MaxFrames + 1)
             /\ next \notin f_buffer
             /\ (f_current + 1)..(next - 1) \subseteq f_buffer
<1> USE WorkerThreadsAssumption DEF PoolInv
<1> DEFINE absent == ((f_current + 1)..(MaxFrames + 1)) \ f_buffer
<1>1. absent \in SUBSET Nat /\ MaxFrames + 1 \in absent
  OBVIOUS
<1>2. PICK n \in absent : \A m \in absent : n <= m
  BY <1>1, LeastNumber
<1>3. /\ n \in (f_current + 1)..(MaxFrames + 1) /\ n \notin f_buffer
      /\ (f_current + 1)..(n - 1) \subseteq f_buffer
  BY <1>2
<1>4. QED
  BY <1>3, Zenon DEF Pool!FirstGap

LEMMA PoolStep == ASSUME PoolInv, [Pool!Next]_poolVars PROVE PoolInv'
<1> USE WorkerThreadsAssumption
<1>1. CASE Pool!StartPool
  BY <1>1 DEF Pool!StartPool, Pool!queueVars, PoolInv, Pool!InOrder
<1>2. CASE Pool!EnqueueTask
  <2>1. f_tasks' \in Seq(1..MaxFrames) /\ f_read' \in 0..MaxFrames
    BY <1>2 DEF Pool!EnqueueTask, PoolInv
  <2>2. QED
    BY <1>2, <2>1 DEF Pool!EnqueueTask, Pool!queueVars, PoolInv, Pool!InOrder
<1>3. CASE Pool!EnqueueNotify
  BY <1>3 DEF Pool!EnqueueNotify, Pool!queueVars, PoolInv, Pool!InOrder
<1>4. CASE Pool!StopPool
  BY <1>4 DEF Pool!StopPool, Pool!queueVars, PoolInv, Pool!InOrder
<1>5. CASE Pool!StopNotifyAll
  BY <1>5 DEF Pool!StopNotifyAll, Pool!Woken, Pool!queueVars, PoolInv, Pool!InOrder
<1>6. CASE Pool!StopJoin
  BY <1>6 DEF Pool!StopJoin, Pool!poolVars, Pool!queueVars, PoolInv, Pool!InOrder
<1>7. ASSUME NEW w \in Workers, Pool!WorkerCheck(w) PROVE PoolInv'
  <2>1. CASE f_tasks # <<>> /\ f_tasks' = Tail(f_tasks)
    <3>1. Head(f_tasks) \in 1..MaxFrames /\ f_tasks' \in Seq(1..MaxFrames)
      BY <2>1, HeadTailProperties DEF PoolInv
    <3>2. /\ f_frame' = [f_frame EXCEPT ![w] = Head(f_tasks)]
          /\ f_worker' = [f_worker EXCEPT ![w] = "detect"]
          /\ UNCHANGED <<f_read, f_stop, f_mainQueue, f_buffer, f_current,
                         f_processed, f_lost, f_main>>
      BY <1>7, <2>1 DEF Pool!WorkerCheck, Pool!queueVars
    <3>3. QED
      BY <2>1, <3>1, <3>2 DEF PoolInv, Pool!InOrder
  <2>2. CASE f_tasks = <<>>
    BY <1>7, <2>2 DEF Pool!WorkerCheck, Pool!queueVars, PoolInv, Pool!InOrder
  <2>3. QED
    BY <1>7, <2>1, <2>2 DEF Pool!WorkerCheck
<1>8. ASSUME NEW w \in Workers, Pool!WorkerSleeps(w) \/ Pool!SpuriousWakeup(w)
      PROVE  PoolInv'
  BY <1>8 DEF Pool!WorkerSleeps, Pool!SpuriousWakeup, Pool!queueVars, PoolInv,
              Pool!InOrder
<1>9. ASSUME NEW w \in Workers, Pool!FindDetector(w) PROVE PoolInv'
  BY <1>9 DEF Pool!FindDetector, Pool!queueVars, PoolInv, Pool!InOrder
<1>10. ASSUME NEW w \in Workers, Pool!EnqueueFrame(w) PROVE PoolInv'
  <2> DEFINE n == f_frame[w]
             next == Pool!FirstGap(f_buffer)
  <2>1. n \in 1..MaxFrames /\ f_worker[w] = "enqueue"
    BY <1>10 DEF Pool!EnqueueFrame, PoolInv
  <2>2. /\ f_worker' = [f_worker EXCEPT ![w] = "lock"]
        /\ UNCHANGED <<f_read, f_tasks, f_stop, f_frame, f_processed, f_lost, f_main>>
    BY <1>10 DEF Pool!EnqueueFrame
  <2>3. CASE n = f_current
    <3>1. /\ next \in (f_current + 1)..(MaxFrames + 1)
          /\ next \notin f_buffer
          /\ (f_current + 1)..(next - 1) \subseteq f_buffer
      BY <2>1, <2>3, FirstGapIsFirst
    <3>2. /\ f_mainQueue' = f_mainQueue \o [i \in 1..(next - n) |-> n + i - 1]
          /\ f_buffer' = f_buffer \ (n..next)
          /\ f_current' = next
      BY <1>10, <2>3 DEF Pool!EnqueueFrame
    <3> HIDE DEF next
    <3>3. /\ f_mainQueue' \in Seq(Nat)
          /\ f_processed' \o f_mainQueue' = [i \in 1..(f_current' - 1) |-> i]
      <4>1. f_processed' = f_processed
        BY <2>2
      <4>2. /\ n \in Nat \ {0} /\ f_processed \in Seq(Nat) /\ f_mainQueue \in Seq(Nat)
            /\ f_processed \o f_mainQueue = FirstNumbers(n - 1)
        BY <2>3 DEF PoolInv, Pool!InOrder, FirstNumbers
      <4>3. next - n \in Nat /\ n + (next - n) - 1 = f_current' - 1
        BY <2>1, <2>3, <3>1, <3>2
      <4>4. f_mainQueue' = f_mainQueue \o NumbersFrom(n, next - n)
        BY <3>2 DEF NumbersFrom
      <4> HIDE DEF n
      <4>5. /\ f_mainQueue \o NumbersFrom(n, next - n) \in Seq(Nat)
            /\ f_processed \o (f_mainQueue \o NumbersFrom(n, next - n))
                 = FirstNumbers(n + (next - n) - 1)
        BY <4>2, <4>3, CountOn
      <4>6. QED
        BY <4>1, <4>3, <4>4, <4>5, Zenon DEF FirstNumbers
    <3>4. \A m \in f_buffer' : m > f_current'
      BY <2>1, <2>3, <3>1, <3>2 DEF PoolInv, Pool!InOrder
    <3>5. f_current' \in Nat \ {0}
      <4>1. f_current \in Nat
        BY DEF PoolInv
      <4>2. QED
        BY <3>1, <3>2, <4>1
    <3>6. f_buffer' \subseteq 1..MaxFrames
      BY <3>2 DEF PoolInv
    <3>7. QED
      BY <2>1, <2>2, <3>3, <3>4, <3>5, <3>6 DEF PoolInv, Pool!InOrder
  <2>4. CASE n # f_current
    <3>1. /\ f_buffer' = f_buffer \cup (IF n > f_current THEN {n} ELSE {})
          /\ UNCHANGED <<f_mainQueue, f_current>>
      BY <1>10, <2>4 DEF Pool!EnqueueFrame
    <3>2. QED
      BY <2>1, <2>2, <3>1 DEF PoolInv, Pool!InOrder
  <2>5. QED
    BY <2>3, <2>4
<1>11. CASE Pool!Dequeue
  <2>1. /\ f_processed' = Append(f_processed, Head(f_mainQueue))
        /\ f_mainQueue' = Tail(f_mainQueue) /\ f_mainQueue # <<>>
    BY <1>11 DEF Pool!Dequeue
  <2>2. f_processed' \o f_mainQueue' = f_processed \o f_mainQueue
    BY <2>1, HeadMoves DEF PoolInv
  <2>3. f_processed' \in Seq(Nat) /\ f_mainQueue' \in Seq(Nat)
    BY <2>1, HeadTailProperties, AppendProperties DEF PoolInv
  <2>4. QED
    BY <1>11, <2>2, <2>3 DEF Pool!Dequeue, Pool!poolVars, PoolInv, Pool!InOrder
<1>12. CASE UNCHANGED poolVars
  BY <1>12 DEF poolVars, PoolInv, Pool!InOrder
<1>13. QED
  BY <1>1, <1>2, <1>3, <1>4, <1>5, <1>6, <1>7, <1>8, <1>9, <1>10, <1>11, <1>12
     DEF Pool!Next, Pool!Stop, Pool!Work

-----------------------------------------------------------------------------
(* One part makes a step and the others stand still.                       *)
IInv == PreviewInv /\ ImageInv /\ RecordInv /\ PoolInv

LEMMA PartsStep ==
  [Next]_vars => /\ [Previews!Next]_previewVars /\ [Images!Next]_imageVars
                 /\ [Records!Next]_recordVars /\ [Pool!Next]_poolVars
BY DEF Next, vars

(* What the four invariants say holds of every behaviour.                  *)
THEOREM InvariantHolds == Spec => []IInv
<1>1. Init => IInv
  BY PreviewInit, ImageInit, RecordInit, PoolInit DEF Init, IInv
<1>2. IInv /\ [Next]_vars => IInv'
  BY PartsStep, PreviewStep, ImageStep, RecordStep, PoolStep DEF IInv
<1>3. QED
  BY <1>1, <1>2, PTL DEF Spec

(* When stop() or a destructor has returned, no thread is left to use what *)
(* is freed next, and nothing waits that nobody will take: previews, debug *)
(* images, recorder and pool.                                              *)
THEOREM StopLeavesNothing == Spec => []NothingAfterStop
<1>1. IInv => NothingAfterStop
  BY DEF IInv, PreviewInv, ImageInv, RecordInv, PoolInv, NothingAfterStop,
         Previews!NothingAfterStop, Images!NothingAfterStop,
         Records!NothingAfterStop, Pool!NothingAfterStop
<1>2. QED
  BY <1>1, InvariantHolds, PTL

(* The recorder saves every frame it saves once and in order, with video   *)
(* and text in agreement; the frames of the pool come out in the order of  *)
(* their numbers, however the workers overtake each other.                 *)
THEOREM OrderIsKept == Spec => []InOrder
<1>1. IInv => InOrder
  BY RecordsInOrder DEF IInv, PoolInv, InOrder
<1>2. QED
  BY <1>1, InvariantHolds, PTL

(* The two slots with their flags, mutexes and wake-ups do, step by step,  *)
(* what a mailbox may do: the latest picture replaces the one that waits,  *)
(* each is taken at most once, and nothing is put or taken after the box   *)
(* is closed (the safety part of ImplementMailbox).                        *)
THEOREM SlotsAreMailboxes ==
  Spec => /\ Previews!Mail!Init /\ [][Previews!Mail!Next]_(Previews!Mail!vars)
          /\ Images!Mail!Init /\ [][Images!Mail!Next]_(Images!Mail!vars)
<1>1. Init => Previews!Mail!Init
  BY DEF Init, Previews!Init, Previews!NoFrame, Previews!Committed, Previews!Mail!Init
<1>2. Init => Images!Mail!Init
  BY DEF Init, Images!Init, Images!Mail!Init
<1>3. IInv /\ [Next]_vars => /\ [Previews!Mail!Next]_(Previews!Mail!vars)
                             /\ [Images!Mail!Next]_(Images!Mail!vars)
  BY PartsStep, PreviewMailStep, ImageMailStep DEF IInv
<1>4. QED
  BY <1>1, <1>2, <1>3, InvariantHolds, PTL DEF Spec

=============================================================================
