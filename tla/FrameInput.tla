------------------------------ MODULE FrameInput ------------------------------
(***************************************************************************)
(* The input side of io::AUVClient: the image and IMU callbacks of the     *)
(* executor thread, and read(), which the main thread calls in a loop.     *)
(* They share a one-slot image cache and a bounded IMU history under       *)
(* data_mutex_.  read() waits twice on data_condition_, for an image and   *)
(* for an IMU sample close to it; each wait gives the mutex away, so the   *)
(* callbacks run between any two of its steps.  Every critical section is  *)
(* one action.  Times are ticks of the ROS clock.                          *)
(***************************************************************************)
EXTENDS Integers, SequencesExt

CONSTANTS
  None,             (* no message                                          *)
  SyncTolerance,    (* sync_tolerance_ms                                   *)
  SyncWait,         (* sync_wait_ms                                        *)
  CommandTimeout,   (* command_timeout_ms                                  *)
  UpstreamLatency,  (* upstream_latency_ms                                 *)
  MaxFrameAge,      (* max_frame_age_ms                                    *)
  KeepBehind,       (* the 1000 ms of history that trimming keeps          *)
  MaxImu,           (* MAX_IMU_BUFFER_SIZE                                 *)
  MaxDelay,         (* bound: the age of a message when it arrives         *)
  MaxTime           (* bound: the ticks explored                           *)

ASSUME InputAssumption ==
  /\ {SyncTolerance, SyncWait, KeepBehind, MaxDelay, MaxTime,
      UpstreamLatency} \subseteq Nat
  /\ {CommandTimeout, MaxImu, MaxFrameAge} \subseteq Nat \ {0}
  /\ UpstreamLatency < MaxFrameAge
  /\ None \notin Int

VARIABLES
  now,          (* the ROS clock                                           *)
  latestImage,  (* stamp of latest_image_                                  *)
  latestSeq,    (* latest_image_sequence_                                  *)
  consumedSeq,  (* consumed_image_sequence_                                *)
  imuBuffer,    (* stamps in imu_buffer_, oldest first                     *)
  reader,       (* control point of read()                                 *)
  waited,       (* ticks spent in the present wait                         *)
  image,        (* image_msg, the local copy of read()                     *)
  imu,          (* imu_msg                                                 *)
  status,       (* what the last read() returned                           *)
  imuSeen,      (* every IMU stamp that ever arrived                       *)
  taken         (* the image that the last read() took, with its sequence  *)

cacheVars == <<latestImage, latestSeq, imuBuffer, imuSeen>>
readVars == <<reader, waited, consumedSeq, image, imu, status, taken>>
vars == <<now, cacheVars, readVars>>

Statuses == {"ok", "timeout", "stale", "unmatched_imu", "invalid_image",
             "invalid_imu"}
Stamps == (0 - MaxDelay)..(MaxTime + SyncTolerance + 1)

-----------------------------------------------------------------------------
(* nearest_imu_locked: the first of the nearest samples, if near enough.   *)
Delta(a, b) == IF a >= b THEN a - b ELSE b - a

Nearest(buffer, stamp) ==
  LET delta(i) == Delta(buffer[i], stamp)
      near == {i \in DOMAIN buffer : delta(i) <= SyncTolerance}
      first == {i \in near : /\ \A j \in near : delta(i) <= delta(j)
                             /\ \A j \in near : j < i => delta(i) < delta(j)}
  IN IF near = {} THEN None ELSE buffer[CHOOSE i \in first : TRUE]

(* Mutant: everything up to the image is thrown away.                      *)
TrimmedToImage(buffer, stamp) == SelectSeq(buffer, LAMBDA s : s > stamp)

(* The samples at the front that no later image can need are dropped.      *)
Trimmed(buffer, stamp) ==
  LET useful == {i \in DOMAIN buffer :
                   buffer[i] >= stamp - (SyncTolerance + KeepBehind)}
  IN SubSeq(buffer, Min(useful \cup {Len(buffer) + 1}), Len(buffer))

EffectiveAge(stamp) ==
  (IF now >= stamp THEN now - stamp ELSE 0) + UpstreamLatency

-----------------------------------------------------------------------------
Init ==
  /\ now = 0
  /\ latestImage = None
  /\ latestSeq = 0
  /\ consumedSeq = 0
  /\ imuBuffer = <<>>
  /\ reader = "idle"
  /\ waited = 0
  /\ image = None
  /\ imu = None
  /\ status = "ok"
  /\ imuSeen = {}
  /\ taken = [stamp |-> None, seq |-> 0]

(* image_callback.  Stamps of successive images increase; a message may    *)
(* arrive late, or be stamped slightly ahead of this machine's clock.      *)
ImageCallback(stamp) ==
  /\ latestImage # None => stamp > latestImage
  /\ latestImage' = stamp
  /\ latestSeq' = latestSeq + 1
  /\ UNCHANGED <<now, imuBuffer, imuSeen, readVars>>

(* push_back, then pop_front while there are too many.                     *)
Push(buffer, stamp) ==
  LET longer == Append(buffer, stamp)
  IN IF Len(longer) > MaxImu THEN Tail(longer) ELSE longer

(* imu_callback, with increasing stamps as well.                           *)
ImuCallback(stamp) ==
  /\ \A s \in imuSeen : stamp > s
  /\ imuBuffer' = Push(imuBuffer, stamp)
  /\ imuSeen' = imuSeen \cup {stamp}
  /\ UNCHANGED <<now, latestImage, latestSeq, readVars>>

-----------------------------------------------------------------------------
(* read() is called and begins to wait for an image.                       *)
StartRead ==
  /\ reader = "idle"
  /\ reader' = "image"
  /\ waited' = 0
  /\ UNCHANGED <<now, cacheVars, consumedSeq, image, imu, status, taken>>

Return(result) ==
  /\ status' = result
  /\ reader' = "idle"
  /\ waited' = 0

(* The first wait ends with an image that was not consumed yet.            *)
TakeImage ==
  /\ reader = "image"
  /\ latestSeq # consumedSeq
  /\ image' = latestImage
  /\ consumedSeq' = latestSeq
  /\ taken' = [stamp |-> latestImage, seq |-> latestSeq]
  /\ reader' = "imu"
  /\ waited' = 0
  /\ UNCHANGED <<now, cacheVars, imu, status>>

ImageTimeout ==
  /\ reader = "image"
  /\ latestSeq = consumedSeq
  /\ waited >= CommandTimeout
  /\ Return("timeout")
  /\ UNCHANGED <<now, cacheVars, consumedSeq, image, imu, taken>>

(* Mutant: the pair is made with whatever image is the latest by now.      *)
PairLatest ==
  /\ reader = "imu"
  /\ Nearest(imuBuffer, image) # None
  /\ imu' = Nearest(imuBuffer, image)
  /\ image' = latestImage
  /\ imuBuffer' = Trimmed(imuBuffer, image)
  /\ reader' = "convert"
  /\ UNCHANGED <<now, latestImage, latestSeq, imuSeen, consumedSeq, waited,
                 status, taken>>

(* Mutant: the sequence is marked as consumed after the wait.              *)
PairConsumesLatest ==
  /\ reader = "imu"
  /\ Nearest(imuBuffer, image) # None
  /\ imu' = Nearest(imuBuffer, image)
  /\ imuBuffer' = Trimmed(imuBuffer, image)
  /\ consumedSeq' = latestSeq
  /\ reader' = "convert"
  /\ UNCHANGED <<now, latestImage, latestSeq, imuSeen, image, waited,
                 status, taken>>

(* The second wait ends with a sample near enough to the image taken; the  *)
(* latest image may be another one by now.                                 *)
PairImu ==
  /\ reader = "imu"
  /\ Nearest(imuBuffer, image) # None
  /\ imu' = Nearest(imuBuffer, image)
  /\ imuBuffer' = Trimmed(imuBuffer, image)
  /\ reader' = "convert"
  /\ UNCHANGED <<now, latestImage, latestSeq, imuSeen, consumedSeq, image,
                 waited, status, taken>>

ImuTimeout ==
  /\ reader = "imu"
  /\ Nearest(imuBuffer, image) = None
  /\ waited >= SyncWait
  /\ Return("unmatched_imu")
  /\ UNCHANGED <<now, cacheVars, consumedSeq, image, imu, taken>>

(* Outside the mutex: decode the image, normalise the orientation, then    *)
(* compare the age of the frame, which may have grown while waiting.       *)
Convert ==
  /\ reader = "convert"
  /\ \/ \E bad \in {"invalid_image", "invalid_imu"} : Return(bad)
     \/ /\ image <= now + SyncTolerance
        /\ EffectiveAge(image) <= MaxFrameAge
        /\ Return("ok")
     \/ /\ \/ image > now + SyncTolerance
           \/ EffectiveAge(image) > MaxFrameAge
        /\ Return("stale")
  /\ UNCHANGED <<now, cacheVars, consumedSeq, image, imu, taken>>

-----------------------------------------------------------------------------
(* A tick of time; a wait that has run out is left before the next one.    *)
Tick ==
  /\ now < MaxTime
  /\ reader = "image" => waited < CommandTimeout
  /\ reader = "imu" => waited < SyncWait
  /\ now' = now + 1
  /\ waited' = IF reader \in {"image", "imu"} THEN waited + 1 ELSE waited
  /\ UNCHANGED <<cacheVars, reader, consumedSeq, image, imu, status, taken>>

Callbacks ==
  \/ \E stamp \in Stamps : /\ stamp \in (now - MaxDelay)..(now + SyncTolerance + 1)
                           /\ ImageCallback(stamp)
  \/ \E stamp \in Stamps : /\ stamp \in (now - MaxDelay)..now
                           /\ ImuCallback(stamp)

ReadStep == StartRead \/ TakeImage \/ ImageTimeout \/ PairImu \/ ImuTimeout
              \/ Convert

Next == Callbacks \/ ReadStep \/ Tick

Spec == Init /\ [][Next]_vars

-----------------------------------------------------------------------------
TypeOK ==
  /\ now \in 0..MaxTime
  /\ latestImage \in Stamps \cup {None}
  /\ latestSeq \in Nat
  /\ consumedSeq \in 0..latestSeq
  /\ imuBuffer \in Seq(Stamps) /\ Len(imuBuffer) <= MaxImu
  /\ reader \in {"idle", "image", "imu", "convert"}
  /\ waited \in 0..(CommandTimeout + SyncWait)
  /\ image \in Stamps \cup {None}
  /\ imu \in Stamps \cup {None}
  /\ status \in Statuses
  /\ imuSeen \subseteq Stamps
  /\ taken \in [stamp : Stamps \cup {None}, seq : Nat]

(* The image and the orientation of a frame belong together, although both *)
(* the image slot and the IMU history may change while read() waits and    *)
(* has given up the mutex (the two wait_for of read()).                    *)
FrameIsSynchronous ==
  (reader = "convert" \/ (reader = "idle" /\ status = "ok" /\ imu # None))
    => Delta(imu, image) <= SyncTolerance

(* The client only believes to have consumed the latest image when that is *)
(* the image it took: one that arrives during the wait for the IMU is read *)
(* next and not skipped (consumed_image_sequence_).                        *)
NoImageSkipped ==
  consumedSeq = latestSeq => taken.stamp = latestImage

(* Neither the bound of the IMU history nor its trimming costs a match: a  *)
(* fresh image is only rejected as unmatched when no sample close to it    *)
(* has arrived at all.  It needs a history longer than the delay of images *)
(* (imu_callback, the trimming in read()).                                 *)
UnmatchedMeansNoSample ==
  [][ImuTimeout /\ EffectiveAge(image) <= MaxFrameAge
       => \A s \in imuSeen : Delta(s, image) > SyncTolerance]_vars
=============================================================================
