----------------------------- MODULE SentryProofs ------------------------------
(***************************************************************************)
(* What the run checks of the drivers, the orientation, mt_standard, the   *)
(* cameras around the sentry, its tracker and the power rune on small      *)
(* instances, for any sizes of queues, limits, devices and cameras.  One   *)
(* part runs in a behaviour and the others keep the state they start in,   *)
(* so each part has an invariant of its own.                               *)
(***************************************************************************)
EXTENDS Sentry, SequenceTheorems, TLAPS

-----------------------------------------------------------------------------
(* The drivers.  The daemon has joined the capture thread when it closes   *)
(* and opens; only the daemon and the destructor of USBCamera close a      *)
(* device that a thread may still read from.                               *)
CaptureInv ==
  /\ c_handle \in {"none", "open", "closed"}
  /\ c_main \in {"construct", "use", "close", "join_daemon", "join", "destroyed"}
  /\ c_daemon \in {"absent", "test", "look", "give_up", "stop", "join",
                   "last_join", "close", "last_close", "open", "done"}
  /\ c_capturer \in {"absent", "starts", "loop", "reads", "ended"}
  /\ c_main = "construct" => c_daemon = "absent" /\ c_capturer = "absent"
  /\ c_daemon \in {"close", "last_close", "open"} => c_capturer = "absent"
  /\ c_daemon = "give_up" \/ c_main = "close" => c_driver = "usb"
  /\ c_capturer \in {"starts", "loop", "reads"} /\ c_driver # "usb"
       => c_handle = "open"
  /\ c_daemon = "done" /\ c_driver = "hikrobot" => c_capturer = "absent"
  /\ c_main \in {"join", "destroyed"} => c_daemon = "done"
  /\ c_main = "destroyed" =>
       c_capturer = "absent" /\ (c_driver # "hikrobot" => c_handle # "open")

LEMMA CaptureInit == Capture!Init => CaptureInv
BY DEF Capture!Init, CaptureInv

LEMMA CaptureStep ==
  ASSUME CaptureInv, [Capture!Next]_captureVars
  PROVE  CaptureInv'
<1> USE DEF CaptureInv, Capture!Closed
<1>1. CASE Capture!Construct
  BY <1>1 DEF Capture!Construct, Capture!Open
<1>2. CASE Capture!DaemonTest
  BY <1>2 DEF Capture!DaemonTest
<1>3. CASE Capture!DaemonLook
  BY <1>3 DEF Capture!DaemonLook
<1>4. CASE Capture!GiveUp
  BY <1>4 DEF Capture!GiveUp
<1>5. CASE Capture!StopCapture
  BY <1>5 DEF Capture!StopCapture
<1>6. CASE Capture!DaemonJoin
  BY <1>6 DEF Capture!DaemonJoin
<1>7. CASE Capture!DaemonClose
  BY <1>7 DEF Capture!DaemonClose
<1>8. CASE Capture!DaemonOpen
  BY <1>8 DEF Capture!DaemonOpen, Capture!Open
<1>9. CASE Capture!Capturer
  BY <1>9 DEF Capture!Capturer, Capture!CaptureStarts, Capture!CaptureTest,
              Capture!CaptureReads
<1>10. CASE Capture!Quit
  BY <1>10 DEF Capture!Quit
<1>11. CASE Capture!CloseFirst
  BY <1>11 DEF Capture!CloseFirst
<1>12. CASE Capture!JoinDaemon
  BY <1>12 DEF Capture!JoinDaemon
<1>13. CASE Capture!JoinCapturer
  BY <1>13 DEF Capture!JoinCapturer
<1>14. CASE Capture!PlugOrUnplug \/ UNCHANGED captureVars
  BY <1>14 DEF Capture!PlugOrUnplug, captureVars
<1>15. QED
  BY <1>1, <1>2, <1>3, <1>4, <1>5, <1>6, <1>7, <1>8, <1>9, <1>10, <1>11, <1>12,
     <1>13, <1>14 DEF Capture!Next, Capture!Daemon, Capture!Destructor

-----------------------------------------------------------------------------
(* The orientation.  The queue holds accepted stamps in their order, and   *)
(* all of them from its front on.                                          *)
InQueue(stamp) == \E i \in 1..Len(o_queue) : o_queue[i] = stamp

QueueInv ==
  /\ o_received \in Nat
  /\ \A stamp \in o_accepted : stamp \in Nat /\ 0 < stamp /\ stamp <= 2 * o_received
  /\ o_queue \in Seq(Nat)
  /\ \A i \in 1..Len(o_queue) : o_queue[i] \in o_accepted
  /\ \A i, j \in 1..Len(o_queue) : i < j => o_queue[i] < o_queue[j]
  /\ \A stamp \in o_accepted :
       o_queue # <<>> /\ Head(o_queue) <= stamp => InQueue(stamp)

(* What is in the queue came after a stamp, what came after it is there.   *)
After(stamp) == \A i \in 1..Len(o_queue) : stamp < o_queue[i]
Kept(stamp) == \A s \in o_accepted : stamp < s => InQueue(s)

(* imu_at has taken all up to its pair out of the queue, and only queries  *)
(* that go back leave its older sample behind the query.                   *)
ImuInv ==
  /\ ~o_cleared
  /\ o_reader \in {"first", "second", "idle", "pop", "answer"}
  /\ o_reader = "first" => o_ahead = 0 /\ o_behind = 0 /\ Kept(0)
  /\ o_reader = "second" => After(o_ahead) /\ Kept(o_ahead)
  /\ o_reader \in {"idle", "pop", "answer"} => After(o_behind) /\ Kept(o_behind)
  /\ \/ o_reader = "first"
     \/ o_ahead <= o_latest
     \/ o_reader \in {"pop", "answer"} /\ o_ahead <= o_asked
     \/ \A stamp \in o_accepted : o_ahead <= stamp
  /\ o_reader = "pop" /\ o_fresh => o_ahead = o_behind /\ o_behind <= o_asked
  /\ o_reader = "answer" =>
       /\ o_asked < o_behind
       /\ o_fresh => o_ahead <= o_asked /\ Gimbal!Adjacent

(* Gimbal::q leaves the newer sample of its pair in the queue, where the   *)
(* next query begins with it unless the queue was emptied.                 *)
AtFront(stamp) == o_queue # <<>> /\ Head(o_queue) = stamp

GimbalInv ==
  /\ o_reader \in {"first", "idle", "pop", "front", "answer"}
  /\ o_reader = "first" => o_behind = 0
  /\ o_reader = "front" =>
       After(o_ahead) /\ (o_fresh => Kept(o_ahead) /\ o_ahead < o_asked)
  /\ o_reader = "pop" /\ o_fresh => AtFront(o_behind) /\ o_behind < o_asked
  /\ o_reader \in {"idle", "answer"} /\ o_behind # 0 /\ ~o_cleared
       => AtFront(o_behind)
  /\ o_reader = "answer" =>
       o_asked <= o_behind /\ (o_fresh => o_ahead < o_asked /\ Gimbal!Adjacent)

PairInv ==
  /\ o_ahead \in Nat /\ o_behind \in Nat /\ o_asked \in Nat /\ o_latest \in Nat
  /\ o_ahead <= 2 * o_received /\ o_behind <= 2 * o_received
  /\ \/ o_device = "imu" /\ ImuInv
     \/ o_device = "gimbal" /\ GimbalInv

OrientationInv == QueueInv /\ PairInv

LEMMA OrientationInit == Gimbal!Init => OrientationInv
BY SentryAssumption
   DEF Gimbal!Init, Gimbal!OrientationAssumption, OrientationInv, QueueInv,
       PairInv, ImuInv, GimbalInv, Kept, InQueue

LEMMA LessThanNext == \A m, n, k \in Nat : m < n /\ n <= k => m < k
OBVIOUS

(* Taking the front: what is left came after it, and nothing else is gone. *)
LEMMA Taken ==
  ASSUME QueueInv, o_queue # <<>>, o_queue' = Tail(o_queue),
         UNCHANGED <<o_received, o_accepted>>
  PROVE  /\ QueueInv'
         /\ Head(o_queue) \in o_accepted
         /\ \A i \in 1..Len(o_queue') : Head(o_queue) < o_queue'[i]
         /\ \A s \in o_accepted : InQueue(s) => Head(o_queue) <= s
         /\ \A s \in o_accepted : InQueue(s) /\ s # Head(o_queue) => InQueue(s)'
<1>1. /\ o_queue' \in Seq(Nat) /\ Len(o_queue) \in Nat \ {0}
      /\ Len(o_queue') = Len(o_queue) - 1
      /\ \A i \in 1..Len(o_queue') : o_queue'[i] = o_queue[i + 1]
      /\ Head(o_queue) = o_queue[1]
  BY HeadTailProperties, LenProperties, EmptySeq DEF QueueInv
<1>2. /\ o_queue[1] \in o_accepted
      /\ \A i \in 1..Len(o_queue') :
           o_queue'[i] \in o_accepted /\ o_queue[1] < o_queue'[i]
      /\ \A i, j \in 1..Len(o_queue') : i < j => o_queue'[i] < o_queue'[j]
  BY <1>1 DEF QueueInv
<1>3. \A s \in o_accepted : InQueue(s) => o_queue[1] <= s
  BY <1>1 DEF QueueInv, InQueue
<1>4. \A s \in o_accepted : InQueue(s) /\ s # o_queue[1] => InQueue(s)'
  <2>1. SUFFICES ASSUME NEW i \in 1..Len(o_queue), o_queue[i] # o_queue[1]
                 PROVE  \E j \in 1..Len(o_queue') : o_queue'[j] = o_queue[i]
    BY DEF InQueue
  <2>2. i - 1 \in 1..Len(o_queue') /\ o_queue'[i - 1] = o_queue[i]
    BY <1>1, <2>1
  <2>3. QED
    BY <2>2
<1>5. \A s \in o_accepted : o_queue' # <<>> /\ Head(o_queue') <= s => InQueue(s)'
  <2>1. SUFFICES ASSUME NEW s \in o_accepted, o_queue' # <<>>, Head(o_queue') <= s
                 PROVE  InQueue(s)'
    OBVIOUS
  <2>2. Head(o_queue') = o_queue'[1] /\ 1 \in 1..Len(o_queue')
    BY <1>1, <2>1, HeadTailProperties, LenProperties, EmptySeq
  <2>3. o_queue[1] < s
    <3>1. o_queue'[1] \in o_accepted /\ o_queue[1] < o_queue'[1] /\ o_queue'[1] <= s
      BY <1>2, <2>1, <2>2
    <3>2. o_queue[1] \in Nat /\ o_queue'[1] \in Nat /\ s \in Nat
      BY <1>2, <2>1, <3>1 DEF QueueInv
    <3>3. QED
      BY <3>1, <3>2, LessThanNext, Zenon
  <2>4. InQueue(s)
    BY <1>1, <1>2, <2>3 DEF QueueInv
  <2>5. QED
    BY <1>2, <1>4, <2>3, <2>4 DEF QueueInv
<1>6. QED
  BY <1>1, <1>2, <1>3, <1>4, <1>5 DEF QueueInv

(* A sample that is accepted is newer than all before it.                  *)
LEMMA Received ==
  ASSUME QueueInv, Gimbal!Sample
  PROVE  /\ QueueInv'
         /\ o_received' = o_received + 1
         /\ \A s \in o_accepted' :
              s \in o_accepted \/ (s = 2 * o_received' /\ InQueue(s)')
         /\ \A s \in o_accepted : InQueue(s) => InQueue(s)'
         /\ \A i \in 1..Len(o_queue') :
              \/ o_queue'[i] = 2 * o_received'
              \/ i \in 1..Len(o_queue) /\ o_queue'[i] = o_queue[i]
         /\ o_queue # <<>> => o_queue' # <<>> /\ Head(o_queue') = Head(o_queue)
<1> DEFINE new == 2 * o_received'
<1>1. o_received' = o_received + 1 /\ new \in Nat /\ o_received \in Nat
  BY DEF QueueInv, Gimbal!Sample
<1>2. new = 2 * o_received + 2
  BY <1>1
<1> HIDE DEF new
<1>3. \A s \in o_accepted : s \in Nat /\ 0 < s /\ s < new
  BY <1>1, <1>2 DEF QueueInv
<1>4. 2 * o_received' = new
  BY <1>1, <1>2
<1>5. CASE UNCHANGED <<o_queue, o_accepted>>
  <2>1. \A s : InQueue(s)' <=> InQueue(s)
    BY <1>5 DEF InQueue
  <2>2. \A s \in o_accepted' : s \in Nat /\ 0 < s /\ s <= 2 * o_received'
    BY <1>1, <1>3, <1>4, <1>5
  <2>3. QueueInv'
    BY <1>1, <1>5, <2>1, <2>2 DEF QueueInv
  <2>4. QED
    BY <1>1, <1>5, <2>1, <2>3, Zenon
<1>6. CASE o_queue' = Append(o_queue, new) /\ o_accepted' = o_accepted \cup {new}
  <2>1. o_queue \in Seq(Nat)
    BY DEF QueueInv
  <2>2. /\ o_queue' \in Seq(Nat) /\ Len(o_queue) \in Nat
        /\ Len(o_queue') = Len(o_queue) + 1
        /\ \A i \in 1..Len(o_queue) : o_queue'[i] = o_queue[i]
        /\ o_queue'[Len(o_queue')] = new
    BY <1>1, <1>6, <2>1, AppendProperties, LenProperties
  <2>3. \A i \in 1..Len(o_queue') :
          \/ i = Len(o_queue') /\ o_queue'[i] = new
          \/ i \in 1..Len(o_queue) /\ o_queue'[i] = o_queue[i]
    BY <2>2
  <2>4. \A s \in o_accepted : InQueue(s) => InQueue(s)'
    BY <2>2 DEF InQueue
  <2>5. \A s : s = new => InQueue(s)'
    <3>1. Len(o_queue') \in 1..Len(o_queue')
      BY <2>2
    <3>2. \E i \in 1..Len(o_queue') : o_queue'[i] = new
      BY <2>2, <3>1
    <3>3. QED
      BY <3>2 DEF InQueue
  <2>7. o_queue # <<>> => o_queue' # <<>> /\ Head(o_queue') = Head(o_queue)
    BY <1>1, <1>6, <2>1
  <2>8. /\ \A s \in o_accepted' : s \in Nat /\ 0 < s /\ s <= 2 * o_received'
        /\ \A i \in 1..Len(o_queue') : o_queue'[i] \in o_accepted'
    BY <1>1, <1>3, <1>4, <1>6, <2>3 DEF QueueInv
  <2>9. \A i, j \in 1..Len(o_queue') : i < j => o_queue'[i] < o_queue'[j]
    <3>1. \A i \in 1..Len(o_queue) : o_queue[i] < new
      BY <1>3 DEF QueueInv
    <3>2. \A i, j \in 1..Len(o_queue) : i < j => o_queue[i] < o_queue[j]
      BY DEF QueueInv
    <3>3. SUFFICES ASSUME NEW i \in 1..Len(o_queue'), NEW j \in 1..Len(o_queue'),
                          i < j
                   PROVE  o_queue'[i] < o_queue'[j]
      OBVIOUS
    <3>4. i \in 1..Len(o_queue) /\ o_queue'[i] = o_queue[i]
      BY <2>2, <3>3
    <3>5. QED
      BY <2>3, <3>1, <3>2, <3>3, <3>4
  <2>10. \A s \in o_accepted' : o_queue' # <<>> /\ Head(o_queue') <= s => InQueue(s)'
    <3>1. CASE o_queue = <<>>
      <4>1. Head(o_queue') = new
        BY <1>1, <1>6, <3>1
      <4>2. \A s \in o_accepted' : new <= s => s = new
        BY <1>1, <1>3, <1>6
      <4>3. QED
        BY <2>5, <4>1, <4>2, Zenon
    <3>2. CASE o_queue # <<>>
      BY <1>6, <2>4, <2>5, <2>7, <3>2, Zenon DEF QueueInv
    <3>3. QED
      BY <3>1, <3>2
  <2>11. QED
    <3>1. QueueInv'
      BY <1>1, <2>2, <2>8, <2>9, <2>10 DEF QueueInv
    <3>2. \A s \in o_accepted' : s \in o_accepted \/ (s = new /\ InQueue(s)')
      BY <1>6, <2>5, Zenon
    <3>3. \A i \in 1..Len(o_queue') :
             \/ o_queue'[i] = new
             \/ i \in 1..Len(o_queue) /\ o_queue'[i] = o_queue[i]
      BY <2>3, Zenon
    <3>4. QED
      BY <1>1, <1>4, <2>4, <2>7, <3>1, <3>2, <3>3, Zenon
<1>7. QED
  <2>1. \/ UNCHANGED <<o_queue, o_accepted>>
        \/ o_queue' = Append(o_queue, new) /\ o_accepted' = o_accepted \cup {new}
    BY <1>4, SentryAssumption
       DEF Gimbal!Sample, Gimbal!Pushed, Gimbal!OrientationAssumption, QueueInv
  <2>2. QED
    BY <1>5, <1>6, <2>1

(* What taking the front means for the stamps of a pair.                   *)
LEMMA FrontTaken ==
  ASSUME QueueInv, o_queue # <<>>, o_queue' = Tail(o_queue),
         UNCHANGED <<o_received, o_accepted>>
  PROVE  /\ Head(o_queue) \in Nat /\ 0 < Head(o_queue)
         /\ Head(o_queue) <= 2 * o_received
         /\ \A x : x = Head(o_queue) => After(x)'
         /\ \A x \in Nat : After(x) => x < Head(o_queue)
         /\ \A x \in Nat : Kept(x) =>
              \A s \in o_accepted : s <= x \/ Head(o_queue) <= s
         /\ \A x : x = Head(o_queue) => Kept(x)'
<1>1. /\ Head(o_queue) \in o_accepted
      /\ \A i \in 1..Len(o_queue') : Head(o_queue) < o_queue'[i]
      /\ \A s \in o_accepted : InQueue(s) => Head(o_queue) <= s
      /\ \A s \in o_accepted : InQueue(s) /\ s # Head(o_queue) => InQueue(s)'
  BY Taken
<1>2. /\ Head(o_queue) \in Nat /\ 0 < Head(o_queue)
      /\ Head(o_queue) <= 2 * o_received
      /\ \A s \in o_accepted : s \in Nat
  BY <1>1 DEF QueueInv
<1>3. \A x \in Nat : After(x) => x < Head(o_queue)
  <2>1. Head(o_queue) = o_queue[1] /\ 1 \in 1..Len(o_queue)
    BY HeadTailProperties, LenProperties, EmptySeq DEF QueueInv
  <2>2. QED
    BY <2>1 DEF After
<1>4. \A x : x = Head(o_queue) => After(x)'
  BY <1>1 DEF After
<1>5. \A x \in Nat : Kept(x) => \A s \in o_accepted : s <= x \/ Head(o_queue) <= s
  BY <1>1, <1>2 DEF Kept
<1>6. \A s \in o_accepted : Head(o_queue) <= s => InQueue(s)
  BY DEF QueueInv
<1>7. \A y : y = Head(o_queue) => Kept(y)'
  <2>1. SUFFICES ASSUME NEW s \in o_accepted, Head(o_queue) < s
                 PROVE  InQueue(s)'
    BY DEF Kept
  <2>2. Head(o_queue) <= s /\ s # Head(o_queue)
    BY <1>2, <2>1
  <2>3. QED
    BY <1>1, <1>6, <2>2
<1>8. QED
  BY <1>2, <1>3, <1>4, <1>5, <1>7

LEMMA OrientationStep ==
  ASSUME OrientationInv, [Gimbal!Next]_gimbalVars
  PROVE  OrientationInv'
<1> USE DEF OrientationInv
<1>1. CASE Gimbal!Sample
  <2>1. QueueInv'
    BY <1>1, Received
  <2>2. /\ o_received \in Nat /\ o_received' = o_received + 1
        /\ UNCHANGED <<o_device, o_ahead, o_behind, o_reader, o_asked,
                       o_latest, o_fresh, o_cleared>>
        /\ o_ahead \in Nat /\ o_behind \in Nat
        /\ o_ahead <= 2 * o_received /\ o_behind <= 2 * o_received
    BY <1>1 DEF Gimbal!Sample, Gimbal!historyVars, QueueInv, PairInv
  <2>3. \A x \in Nat : x <= 2 * o_received =>
          /\ x <= 2 * o_received' /\ x < 2 * o_received'
          /\ After(x) => After(x)'
          /\ Kept(x) => Kept(x)'
          /\ (\A s \in o_accepted : x <= s) => \A s \in o_accepted' : x <= s
          /\ AtFront(x) => AtFront(x)'
    <3>1. SUFFICES ASSUME NEW x \in Nat, x <= 2 * o_received
                   PROVE  /\ x <= 2 * o_received' /\ x < 2 * o_received'
                          /\ After(x) => After(x)'
                          /\ Kept(x) => Kept(x)'
                          /\ (\A s \in o_accepted : x <= s)
                               => \A s \in o_accepted' : x <= s
                          /\ AtFront(x) => AtFront(x)'
      OBVIOUS
    <3>2. x <= 2 * o_received' /\ x < 2 * o_received'
      BY <2>2, <3>1
    <3>3. After(x) => After(x)'
      BY <1>1, <3>2, Received DEF After
    <3>4. Kept(x) => Kept(x)'
      BY <1>1, Received, Zenon DEF Kept
    <3>5. (\A s \in o_accepted : x <= s) => \A s \in o_accepted' : x <= s
      BY <1>1, <3>2, Received
    <3>6. AtFront(x) => AtFront(x)'
      BY <1>1, Received, Zenon DEF AtFront
    <3>7. QED
      BY <3>2, <3>3, <3>4, <3>5, <3>6
  <2>4. Gimbal!Adjacent => Gimbal!Adjacent'
    <3>1. \A s \in o_accepted' : s \in o_accepted \/ s = 2 * o_received'
      BY <1>1, Received
    <3>2. QED
      BY <2>2, <2>3, <3>1 DEF Gimbal!Adjacent
  <2>5. ImuInv => ImuInv'
    BY <2>2, <2>3, <2>4 DEF ImuInv
  <2>6. GimbalInv => GimbalInv'
    BY <2>2, <2>3, <2>4 DEF GimbalInv
  <2>7. QED
    BY <2>1, <2>2, <2>3, <2>5, <2>6 DEF PairInv
<1>2. CASE Gimbal!Reconnect
  <2>1. /\ o_device = "gimbal" /\ o_queue' = <<>> /\ o_cleared' = TRUE
        /\ o_fresh' = (o_fresh /\ o_reader = "answer")
        /\ UNCHANGED <<o_device, o_received, o_accepted, o_ahead, o_behind,
                       o_reader, o_asked, o_latest>>
    BY <1>2 DEF Gimbal!Reconnect
  <2>2. QueueInv'
    BY <2>1 DEF QueueInv
  <2>3. \A x : After(x)'
    BY <2>1 DEF After
  <2>4. Gimbal!Adjacent => Gimbal!Adjacent'
    BY <2>1 DEF Gimbal!Adjacent
  <2>5. GimbalInv'
    BY <2>1, <2>3, <2>4, Zenon DEF GimbalInv, PairInv
  <2>6. QED
    BY <2>1, <2>2, <2>5 DEF PairInv
<1>3. CASE \/ Gimbal!WaitForFirst \/ Gimbal!WaitForSecond
           \/ Gimbal!PopBehind \/ Gimbal!PopAhead
  <2>1. /\ o_queue # <<>> /\ o_queue' = Tail(o_queue)
        /\ UNCHANGED <<o_device, o_received, o_accepted, o_asked, o_latest,
                       o_fresh, o_cleared>>
    BY <1>3 DEF Gimbal!WaitForFirst, Gimbal!WaitForSecond, Gimbal!PopBehind,
                Gimbal!PopAhead, Gimbal!CanPop, Gimbal!Popped, Gimbal!historyVars
  <2>2. QueueInv'
    BY <2>1, Taken
  <2> DEFINE front == Head(o_queue)
  <2>3. /\ front \in Nat /\ 0 < front /\ front <= 2 * o_received
        /\ \A x : x = front => After(x)' /\ Kept(x)'
        /\ \A x \in Nat : After(x) => x < front
        /\ \A x \in Nat : Kept(x) => \A s \in o_accepted : s <= x \/ front <= s
    BY <2>1, FrontTaken
  <2> HIDE DEF front
  <2>4. /\ \A s \in o_accepted : s \in Nat /\ 0 < s
        /\ o_received \in Nat
    BY DEF QueueInv
  <2>5. CASE Gimbal!WaitForFirst /\ o_device = "imu"
    <3>1. /\ o_reader = "first" /\ o_ahead' = front /\ o_reader' = "second"
          /\ UNCHANGED o_behind
      BY <2>5 DEF Gimbal!WaitForFirst, Gimbal!Front, front
    <3>2. ImuInv /\ Kept(0)
      BY <2>5, <3>1 DEF PairInv, ImuInv
    <3>3. \A s \in o_accepted : front <= s
      BY <2>3, <2>4, <3>2
    <3>4. ImuInv'
      BY <2>1, <2>3, <3>1, <3>2, <3>3 DEF ImuInv
    <3>5. QED
      BY <2>1, <2>2, <2>3, <2>5, <3>1, <3>4 DEF PairInv
  <2>6. CASE Gimbal!WaitForFirst /\ o_device = "gimbal"
    <3>1. o_reader = "first" /\ o_reader' = "idle" /\ UNCHANGED <<o_ahead, o_behind>>
      BY <2>6 DEF Gimbal!WaitForFirst
    <3>2. GimbalInv /\ o_behind = 0
      BY <2>6, <3>1 DEF PairInv, GimbalInv
    <3>3. GimbalInv'
      BY <3>1, <3>2 DEF GimbalInv
    <3>4. QED
      BY <2>1, <2>2, <2>6, <3>1, <3>3 DEF PairInv
  <2>7. CASE Gimbal!WaitForSecond
    <3>1. /\ o_reader = "second" /\ o_behind' = front /\ o_reader' = "idle"
          /\ UNCHANGED o_ahead
      BY <2>7 DEF Gimbal!WaitForSecond, Gimbal!Front, front
    <3>2. o_device = "imu" /\ ImuInv
      BY <3>1 DEF PairInv, GimbalInv
    <3>3. ImuInv'
      BY <2>1, <2>3, <3>1, <3>2 DEF ImuInv
    <3>4. QED
      BY <2>1, <2>2, <2>3, <3>1, <3>2, <3>3 DEF PairInv
  <2>8. CASE Gimbal!PopBehind
    <3>1. /\ o_device = "imu" /\ o_reader = "pop" /\ o_behind' = front
          /\ IF front > o_asked
             THEN o_reader' = "answer" /\ UNCHANGED o_ahead
             ELSE o_ahead' = front /\ UNCHANGED o_reader
      BY <2>8 DEF Gimbal!PopBehind, Gimbal!Front, front
    <3>2. /\ ImuInv /\ o_ahead \in Nat /\ o_behind \in Nat /\ o_asked \in Nat
          /\ o_latest \in Nat /\ o_ahead <= 2 * o_received
      BY <3>1 DEF PairInv
    <3>3. CASE front > o_asked
      <4>1. o_fresh => o_ahead = o_behind /\ o_ahead <= o_asked
        BY <3>1, <3>2 DEF ImuInv
      <4>2. \A s \in o_accepted : s <= o_behind \/ front <= s
        BY <2>3, <3>1, <3>2 DEF ImuInv
      <4>3. o_fresh => Gimbal!Adjacent'
        BY <2>1, <2>3, <2>4, <3>1, <3>2, <3>3, <4>1, <4>2 DEF Gimbal!Adjacent
      <4>4. ImuInv'
        BY <2>1, <2>3, <3>1, <3>2, <3>3, <4>1, <4>3 DEF ImuInv
      <4>5. QED
        BY <2>1, <2>2, <2>3, <3>1, <3>2, <3>3, <4>4 DEF PairInv
    <3>4. CASE ~(front > o_asked)
      <4>1. ImuInv'
        BY <2>1, <2>3, <3>1, <3>2, <3>4 DEF ImuInv
      <4>2. QED
        BY <2>1, <2>2, <2>3, <3>1, <3>2, <3>4, <4>1 DEF PairInv
    <3>5. QED
      BY <3>3, <3>4
  <2>9. CASE Gimbal!PopAhead
    <3>1. /\ o_device = "gimbal" /\ o_reader = "pop" /\ o_ahead' = front
          /\ o_reader' = "front" /\ UNCHANGED o_behind
      BY <2>9 DEF Gimbal!PopAhead, Gimbal!Front, front
    <3>2. GimbalInv
      BY <3>1 DEF PairInv
    <3>3. o_fresh => front < o_asked
      BY <3>1, <3>2 DEF GimbalInv, AtFront, front
    <3>4. GimbalInv'
      BY <2>1, <2>3, <3>1, <3>3 DEF GimbalInv
    <3>5. QED
      BY <2>1, <2>2, <2>3, <3>1, <3>4 DEF PairInv
  <2>10. QED
    BY <1>3, <2>5, <2>6, <2>7, <2>8, <2>9 DEF PairInv
<1>4. ASSUME NEW t \in Gimbal!Times, Gimbal!Ask(t)
      PROVE  OrientationInv'
  <2>1. /\ t \in Nat /\ o_reader = "idle" /\ o_reader' = "pop" /\ o_asked' = t
        /\ o_fresh' = (o_behind # 0 /\ o_behind < t /\ ~o_cleared)
        /\ o_ahead' = IF o_device = "imu" /\ o_behind < t THEN o_behind ELSE o_ahead
        /\ UNCHANGED <<o_device, o_received, o_accepted, o_queue, o_behind,
                       o_latest, o_cleared>>
    BY <1>4, SentryAssumption
       DEF Gimbal!Ask, Gimbal!Times, Gimbal!OrientationAssumption
  <2>2. QueueInv'
    BY <2>1 DEF QueueInv, InQueue
  <2>3. /\ After(o_behind) => After(o_behind)'
        /\ Kept(o_behind) => Kept(o_behind)'
        /\ AtFront(o_behind) => AtFront(o_behind)'
    BY <2>1 DEF After, Kept, InQueue, AtFront
  <2>4. CASE o_device = "imu"
    <3>1. ImuInv /\ o_ahead \in Nat /\ o_behind \in Nat
      BY <2>4 DEF PairInv
    <3>2. /\ ~o_cleared' /\ After(o_behind)' /\ Kept(o_behind)'
          /\ o_fresh' => o_behind < t
      BY <2>1, <2>3, <3>1 DEF ImuInv
    <3>3. /\ o_ahead' <= o_latest' \/ o_ahead' <= t
                                 \/ \A s \in o_accepted' : o_ahead' <= s
          /\ o_behind < t => o_ahead' = o_behind
      BY <2>1, <2>4, <3>1 DEF ImuInv
    <3>4. ImuInv'
      BY <2>1, <3>1, <3>2, <3>3 DEF ImuInv
    <3>5. QED
      BY <2>1, <2>2, <2>4, <3>1, <3>4 DEF PairInv
  <2>5. CASE o_device = "gimbal"
    <3>1. GimbalInv
      BY <2>5 DEF PairInv
    <3>2. GimbalInv'
      BY <2>1, <2>3, <2>5, <3>1 DEF GimbalInv
    <3>3. QED
      BY <2>1, <2>2, <2>5, <3>2 DEF PairInv
  <2>6. QED
    BY <2>4, <2>5 DEF PairInv
<1>5. CASE Gimbal!LookBehind
  <2> DEFINE front == Head(o_queue)
  <2>1. /\ o_reader = "front" /\ o_queue # <<>> /\ o_behind' = front
        /\ o_reader' = IF \/ o_asked < o_ahead
                          \/ o_ahead < o_asked /\ o_asked <= front
                       THEN "answer" ELSE "pop"
        /\ UNCHANGED <<o_device, o_received, o_accepted, o_queue, o_ahead,
                       o_asked, o_latest, o_fresh>>
    BY <1>5 DEF Gimbal!LookBehind, Gimbal!CanPop, Gimbal!Front
  <2>2. o_device = "gimbal" /\ GimbalInv /\ o_ahead \in Nat /\ o_asked \in Nat
    BY <2>1 DEF PairInv, ImuInv
  <2>3. QueueInv'
    BY <2>1 DEF QueueInv, InQueue
  <2>4. /\ front = o_queue[1] /\ 1 \in 1..Len(o_queue)
        /\ front \in Nat /\ front <= 2 * o_received
    BY <2>1, HeadTailProperties, LenProperties, EmptySeq DEF QueueInv
  <2>5. AtFront(o_behind)'
    BY <2>1 DEF AtFront
  <2>6. o_ahead < front
    BY <2>1, <2>2, <2>4 DEF GimbalInv, After
  <2>7. \A s \in o_accepted : InQueue(s) => front <= s
    BY <2>4 DEF QueueInv, InQueue
  <2> HIDE DEF front
  <2>8. o_fresh => Gimbal!Adjacent'
    <3>1. SUFFICES ASSUME o_fresh, NEW s \in o_accepted, o_ahead < s
                   PROVE  ~(s < front)
      BY <2>1 DEF Gimbal!Adjacent
    <3>2. s \in Nat /\ InQueue(s)
      BY <2>1, <2>2, <3>1 DEF GimbalInv, Kept, QueueInv
    <3>3. QED
      BY <2>4, <2>7, <3>2
  <2>9. o_fresh => o_ahead < o_asked
    BY <2>1, <2>2 DEF GimbalInv
  <2>10. GimbalInv'
    BY <2>1, <2>2, <2>4, <2>5, <2>6, <2>8, <2>9 DEF GimbalInv
  <2>11. QED
    BY <2>1, <2>2, <2>3, <2>4, <2>10 DEF PairInv
<1>6. CASE Gimbal!Answer
  <2>1. /\ o_reader = "answer" /\ o_reader' = "idle"
        /\ o_latest' = IF o_asked > o_latest THEN o_asked ELSE o_latest
        /\ UNCHANGED <<o_device, o_received, o_accepted, o_queue, o_ahead,
                       o_behind, o_asked, o_fresh, o_cleared>>
    BY <1>6 DEF Gimbal!Answer
  <2>2. QueueInv'
    BY <2>1 DEF QueueInv, InQueue
  <2>3. /\ After(o_behind) => After(o_behind)'
        /\ Kept(o_behind) => Kept(o_behind)'
        /\ AtFront(o_behind) => AtFront(o_behind)'
    BY <2>1 DEF After, Kept, InQueue, AtFront
  <2>4. o_ahead \in Nat /\ o_asked \in Nat /\ o_latest \in Nat
    BY DEF PairInv
  <2>5. ImuInv => ImuInv'
    BY <2>1, <2>3, <2>4 DEF ImuInv
  <2>6. GimbalInv => GimbalInv'
    BY <2>1, <2>3 DEF GimbalInv
  <2>7. QED
    BY <2>1, <2>2, <2>4, <2>5, <2>6 DEF PairInv
<1>7. CASE UNCHANGED gimbalVars
  BY <1>7 DEF gimbalVars, QueueInv, PairInv, ImuInv, GimbalInv, After, Kept,
              InQueue, AtFront, Gimbal!Adjacent
<1>8. QED
  BY <1>1, <1>2, <1>3, <1>4, <1>5, <1>6, <1>7 DEF Gimbal!Next

LEMMA OrientationBrackets == OrientationInv => Brackets
BY DEF OrientationInv, QueueInv, PairInv, ImuInv, GimbalInv, Brackets,
       Gimbal!Brackets, Gimbal!Covered

-----------------------------------------------------------------------------
(* The tracker of the sentry.                                              *)
OmniTypeOK ==
  /\ t_state \in Omni!States
  /\ t_preState \in Omni!States
  /\ t_detectCount \in Nat
  /\ t_tempLostCount \in Nat
  /\ t_unseen \in Nat

(* There is a target whenever the state says so.                           *)
HasTargetInv == t_state # "lost" => t_target \in Kinds

(* A target that is not seen is as old as the count that limits it says,   *)
(* or younger: temp_lost_count_ goes on from an earlier switch.            *)
AgeInv ==
  /\ t_state = "tracking" => t_unseen = 0
  /\ t_state = "temp_lost" =>
       t_unseen <= t_tempLostCount /\ t_tempLostCount <= MaxLost
  /\ t_state = "switching" =>
       t_unseen <= t_tempLostCount /\ t_tempLostCount <= MaxSwitch
  /\ t_state = "detecting" =>
       t_unseen <= (IF t_preState = "switching" THEN MaxSwitch + 1 ELSE 0)

OmniInv == OmniTypeOK /\ HasTargetInv /\ AgeInv

(* The frame that takes the tracker from state s to state "to".            *)
OmniFrame(armors, omni, s, found, from, to) ==
  /\ s \in {"lost", t_state}
  /\ Omni!Look(s, armors, omni, found, from)
  /\ t_preState' = from
  /\ Omni!StateMachine(from, found, to)
  /\ t_unseen' = IF to = "lost" \/ (found /\ from # "switching")
               THEN 0 ELSE t_unseen + 1

-----------------------------------------------------------------------------
(* After a frame that does not end in "lost" there is a target.            *)
LEMMA FrameHasTarget ==
  ASSUME NEW armors \in SUBSET Kinds, NEW omni, NEW s, NEW found \in BOOLEAN,
         NEW from \in Omni!States, NEW to \in Omni!States,
         OmniInv, OmniFrame(armors, omni, s, found, from, to), to # "lost"
  PROVE  t_target' \in Kinds
<1>1. CASE s = "lost" \/ Omni!SetTarget(armors, found)
  <2>1. Omni!SetTarget(armors, found) /\ (s = "lost" => found)
    BY <1>1
       DEF OmniFrame, Omni!Look, Omni!HigherInView, Omni!HigherAround,
           Omni!StateMachine, Omni!Detect, Omni!Switch, Omni!Keep
  <2>2. CASE found
    BY <2>1, <2>2 DEF Omni!SetTarget, Omni!Foremost
  <2>3. CASE ~found
    BY <2>1, <2>3
       DEF OmniFrame, Omni!SetTarget, OmniInv, HasTargetInv, Omni!targetVars
  <2>4. QED
    BY <2>2, <2>3
<1>2. CASE s = t_state /\ s # "lost" /\ ~Omni!SetTarget(armors, found)
  <2>1. t_target' = t_target
    BY <1>2 DEF OmniFrame, Omni!Look, Omni!UpdateTarget, Omni!targetVars
  <2>2. QED
    BY <1>2, <2>1 DEF OmniInv, HasTargetInv
<1>3. QED
  BY <1>1, <1>2 DEF OmniFrame

(* The state that a frame ends in limits the age of the target.            *)
LEMMA FrameKeepsAge ==
  ASSUME Omni!OmniAssumption,
         NEW armors, NEW omni, NEW s, NEW found \in BOOLEAN,
         NEW from \in Omni!States, NEW to \in Omni!States,
         OmniInv, OmniFrame(armors, omni, s, found, from, to)
  PROVE  /\ t_tempLostCount' \in Nat /\ t_detectCount' \in Nat /\ t_unseen' \in Nat
         /\ to = "tracking" => t_unseen' = 0
         /\ to = "temp_lost" =>
              t_unseen' <= t_tempLostCount' /\ t_tempLostCount' <= MaxLost
         /\ to = "switching" =>
              t_unseen' <= t_tempLostCount' /\ t_tempLostCount' <= MaxSwitch
         /\ to = "detecting" =>
              t_unseen' <= (IF t_preState' = "switching" THEN MaxSwitch + 1 ELSE 0)
<1> USE DEF Omni!OmniAssumption
<1>1. s \in Omni!States /\ t_preState' = from
  BY DEF OmniFrame, OmniInv, OmniTypeOK, Omni!States
<1>2. \/ from = s
      \/ from = "switching" /\ s = "tracking" /\ ~found
  BY DEF OmniFrame, Omni!Look, Omni!HigherAround
<1>3. /\ t_unseen \in Nat /\ t_tempLostCount \in Nat /\ t_detectCount \in Nat
      /\ t_unseen' = IF to = "lost" \/ (found /\ from # "switching")
                   THEN 0 ELSE t_unseen + 1
      /\ MaxLost \in Nat \ {0} /\ MaxSwitch \in Nat \ {0}
      /\ MinDetect \in Nat \ {0}
  BY DEF OmniFrame, OmniInv, OmniTypeOK
<1>4. from # "lost" => s = t_state
  BY <1>2 DEF OmniFrame
<1>5. CASE Omni!Detect(from, found, to) /\ UNCHANGED t_tempLostCount
  BY <1>1, <1>3, <1>5 DEF Omni!Detect
<1>6. CASE Omni!Switch(from, found, to) /\ UNCHANGED t_detectCount
  <2>1. from = "switching" /\ s = t_state
    BY <1>4, <1>6 DEF Omni!Switch
  <2>2. t_unseen <= t_tempLostCount
    <3>1. t_state \in {"switching", "tracking"}
      BY <1>2, <2>1
    <3>2. QED
      BY <1>3, <3>1 DEF OmniInv, AgeInv
  <2>3. t_state = "switching" \/ ~found
    BY <1>2, <2>1
  <2>4. found => t_unseen <= MaxSwitch
    BY <1>3, <2>3 DEF OmniInv, AgeInv
  <2>5. t_unseen' = IF to = "lost" THEN 0 ELSE t_unseen + 1
    BY <1>3, <2>1
  <2>6. QED
    BY <1>1, <1>3, <1>6, <2>1, <2>2, <2>4, <2>5 DEF Omni!Switch
<1>7. CASE Omni!Keep(from, found, to) /\ UNCHANGED t_detectCount
  <2>1. from = t_state
    BY <1>2, <1>4, <1>7 DEF Omni!Keep
  <2>2. /\ t_state = "tracking" => t_unseen = 0
        /\ t_state = "temp_lost" => t_unseen <= t_tempLostCount
    BY DEF OmniInv, AgeInv
  <2>3. QED
    BY <1>1, <1>3, <1>7, <2>1, <2>2 DEF Omni!Keep
<1>8. QED
  BY <1>5, <1>6, <1>7 DEF OmniFrame, Omni!StateMachine

-----------------------------------------------------------------------------
LEMMA TrackPreserves ==
  ASSUME Omni!OmniAssumption,
         NEW armors \in SUBSET Kinds, NEW omni, NEW longGap \in BOOLEAN,
         OmniInv, Omni!Track(armors, omni, longGap)
  PROVE  OmniInv'
<1> DEFINE s == IF longGap THEN "lost" ELSE t_state
<1>1. PICK found \in BOOLEAN, diverged \in BOOLEAN,
           from \in Omni!States, to \in Omni!States :
        /\ OmniFrame(armors, omni, s, found, from, to)
        /\ t_state' = IF diverged THEN "lost" ELSE to
  BY DEF Omni!Track, OmniFrame
<1> HIDE DEF s
<1>2. t_preState' = from
  BY <1>1 DEF OmniFrame
<1>3. to # "lost" => t_target' \in Kinds
  BY <1>1, FrameHasTarget
<1>4. /\ t_tempLostCount' \in Nat /\ t_detectCount' \in Nat /\ t_unseen' \in Nat
      /\ to = "tracking" => t_unseen' = 0
      /\ to = "temp_lost" =>
           t_unseen' <= t_tempLostCount' /\ t_tempLostCount' <= MaxLost
      /\ to = "switching" =>
           t_unseen' <= t_tempLostCount' /\ t_tempLostCount' <= MaxSwitch
      /\ to = "detecting" =>
           t_unseen' <= (IF t_preState' = "switching" THEN MaxSwitch + 1 ELSE 0)
  BY <1>1, FrameKeepsAge
<1>5. t_state' = to \/ t_state' = "lost"
  BY <1>1
<1>6. OmniTypeOK'
  BY <1>2, <1>4, <1>5 DEF OmniTypeOK, Omni!States
<1>7. HasTargetInv'
  BY <1>3, <1>5 DEF HasTargetInv
<1>8. AgeInv'
  BY <1>4, <1>5 DEF AgeInv
<1>9. QED
  BY <1>6, <1>7, <1>8 DEF OmniInv

LEMMA OmniInit == Omni!Init => OmniInv
BY DEF Omni!Init, OmniInv, OmniTypeOK, HasTargetInv, AgeInv, Omni!States

LEMMA OmniStep == ASSUME OmniInv, [Omni!Next]_omniVars PROVE OmniInv'
<1>1. CASE Omni!Next
  BY <1>1, SentryAssumption, TrackPreserves DEF Omni!Next
<1>2. CASE UNCHANGED omniVars
  BY <1>2 DEF omniVars, OmniInv, OmniTypeOK, HasTargetInv, AgeInv
<1>3. QED
  BY <1>1, <1>2

LEMMA OmniIsRecent == OmniInv => Omni!TargetIsRecent
BY SentryAssumption
   DEF Omni!OmniAssumption, OmniInv, OmniTypeOK, HasTargetInv, AgeInv,
       Omni!TargetIsRecent, Omni!States

-----------------------------------------------------------------------------
(* mt_standard.  Images get older from the camera to the command: none in  *)
(* the queue is newer than the last that was pushed, none older than the   *)
(* targets, and no command of CommandGener is newer than these.  An image  *)
(* read for the power rune is newer than all of them.                      *)
CommandInv ==
  /\ m_reads \in Nat /\ m_image \in Nat /\ m_targets \in Nat /\ m_latest \in Nat
  /\ m_input \in Nat /\ m_aimed \in Nat /\ m_queue \in Seq(Nat)
  /\ m_rune \in Nat /\ m_sent \in Nat
  /\ m_targets <= m_image /\ m_image <= m_reads
  /\ \A i \in 1..Len(m_queue) : m_targets <= m_queue[i] /\ m_queue[i] <= m_image
  /\ \A i, j \in 1..Len(m_queue) : i < j => m_queue[i] <= m_queue[j]
  /\ m_aimed <= m_targets
  /\ m_latest # 0 => m_aimed <= m_latest /\ m_latest <= m_targets
  /\ m_gener = "aim" => /\ m_aimed <= m_input /\ m_input <= m_targets
                        /\ m_latest # 0 => m_input <= m_latest
  /\ m_rune <= m_reads /\ m_sent <= m_reads
  /\ m_main = "send" => m_sent <= m_rune /\ m_targets <= m_rune
  /\ m_main \in {"stop", "join_gener", "done"} => m_detect = "done"
  /\ m_main = "done" => m_gener = "done"

LEMMA CommandInit == Commands!Init => CommandInv
BY DEF Commands!Init, CommandInv

LEMMA CommandStep ==
  ASSUME CommandInv, [Commands!Next]_commandVars
  PROVE  CommandInv'
<1> USE DEF CommandInv, Commands!detectVars, Commands!mainVars, Commands!generVars
<1>1. CASE Commands!DetectTest
  BY <1>1 DEF Commands!DetectTest
<1>2. CASE Commands!DetectRead
  BY <1>2 DEF Commands!DetectRead, Commands!ReadCamera
<1>3. CASE Commands!DetectPush
  BY <1>3 DEF Commands!DetectPush, Commands!Pushed
<1>4. CASE Commands!MainTest
  BY <1>4 DEF Commands!MainTest
<1>5. CASE Commands!MainPop
  BY <1>5
     DEF Commands!MainPop, Commands!CanPop, Commands!Front, Commands!Popped
<1>6. CASE Commands!MainPush
  BY <1>6 DEF Commands!MainPush
<1>7. CASE Commands!MainBuff
  BY <1>7 DEF Commands!MainBuff, Commands!ReadCamera
<1>8. CASE \/ Commands!SendBuff \/ Commands!MainJoin \/ Commands!Stop
          \/ Commands!JoinGener
  BY <1>8 DEF Commands!SendBuff, Commands!MainJoin, Commands!Stop,
              Commands!JoinGener
<1>9. CASE Commands!GenerTest
  BY <1>9 DEF Commands!GenerTest
<1>10. CASE Commands!GenerTake
  BY <1>10 DEF Commands!GenerTake
<1>11. CASE Commands!GenerSends
  BY <1>11 DEF Commands!GenerSends
<1>12. CASE Commands!TargetsExpire
  BY <1>12 DEF Commands!TargetsExpire
<1>13. CASE \/ Commands!ModeChanges \/ Commands!Interrupt \/ UNCHANGED commandVars
  BY <1>13 DEF Commands!ModeChanges, Commands!Interrupt, commandVars
<1>14. QED
  BY <1>1, <1>2, <1>3, <1>4, <1>5, <1>6, <1>7, <1>8, <1>9, <1>10, <1>11, <1>12,
     <1>13 DEF Commands!Next, Commands!Detector, Commands!Main, Commands!Gener

-----------------------------------------------------------------------------
(* The cameras around the sentry.  A thread that has ended does not begin  *)
(* again.                                                                  *)
PerceptionInv ==
  /\ e_thread \in [Cameras -> {"test", "read", "infer", "done"}]
  /\ e_main = "destroyed" => \A camera \in Cameras : e_thread[camera] = "done"

LEMMA PerceptionInit == Perception!Init => PerceptionInv
BY DEF Perception!Init, PerceptionInv

LEMMA PerceptionStep ==
  ASSUME PerceptionInv, [Perception!Next]_perceptionVars
  PROVE  PerceptionInv'
<1>1. ASSUME NEW camera \in Cameras, Perception!Thread(camera)
      PROVE  PerceptionInv'
  BY <1>1 DEF Perception!Thread, Perception!TestStop, Perception!Read,
              Perception!Infer, PerceptionInv
<1>2. CASE Perception!Join
  BY <1>2 DEF Perception!Join, PerceptionInv
<1>3. CASE \/ Perception!TestEmpty \/ Perception!Pop \/ Perception!Stop
           \/ Perception!CameraChanges \/ UNCHANGED perceptionVars
  BY <1>3 DEF Perception!TestEmpty, Perception!Pop, Perception!Stop,
              Perception!CameraChanges, perceptionVars, PerceptionInv
<1>4. QED
  BY <1>1, <1>2, <1>3 DEF Perception!Next

-----------------------------------------------------------------------------
(* The power rune.  A filter that was not just made has missed no more     *)
(* frames than get_target() counts; as many frames as were refused in a    *)
(* row are counted as mistakes; and the time since the last shot or jump   *)
(* is at least that since last_fire_t_.                                    *)
RuneInv ==
  /\ b_firstIn \in [Rune!Sizes -> BOOLEAN]
  /\ b_unsolvable \in [Rune!Sizes -> BOOLEAN]
  /\ b_lostCount \in [Rune!Sizes -> 0..(RuneMaxLoss + 1)]
  /\ b_missed \in [Rune!Sizes -> 0..(RuneMaxLoss + 1)]
  /\ \A k \in Rune!Sizes : b_firstIn[k] \/ b_missed[k] <= b_lostCount[k]
  /\ \A k \in Rune!Sizes : b_unsolvable[k] \/ b_missed[k] <= RuneMaxLoss
  /\ b_mistakes \in 0..(MaxMistakes + 1) /\ b_held \in 0..b_mistakes
  /\ b_idle \in Nat /\ b_quiet \in Nat
  /\ b_idle <= (IF b_shoot \/ b_jump THEN 0 ELSE b_quiet)
  /\ b_shoot => b_quiet > FireGap

LEMMA RuneInit == Rune!Init => RuneInv
BY SentryAssumption DEF Rune!Init, Rune!RuneAssumption, RuneInv

LEMMA RuneStep == ASSUME RuneInv, [Rune!Next]_runeVars PROVE RuneInv'
<1> USE SentryAssumption DEF Rune!RuneAssumption, Rune!AtMost
<1>1. ASSUME NEW k \in Rune!Sizes, NEW d \in Rune!Steps, Rune!Frame(k, d)
      PROVE  RuneInv'
  <2>1. /\ b_firstIn' \in [Rune!Sizes -> BOOLEAN]
        /\ b_unsolvable' \in [Rune!Sizes -> BOOLEAN]
        /\ b_lostCount' \in [Rune!Sizes -> 0..(RuneMaxLoss + 1)]
        /\ b_missed' \in [Rune!Sizes -> 0..(RuneMaxLoss + 1)]
        /\ \A s \in Rune!Sizes : b_firstIn'[s] \/ b_missed'[s] <= b_lostCount'[s]
        /\ \A s \in Rune!Sizes : b_unsolvable'[s] \/ b_missed'[s] <= RuneMaxLoss
    <3>1. CASE Rune!Lose(k)
      BY <3>1 DEF Rune!Lose, RuneInv
    <3>2. CASE Rune!Forget(k)
      BY <3>2 DEF Rune!Forget, RuneInv
    <3>3. CASE Rune!Update(k)
      BY <3>3 DEF Rune!Update, RuneInv
    <3>4. QED
      BY <1>1, <3>1, <3>2, <3>3 DEF Rune!Frame, Rune!GetTarget
  <2>2. b_mistakes' \in 0..(MaxMistakes + 1) /\ b_held' \in 0..b_mistakes'
    BY <1>1 DEF Rune!Frame, Rune!Aim, Rune!NoAim, Rune!Unsolved, Rune!Jumps,
                Rune!Follows, Rune!Stays, RuneInv
  <2>3. /\ b_idle' \in Nat /\ b_quiet' \in Nat
        /\ b_idle' <= (IF b_shoot' \/ b_jump' THEN 0 ELSE b_quiet')
        /\ b_shoot' => b_quiet' > FireGap
    <3> DEFINE rested == IF b_shoot \/ b_jump THEN 0 ELSE b_quiet
    <3>1. /\ FireGap \in Nat /\ d \in {1, 2} /\ rested \in Nat
          /\ b_idle \in Nat /\ b_idle <= rested
      BY DEF Rune!Steps, RuneInv
    <3>2. b_quiet' = IF rested + d < FireGap + 1 THEN rested + d ELSE FireGap + 1
      BY <1>1 DEF Rune!Frame
    <3>3. CASE Rune!NoAim
               /\ b_idle' = IF b_idle + d < FireGap + 1
                            THEN b_idle + d ELSE FireGap + 1
      <4>1. b_shoot' = FALSE /\ b_jump' = FALSE
        BY <3>3 DEF Rune!NoAim
      <4>2. QED
        BY <3>1, <3>2, <3>3, <4>1
    <3>4. CASE /\ Rune!Unsolved \/ Rune!Jumps \/ Rune!Follows \/ Rune!Stays
               /\ Rune!Fire(d)
      <4>1. b_jump' => b_switching'
        BY <3>4, Zenon DEF Rune!Unsolved, Rune!Jumps, Rune!Follows, Rune!Stays
      <4>2. /\ b_shoot' <=> ~b_switching' /\ b_idle + d > FireGap
            /\ b_idle' = IF b_switching' \/ b_shoot' THEN 0
                         ELSE IF b_idle + d < FireGap + 1
                              THEN b_idle + d ELSE FireGap + 1
        BY <3>4 DEF Rune!Fire
      <4>3. QED
        BY <3>1, <3>2, <4>1, <4>2
    <3>5. QED
      BY <1>1, <3>3, <3>4 DEF Rune!Frame, Rune!Aim
  <2>4. QED
    BY <2>1, <2>2, <2>3 DEF RuneInv
<1>2. CASE UNCHANGED runeVars
  BY <1>2 DEF runeVars, RuneInv
<1>3. QED
  BY <1>1, <1>2 DEF Rune!Next

-----------------------------------------------------------------------------
(* All parts together.                                                     *)
IInv ==
  /\ CaptureInv
  /\ OrientationInv
  /\ OmniInv
  /\ CommandInv
  /\ PerceptionInv
  /\ RuneInv

(* A step is one of the part that runs, and the others stutter.            *)
LEMMA PartsStep ==
  [Next]_vars =>
    /\ [Capture!Next]_captureVars
    /\ [Gimbal!Next]_gimbalVars
    /\ [Omni!Next]_omniVars
    /\ [Commands!Next]_commandVars
    /\ [Perception!Next]_perceptionVars
    /\ [Rune!Next]_runeVars
<1>1. Next => /\ Capture!Next \/ UNCHANGED captureVars
              /\ Gimbal!Next \/ UNCHANGED gimbalVars
              /\ Omni!Next \/ UNCHANGED omniVars
              /\ Commands!Next \/ UNCHANGED commandVars
              /\ Perception!Next \/ UNCHANGED perceptionVars
              /\ Rune!Next \/ UNCHANGED runeVars
  BY Zenon DEF Next
<1>2. UNCHANGED vars => /\ UNCHANGED captureVars /\ UNCHANGED gimbalVars
                        /\ UNCHANGED omniVars /\ UNCHANGED commandVars
                        /\ UNCHANGED perceptionVars /\ UNCHANGED runeVars
  BY DEF vars
<1>3. QED
  BY <1>1, <1>2, Zenon

(* The inductive invariant of the parts.                                   *)
THEOREM InvariantHolds == Spec => []IInv
<1>1. Init => IInv
  BY CaptureInit, OrientationInit, OmniInit, CommandInit, PerceptionInit,
     RuneInit
     DEF Init, IInv
<1>2. IInv /\ [Next]_vars => IInv'
  BY PartsStep, CaptureStep, OrientationStep, OmniStep, CommandStep,
     PerceptionStep, RuneStep DEF IInv
<1>3. QED
  BY <1>1, <1>2, PTL DEF Spec

(* Whatever the driver and however often its device goes away, whenever    *)
(* mt_standard is interrupted and however many cameras there are around    *)
(* the sentry: no thread is lost or reads from a closed handle, and after  *)
(* the destructors nothing is left (CaptureDaemon, ~CommandGener,          *)
(* ~Perceptron).                                                           *)
THEOREM NoThreadIsLost == Spec => []ThreadsAreSound
<1>1. IInv => ThreadsAreSound
  BY DEF IInv, CaptureInv, CommandInv, PerceptionInv, ThreadsAreSound,
         Capture!CaptureIsSound, Capture!Joinable, Capture!Closed,
         Commands!NothingAfterStop, Perception!NothingAfterStop
<1>2. QED
  BY <1>1, InvariantHolds, PTL

(* An image gets the orientation of its own time, whatever samples the     *)
(* queue refused, for any length of the queue and any number of samples    *)
(* (imu_at, Gimbal::q).                                                    *)
THEOREM OrientationIsOfItsTime == Spec => []Brackets
BY OrientationBrackets, InvariantHolds, PTL DEF IInv

(* The sentry aims at what was seen not long ago; CommandGener does not go *)
(* back behind its own last command, nor the main loop of mt_standard with *)
(* one for the power rune behind any; and a rune is followed and shot at   *)
(* with the pauses the code means: for any limits and sizes of the queues  *)
(* (Tracker::track, CommandGener, auto_buff::Aimer::aim).                  *)
THEOREM AimStaysCurrent == Spec => []AimIsCurrent
<1>1. CommandInv => Commands!InOrder
  BY DEF CommandInv, Commands!InOrder
<1>2. RuneInv => Rune!RuneIsFollowed /\ Rune!ShotsAreSpaced
  BY SentryAssumption
     DEF RuneInv, Rune!RuneIsFollowed, Rune!ShotsAreSpaced, Rune!RuneAssumption
<1>3. IInv => AimIsCurrent
  BY <1>1, <1>2, OmniIsRecent DEF IInv, AimIsCurrent
<1>4. QED
  BY <1>3, InvariantHolds, PTL
=============================================================================
