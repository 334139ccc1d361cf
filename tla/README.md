# Verification of custom_client_auto_aim

TLA+ models, TLC runs and TLAPS proofs for the ROS 2 system this repository
builds: a RoboMaster custom client that receives video over UDP and telemetry
over MQTT, finds and tracks enemy armour, aims, and sends control commands back
over MQTT. Paths below are relative to the root of the repository; `A/` is
`src/auto_aim/` and `V/` is `src/custom_client_adapter/custom_client_adapter/`.

Run a model with `tlc -config MCAutoAim.cfg MCAutoAim.tla`, check a proof with
`tlapm SentryProofs.tla`. `PROJECT.json` lists every component, hazard, run,
mutant and theorem, and for every definition the lines of code it stands for.

## 1. The system

    UDP video --> rm_video --> /rm_video/image_processed --+
    0x0310 -----> rm_mqtt ---> /rm_mqtt/imu ---------------+--> custom_client
                               /rm_mqtt/self_is_red -------+         |
    0x0311 <----- rm_mqtt <----------------- /auto_aim/result <------+

Three processes, all topics best effort. Only these are in the default build;
`A/` also keeps the main programs, drivers and algorithms of the project it
grew from.

### Inventory

Each entry says what the component keeps, what it does, how it meets the
others, what is hard about it, and what makes it correct.

**AUVClient, results** (`A/io/auv_client.cpp`). State: `self_is_red_` and its
revision, the times of the last result, `watchdog_result_sent_`. Operations:
`publish`, `self_is_red_callback`, `watchdog_callback`. The main thread
publishes, a single-threaded executor runs the callbacks; `result_mutex_`
covers publication, `team_color_mutex_` single reads and writes. Hard: the
colour changes while a command is computed or published; the main thread hangs.
Correct when a revoked command never stands again, a command aims at an enemy,
and no command outlives the watchdog. Module `ResultGate`.

**AUVClient, input** (same file). State: one image, a bounded IMU history, the
consumed sequence number. Operations: `image_callback`, `imu_callback`, `read`
with its two waits. Hard: a wait gives up the mutex; images and samples arrive
late, and one may be trimmed that another needs. Correct when image and sample
belong together, and nothing is skipped or lost to a bound. Module `FrameInput`.

**AUVClient, debug image worker** (same file). State: `pending_debug_frame_`,
`debug_stopping_`. Operations: `publish_debug`, `debug_worker`, the destructor.
Hard: it is notified after the mutex was released, and stopped while an image
waits. Correct when it is a mailbox that gives the latest image and its end does
not hang. Module `DebugImages`, which implements `Mailbox`.

**custom_client main loop** (`A/src/custom_client.cpp`). State: the active
colour, the input size. Reads, takes the colour, sets the tracker, detects,
tracks, aims, shoots, publishes; most early exits publish a safe result. Part
of `ResultGate`.

**Tracker** (`A/tasks/auto_aim/tracker.cpp`). State: `state_`, three counters,
`target_`, `enemy_color_`. Operations: `track`, `set_enemy_color`. Hard: which
counter is reset when, over losses, gaps, colour changes and kinds with limits
of their own. Correct when a target it returns was acquired, confirmed where
that is claimed, of the enemy colour, and not predicted for too long. Module
`Tracker`.

**Target, Aimer, Shooter** (`A/tasks/auto_aim/target.cpp`, `aimer.cpp`,
`shooter.cpp`). State: which plate of the target was seen last, whether it
jumped, which plates of an outpost are known; `lock_id_`; `last_command_`.
Operations: the discrete part of `update`, `Aimer::aim` with its iterations for
the time of flight, `choose_aim_point`, `shoot`. Hard: indices and commands that
outlive the target or the frame they were made for. Correct when the aim stays
with one of two plates, an outpost's plate is aimed at only when it was seen,
and a shot leaves with the gimbal near the command of its own frame. Module `AutoAim`.

**Kalman filter, Solver, trajectory, YOLO**: floating point. `Tracker` uses the
verdicts of the filter, `AutoAim` that a trajectory exists or not, `ResultGate`
any command the targets allow.

**VideoDecoder, data** (`V/src/video_decoder.cpp`). State: reassembly slots, the
discontinuity flag, the bounded queue, statistics. Operations:
`process_datagram`, `get_or_create_assembly`, `expire_assemblies`,
`submit_frame`, what the decode thread takes. Hard: lost, duplicated, reordered
datagrams, wrapping 16-bit numbers, a full queue. Correct when frames are whole,
the codec hears of every loss, every datagram is counted and no slot is stuck.
Module `Reassembly`.

**VideoDecoder, threads** (same file). State: `running_`, two mutexes with
condition variables, three threads. Operations: `start`, `stop`, the loops.
Hard: `running_` changes without the mutexes; a thread may be about to sleep; a
receive error wakes some of the threads. Correct when `stop` returns, nothing is
left behind, and nothing queued is slept through. Module `DecoderThreads`.

**rm_video node and its previews** (`V/src/rm_video_node.cpp`,
`V/src/compressed_image_publisher.cpp`): image processing without state, and a
publisher with a thread. State: `running_`, `pending_frame_`. Operations:
`start`, `submit`, `worker_loop`, `stop`, and the order in which the node calls
them. Hard: `running_` is written without the mutex; subscribers come and go
between any two looks at them. Correct as the debug images are. Module `Preview`,
which implements `Mailbox`.

**rm_mqtt, control path** (`V/rm_mqtt/node.py`, `protocol.py`). State: the
subscription's slot, the message in hand, the time of the last block sent.
Operation: `_handle_control_message` with its rate limit, decoder and encoder, and
`MqttTransport.publish`. Hard: the limiter drops messages without looking at them;
a command may be revoked while the node works on it, and the revocation be lost.
Correct when nothing revoked is kept back and sent later, and no command stands
that nobody confirms. Module `ControlLink`.

**rm_mqtt, telemetry and statistics**: one conversion per message, counters
under one lock. Not modelled.

**MqttTransport** (`V/rm_mqtt/mqtt_transport.py`). State: `_client`,
`_connected`, `_stop_event`, the ID index, one attempt record. Operations:
`start`, `stop`, the worker, the callbacks of the Paho client. Hard: three
threads, callbacks of an attempt that is over, `stop` between creating and
storing a client. Correct when `connected` refers to a usable client, nothing
calls back after `stop`, `stop` returns, and an accepted ID is found. Module
`MqttTransport`.

The rest is built only for the robots with their own camera and gimbal, or for
tests:

**Queues and pools** (`A/tools/thread_safe_queue.hpp`, `thread_pool.hpp`,
`recorder.cpp`). `ThreadSafeQueue` is a set of operators, since each of its
operations holds the mutex throughout. `FramePool` is `ThreadPool` with
`OrderedQueue`, as `A/tests/camera_thread_test.cpp` uses them; `Recorder` the
recorder and its destructor. Hard: a worker about to sleep, a full queue that
refuses the element that was to wake it, frames finished in any order, a shared
`vector<bool>` without a lock. Correct when they end, and what comes out comes
out in order.

**Drivers** (`A/io/usbcamera`, `mindvision`, `hikrobot`, `socketcan.hpp`,
`cboard.cpp`, `dm_imu`, `gimbal`). `CaptureDaemon`: a capture thread, a daemon
that opens the device again, a destructor. `Orientation`: samples in a bounded
queue, and the question which orientation there was at a time. Hard: the daemon
looks at a flag that the new thread has not raised yet; questions out of order
while samples arrive and are refused. Correct when no thread or handle is lost,
a device that is back is used again, and an answer belongs to its time.

**mt_standard and its power rune** (`A/src/mt_standard.cpp`,
`A/tasks/auto_aim/multithread`, `A/tasks/auto_buff`). `MtStandard`: the reading
thread, the main loop, the command thread, modes. `PowerRune`: the lost frames,
jumps and pauses between shots. Hard: threads that wait for each other after a
change of mode or an interrupt; counters shared by two targets. Correct when
no thread's commands go back to older images, the end does not hang, and shots keep
their pause.

**The sentry** (`A/tasks/omniperception`, the second overload of
`Tracker::track`). `Perceptron`: a thread per camera and one queue.
`OmniTracker`: a tracker that switches to what another camera sees. Hard:
counters that are kept over a switch. Correct when what is aimed at was seen not
long ago.

Not modelled: planner, other main programs, serial and ros2 helpers, calibration
(section 5).

## 2. The modules and the code

An action is one critical section or one statement that another thread can
observe; its name is that of the method or of the statement. Definitions headed
"Mutant:" are plausible bugs, each breaking one property; they are not part of
any specification. `MC*.tla` only define the constants of an instance.

| Module | Actors | What a step is |
|---|---|---|
| `ResultGate` | main loop, executor (colour callback, watchdog), time | a critical section; `publish` is two steps under `result_mutex_`, the revision check and the publication; so is the colour callback |
| `Revocation` | abstract | an era opens, a command of an unrevoked era is issued, the old era is revoked |
| `FrameInput` | executor (two callbacks), `read`, time | a critical section, or the end of a wait |
| `Tracker` | one caller | a whole call of `track` or `set_enemy_color` |
| `Reassembly` | network, receive thread, decode thread, time | one datagram with the expiry before it; a submission; a frame taken |
| `DecoderThreads` | owner, three decoder threads | a critical section, a notification, a join; falling asleep is two steps |
| `AutoAim` | one caller, the gimbal | `track`, one call of `choose_aim_point`, or `shoot` |
| `Mailbox` | abstract | a picture is put into the box, or taken, or the box is closed |
| `Preview`, `DebugImages` | the thread that makes pictures, the worker, the owner, subscribers | a critical section, a test of a flag outside one, a notification |
| `Recorder`, `FramePool` | main loop, saving thread or workers | an operation of a queue, a test of a flag, saving a frame |
| `WorkerThreads` | one of the four above | a step of it |
| `CaptureDaemon` | capture thread, daemon, owner, the device | a read, a look at a flag, opening, closing, a join |
| `Orientation` | receiving thread, main loop | an operation of the queue, an answer |
| `MtStandard` | reading thread, main loop, command thread, control board | an operation of a queue, reading an image, sending a command, or a turn of a loop |
| `Perceptron` | a thread per camera, main loop | a read, a detection, an operation of the queue |
| `OmniTracker`, `PowerRune` | one caller | a whole call for one frame |
| `Sentry` | one of the five above | a step of it |
| `ControlLink` | `ResultGate`, ROS, the `rm_mqtt` executor, MQTT, the robot | a message delivered to the subscription or lost; `_handle_control_message` up to the limiter; its publication, received, lost or failing |
| `MqttTransport` | owner, worker, network thread, broker, network | a critical section or a call of the Paho client |

`ControlLink` extends `ResultGate` and composes with it: its steps are those of
the client, with the link unchanged, or those of the link. `AutoAim` extends `Tracker`
and its loop implements it (`LoopImplementsTracker`). `FrameInput`, `AutoAim` and
`ResultGate` meet in the main loop; `ResultGate` replaces the other two by what
they may return. `WorkerThreads` and `Sentry` collect machines that share no
state: `part` chooses one of them at the start, and what is asked of all of them
is stated once. `Reassembly` and `DecoderThreads` show the
same code from two sides, data without thread positions and thread positions
with frames only counted.

Time is counted in ticks, and ages are kept in place of stamps where only
differences matter. A clock stops one tick past the largest age any comparison
distinguishes, so that the instance stays finite without a horizon.

History variables, which the code does not have: `topic.rev` and `topic.target`
(where a result came from), `intact` and `settled` in `ControlLink`, `imuSeen` and `taken` in `FrameInput`,
`matched`, `unseen` and `age` in `Tracker`, `unseen` in `OmniTracker`, `among` in
`AutoAim`, `accepted`, `latest`, `fresh` and `cleared` in `Orientation`, `aimed`
and `sent` in `MtStandard`, `missed`, `jump`, `quiet` and `held` in `PowerRune`, `origin` of a datagram, the
bytes a datagram carries as the set of its `packets`, `handed`, `losses` and `codec` in
`Reassembly`, the counters of `DecoderThreads`.

### Abstractions

- A result is its flags, the colour revision, and the own colour its target was
  acquired for. Angles are finite or not.
- In `ResultGate` a detection may yield the tracked target, a new one of the
  enemy colour, or none; shooting needs control, control needs a target.
- In `Tracker` an armour is a kind and a colour; the order of the list matters
  only for which one is foremost. The filter of an updated target may have
  diverged or be failing its tests, in any combination. `track` also returns a
  target in state `detecting`; the comment at
  `A/configs/custom_client.yaml:65-67` says so too.
- In `AutoAim` a turn has `Turn` units. The angle and the sense of rotation are
  chosen afresh in each call of `choose_aim_point`: more than any rotation can
  do, so what holds there holds for the real estimates. Angles of plates wrap;
  those of commands do not, because the Shooter subtracts them as they are.
- `FramePool` has a data race on the bits of a `vector<bool>`: a worker finds a
  detector or none. Frames behind one that was lost are excepted from
  `PicturesComeOut`, because the code never closes such a gap.
- In `OmniTracker` the lists are filtered and sorted, of outposts there are none,
  and so there is one limit. `Decider` is a function of its inputs.
- In `PowerRune` `switch_fanblade_` has no initial value and so has any; a frame
  without a trajectory can shoot without control, as the code's branches allow.
  The threshold of a diverging filter is a choice.
- In `Perceptron` and `MtStandard` the network takes any time; in `MtStandard` the
  camera delivers, in `Perceptron` a camera may stop.
- In `FrameInput` the stamps of the samples increase, by a tick at least, as those
  of one sensor do.
- In `Reassembly` an assembly holds the set of datagrams it was made of, so that the
  bytes received are a sum over a set; `updated`, the number of its last datagram,
  tells assemblies apart as their addresses do. The choice of the byte order in `parse_header` is left out; a
  header that fails its tests is one action. `now` is the number of frames the
  sender has started.
- In `DecoderThreads` a spurious wakeup may happen at any time and decoding a
  packet may yield any number of pictures.
- In `ControlLink` the subscription holds one message: `subscriber.qos_depth` is
  1 in the code's default and in `V/config/rm_mqtt.yaml`. A deeper queue is not
  modelled. One message is on its way from publisher to subscription; when the next
  is published that one has arrived or is lost, which nobody can tell from arriving
  at that moment. A message is delivered and handled, or lost, within the tick in
  which it was published: a callback of some tens of lines against ticks of the
  order of the send period. The firmware of the robot, with the timeout the protocol asks of it,
  is not in the repository; the robot here obeys its last block for ever.
- In `MqttTransport` the client library is external, modelled by the callbacks it
  makes from `loop`, from its network thread, and from `disconnect`.

## 3. The runs

The passing runs fire every action and every disjunct; state counts are of
distinct states.

| Run | Shows | States |
|---|---|---|
| `result_gate` | no revoked command stands again; commands aim at the enemy; none outlives the watchdog; the client implements `Revocation`; every colour change is followed by its revocation | 58 k |
| `frame_input` | image and sample belong together; no image is taken for consumed; no match is lost to the bounded history | 962 k |
| `reassembly` | frames are whole; the codec is flushed for all losses; all datagrams are accounted for; no assembly lingers or has the place of another, with frame numbers used again early or late | 591 k |
| `decoder_threads` | no lost wakeup, `stop` returns and leaves nothing | 23 k |
| `control_link` | how long an unconfirmed block can stand at the robot; no block of a revoked colour arrives late, whatever is lost | 5.5 M |
| `mqtt_transport` | `connected` means usable; nothing calls back late; `stop` returns; an accepted ID is found | 10 k |
| `auto_aim` | returned targets are usable, tracked ones confirmed, predicted ones not too old; the aim keeps to a plate, and to plates of an outpost that were seen; shots leave near the command of their frame | 167 k |
| `worker_threads` | previews and debug images are mailboxes; recorder and pool keep the order; all of them end and leave nothing | 14 k |
| `sentry` | drivers open again and lose nothing; orientations belong to their time; commands and aims are current; what hangs is named | 104 k |
| `old_team_race`, `rate_limit` | violations, see below | |

### Bounds, and why they are enough

- `MaxRevision = 3`: a colour flips, flips back and flips again, so a command
  can be two changes old and have the present colour; a fourth adds none. The
  proofs hold for every bound. `control_link` uses 2: revocation needs one change,
  a block of a colour before the last needs two. Messages may be lost and the link
  cut at any time.
- `CommandTimeout = 2`, `WatchdogPeriod = 1`, `TimerSlack = 1`: the code's
  period is half its timeout; the slack is the time a due timer may have to wait
  for the executor.
- `FrameInput`, `MaxTime = 4`, `MaxDelay = 1`, `MaxImu = 4`: enough ticks for an
  image timeout, a late sample, a full history and a trimmed one. The horizon is
  one of the instance; nothing in the code depends on the time of day.
- `AutoAim`: a hero with four plates and an outpost with three, which is followed
  for twice as long, so that an outpost's limit can wrongly survive; gaps on
  both sides of the largest; three matches to confirm. `Turn = 24` is the smallest
  circle that three and four plates divide with room between the limits `Leaving`,
  `Reach`, `Coming` and `OutpostComing`, so that none, one and two plates come into question.
  One iteration for the time of flight meets each of its early returns; the
  proofs hold for any number. There is no horizon; the history variables are
  bounded by the limits.
- `Reassembly`: five frames of one to three fragments, two slots, eight
  datagrams, so a frame can be evicted, expire, be dropped with the queue, or be
  completed by reordered fragments. A `SequenceSpace` of 3 exceeds
  `MaxDelay + Timeout`, as 16 bits do by far at video rates; one of 2 does not, and
  `FramesAreWhole` is not claimed there.
- `WorkerThreads`: two pictures, since the slot holds one; three frames for two
  workers, so that one can overtake two others; the recorder's queue holds one.
- `Sentry`: queues of two (the code has 2 to 5000), so that they are full and
  used again; five samples, so that one is refused in the middle; limits of one
  to four with each counter able to pass each of the others.
- `DecoderThreads`: four frames and a queue of two, so that the queue overflows
  once and is used again.
- `ControlLink`: `NoUnattendedRobot` is claimed for a block after which nothing is
  lost (`intact`): the watchdog says only once that a command is over, with QoS 0
  and best effort, and when that message is lost no other follows. It is claimed
  for send periods up to the command timeout, which the shipped configuration
  satisfies by far (13 ms and 500 ms); with a longer period the limiter can drop
  the only message of the watchdog. `NoLateBlock` has neither premise. It forbids a
  late arrival, not that an old block goes on standing when its revocation was lost.
- `MqttTransport`: three IDs, a broker that accepts none, the first or the last;
  two starts, so that a second run meets what the first left.

`CHECK_DEADLOCK FALSE` is given where the model really stops: `FrameInput` at its
horizon, `Reassembly` at the end of its stream, `ControlLink` when the client has
exited and the last message is handled, `WorkerThreads` and `Sentry` when their
programs have ended, or hang in the way `NothingHangs` names.

### Fairness

- `ResultGate`: weak fairness of the publication, which waits for nothing, and
  strong fairness of the second half of the colour callback: it needs
  `result_mutex_`, which the main loop takes and releases again and again. That a
  `std::mutex` is got in the end is what scheduling gives in practice, since the
  loop holds it for microseconds and works for milliseconds between.
- `DecoderThreads`: weak fairness of every thread, strong fairness of the steps
  that compete for a mutex. Receiving returns because of `SO_RCVTIMEO`. Nobody
  has to call `stop` and no wakeup is spurious by obligation. Decoding one packet
  ends (`DecodeEnds`).
- `MqttTransport`: weak fairness of the worker, the network thread and `stop`:
  connecting, the handshake and the joins have timeouts in the code or rest on
  the thread joined; a dead connection is noticed by the keepalive. Nothing is
  assumed of network or broker; `FindsAcceptedId` has its premise in the
  formula.
- `Preview`, `DebugImages`, `Recorder`, `FramePool`: weak fairness of every thread,
  strong fairness where a step waits for a mutex that another thread takes
  again. `Mailbox` itself only promises that what waits is taken, unless the box
  is closed first.
- `CaptureDaemon`: weak fairness of construction, daemon, capture thread and
  destructor. That the device stays, and for HikRobot that a new thread runs before
  the daemon looks (100 ms), are premises in `Reopens`.
- `MtStandard`, `Perceptron`: weak fairness of the threads and of taking from a
  queue. Nothing is assumed of the control board. That the cameras deliver is a
  premise in the formula of `Perceptron`, which hangs without it.
- The other modules have no liveness properties and no fairness.

### What can hang, is never delivered, or goes back

Four things the code does are built into the properties and not counted as
violations, since no text of the repository denies them. `MtStandard!WaitsForever`:
the main loop waits in `debug_pop` for an image of a thread that has ended.
`Perceptron`: the destructor waits for a camera that does not deliver. `FramePool`:
a frame that found no detector keeps all later ones in the buffer of
`OrderedQueue`. `MtStandard!InOrder`: after a change of mode to the power rune,
`CommandGener` goes on for up to 0.2 s with the targets it has, so the commands of
its thread and of the main loop alternate and one of its own may be made from an
older image than one for the rune before it. What holds is that each thread's own
commands never go back.

### Findings

1. `old_team_race`: `publish` compares the revision and publishes afterwards. A
   colour change in between lets one command of the old team out, which the
   colour callback then revokes. The manual (`src/docs/auv_client_ros_manual.md:160`)
   and a test say that it is replaced. `RevokedStaysRevoked` is what does hold.
2. `rate_limit`: the limiter of `rm_mqtt` drops a result that releases control
   like any other. The manual (`:241`) asks downstream to release at once.
   `NoUnattendedRobot` bounds how long the old block can stand instead.

## 4. The proofs

Every theorem holds for all values of the constants, under the assumption named
in the module that declares them: numbers are natural, positive where the code
validates or fixes them so; a latency is below the age it is compared with
(`InputAssumption`); every fragment of a stream has bytes (`ReassemblyAssumption`);
the sets of kinds, policies, devices and cameras are what the code enumerates; and
the model values that stand for "none" are none of the values. TLC evaluates each
of them on the instances.

A `...Proofs` module states its strengthening `IInv` (one per part where parts
share no state), which TLC has checked on the instance of the run, proves that the
initial states satisfy it and every step preserves it, one lemma per thread and one
step per action, and concludes `Spec => []IInv`. `PROJECT.json` lists the theorems
with the property of a run that each one states. Every invariant and every action
property of the passing runs is proved.

**`ControlLinkProofs`**, the gate: `TypeCorrect`, `OldTeamRevoked`, `EnemyOnly`,
`WatchdogBound`, `Refinement`. None of the properties is inductive:
`RevokedStaysRevoked` speaks of the topic, and what protects it is what the main
thread has in hand. The strengthening says, in four parts:

- `MutexInv`: main owns `result_mutex_` exactly between check and publication.
- `RevisionInv`: a command that passed the check, or stands, is of the present
  revision, or of the one before it while the executor still waits to revoke.
  This is the argument why one stale publication is possible and never two: the
  executor cannot begin another colour change before it has revoked.
- `ColorInv`: from snapshot through tracker to command, equal revisions mean
  equal colours, though the main loop compares colours and not revisions.
- `WatchdogInv`: while a command stands the watchdog is armed, and its age is at
  most the timeout plus the age of the pending timer.

`Refinement` maps eras to revisions and follows from `RevisionInv` step by step.

The same module, the link: `RobotIsAttended`, `OldBlocksEnd`. They rest on the
invariant of the gate, which the composed system keeps, since a step behind it
leaves the client alone. What is new says how the link lags behind. `ArmedInv`:
the watchdog is armed while a command is on its way, and what is on its way is of
this tick. `RateInv`: how long the limiter can have been closed, as long as nothing
is lost. `DrivenInv`: the block the robot obeys is older than the last result by no
more than a send period, and the message of the watchdog comes too late to be
dropped. `RevokedInv`: after the tick of a revocation neither the subscription nor
the node has a command of an earlier colour; a loss only takes messages away, and
what is delivered later is the topic, of which `RevokedStaysRevoked` says the
rest.

**`FrameInputProofs`.** `SynchronousFrames`, `NoSkippedImage`, `HistorySuffices`.
`SequenceInv` orders the consumed and the newest sequence number. That no match is
lost to the history needs to know where each sample went: `KeptInv` says that one
that arrived is still there, or was pushed out by `MaxImu` later ones, or is too
old for the image taken last. The second case takes time because the history is in
order (`OrderInv`), and the third stays true because images only become later
(`ImageInv`). `HistorySuffices` has a hypothesis of its own, that the history spans
the age a frame may have and the tolerance: the code fixes `MAX_IMU_BUFFER_SIZE` at
200 whatever those are set to, so it limits the rate of the samples. The instance
satisfies it by one tick.

**`ReassemblyProofs`.** `OnlyWholeFrames`, `LossesReachTheCodec`, `NoPacketIsLost`,
`SlotsAreKept`, `SlotsAreFreed`, for any stream, any losses and any limits.

- `AssemblyInv`: the assemblies fit in the slots, have a number and a last datagram
  each to themselves, miss something, and are older than the timeout only by what
  has passed since the last expiry.
- `PacketsAccountedFor` is inductive together with it: a datagram is in one assembly,
  counted as dropped or handed on, and so the sum of the sizes of the assemblies has
  to be split at the one that is updated, evicted, completed or expired. The lemmas
  on `Size`, `Payload` and `PacketCount` do that with cardinalities.
- `LossInv`: whoever follows a loss carries the flag. Along the queue, a frame without
  the flag follows no more losses than the frame before it (`Before`); a full queue is
  given up as a whole and the new frame carries the flag; and the newest loss is
  in `discontinuity_` until a frame takes it along.
- `WholeInv`: an assembly collects the fragments of one frame only (`Collects`), and
  is young enough that no other frame of its number is on its way. This is where the
  sequence space has to exceed delay and timeout; with all bytes received, what was
  collected is the frame.

**`AutoAimProofs`**, the tracker: `TypeCorrect`, `UsableTargets`, `ConfirmedTracking`,
`BoundedPrediction`. The code's counters are tied to the history of the target,
state by state: in `detecting` the counter is the number of matches
(`DetectingInv`); in `tracking` they reached the minimum and nothing is unseen
(`TrackingInv`); in `temp_lost` the lost counter is the number of unseen frames,
within the limit of the target's own kind although `max_temp_lost_count_` may
still be another's (`TempLostInv`). The bound on time needs `OneMoreGap`, the one
nonlinear fact.

The same module, the loop. `LoopImplementsTracker`: every behaviour of the loop is
one of `Tracker`, so that the theorems above hold in it without another proof.
`KnownOutpostPlates`, `LockedAim`, `FiringIsAligned` follow from `AutoInv`, which says of
the frame under way what its aim was chosen from (`AimingInv`, `LockInv`) and which
plates of an outpost were seen (`SeenInv`). They hold for any number of
plates, iterations and units of a turn.

**`DecoderThreadsProofs`.** `TypeCorrect`, `EveryFrameCounted`, `CleanStop`.
`StopInv` lists, for each statement `stop` has passed, what stays true from then
on: who was joined stays ended, and what only they could fill stays empty. The
order of the joins and the clearings is what makes each conjunct stable.

**`MqttTransportProofs`.** `TypeCorrect`, `ConnectedIsUsable`, `NoLateCall`,
`LossKnownFirst`. `NetInv` ties the network thread to the
stretch of the worker that started it, `OwnerInv` the worker to the stretch
between `start` and the end of `stop`, and `LossInv` says that a loss is recorded
before it is reported, unless the end was announced.

**`WorkerThreadsProofs`.** `StopLeavesNothing`, `OrderIsKept`, `SlotsAreMailboxes`, for
any number of pictures, frames and workers. `PreviewInv` and `ImageInv` tie the
flags to where the owner is, so that a worker that ended was told to; `RecordInv`
says that the one frame in the queue was recorded after all that were saved, the one
in the saver's hands included; `PoolInv` that the ordered queue has given
away exactly the frames below the one it waits for, in order, and keeps back later ones.
`SlotsAreMailboxes` is the safety part of `ImplementMailbox`: the initial states
map to initial states of `Mailbox`, and every step to one of its steps or to none.
Its fairness is checked by TLC.

**`SentryProofs`.** `NoThreadIsLost`, `OrientationIsOfItsTime`, `AimStaysCurrent`,
for any drivers, devices, cameras, sizes and limits.

- `CaptureInv`: the daemon closes and opens only with its thread joined, and
  whoever else closes is the destructor of the one driver that does.
- `QueueInv` with `PairInv`: the queue holds the accepted samples from its front on,
  in order. `imu_at` has taken all up to its pair out (`ImuInv`), while
  `Gimbal::q` leaves the newer sample in front (`GimbalInv`): the same promise rests
  on two different facts, and the second fails after a `clear`, which the property
  excepts.
- `CommandInv`: images get older from the camera over queue and targets to the
  command, so that the last command of `CommandGener` is never newer than what it
  has in hand, and an image read for the power rune never older than either.
- `OmniInv`: there is a target unless the state is `lost`, and the frames in which it
  was not seen are tied to `temp_lost_count_` and the state, over switches that
  begin and end without resetting it.
- `RuneInv`: the lost frames, the refused ones and the pauses are counted by no
  less than what happened, for both targets although they share counters.

Only model-checked is what needs fairness: `NothingHangs`, `StopsReturn`,
`PicturesComeOut`, the liveness of `ImplementMailbox`, `StopReturns`,
`QueuedIsDecoded`, `PictureIsConverted`, `FindsAcceptedId` and `RevocationHappens`;
and the two violations. The prover cannot do liveness under fairness, or `ENABLED`.
Induction over data is out of its reach too; where a sequence or a sum needs it, the
models speak of sets: the nearest sample, the first one to keep and the number the
ordered queue waits for are least numbers of a set, and that a set of numbers has a
least one is `LeastNumber`, from the library's theorem that the numbers are well
founded; bytes are counted by `Cardinality`.

## 5. What is not modelled

- Floating-point estimation and geometry (filters, solver, trajectory, planner,
  the sine fit of the power rune) and neural networks: their results are
  arbitrary.
- Formats: the byte order `parse_header` guesses for each datagram, the fields of
  serial, CAN and MQTT messages, JSON. Where a format can be rejected, the
  rejection is one action.
- Log lines, windows, statistics shown; the settings of cameras.
- FFmpeg, ROS and Paho beyond what the code relies on.
- The firmware of the robot. When `custom_client` exits, nothing in this
  repository ends the last command; only that firmware does.
- `Decider`, which filters and sorts lists, and `mpc_aim` of the power rune, which
  makes the decisions of `aim` for another program.
- The other main programs, which call the parts above one after the other, the
  helpers for ROS 2 of the sentry, calibration and recording scripts.
- Vendored code: the headers of three camera SDKs, the serial library and tinympc
  are most of the lines of the repository and hold no logic of its own.

Some oddities of the drivers were met while reading and are in no model: the
error paths of `A/io/hikrobot/hikrobot.cpp:166` return with a handle open, the
threads of `A/tasks/omniperception/perceptron.cpp:26` capture their parameters by
reference, and `A/tasks/omniperception/decider.cpp:186` takes the front of a list
after filtering it.

Hazards without a property are listed in `PROJECT.json` with the reason.

## 6. What could come next

1. `parse_header` over small widths: which sizes in one byte order are plausible
   in the other, and what a wrong guess does to the assembly.
2. `FrameInput` and `AutoAim` in the main loop of `ResultGate`, in place of their
   summaries there, for the age of a frame from its arrival to its command.
3. A subscription of `rm_mqtt` deeper than one message in `ControlLink`, and what
   `DrivenInv` then has to say of the messages that wait.
