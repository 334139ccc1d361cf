------------------------------ MODULE FramePool -------------------------------
(***************************************************************************)
(* tools::ThreadPool and tools::OrderedQueue, in the program that uses     *)
(* them (camera_thread_test): the camera loop numbers the frames and gives *)
(* each to a pool of workers, the workers finish in any order, and the     *)
(* ordered queue hands the frames on in the order of their numbers.        *)
(*                                                                         *)
(* The workers choose a detector from a shared vector<bool> without a      *)
(* mutex.  That is a data race: an update of one bit may undo that of      *)
(* another, so a worker may find a detector or none, whatever the others   *)
(* do; without a detector the frame is dropped.                            *)
(***************************************************************************)
EXTENDS Naturals, Sequences, FiniteSets

CONSTANTS
  Workers,   (* the threads of the pool                                    *)
  MaxFrames  (* bound: the frames read                                     *)

VARIABLES
  read,      (* frame_id of the camera loop                                *)
  tasks,     (* tasks of the pool: the numbers of their frames             *)
  stop,      (* stop of the pool                                           *)
  worker,    (* what a worker does                                         *)
  frame,     (* the frame it works on                                      *)
  mainQueue, (* main_queue_                                                *)
  buffer,    (* buffer_                                                    *)
  current,   (* current_id_                                                *)
  processed, (* frames the process thread has dequeued, in order           *)
  lost,      (* frames dropped for want of a detector, or with the tasks   *)
  main       (* the camera loop, then ~ThreadPool                          *)

poolVars == <<tasks, stop, worker, frame>>
queueVars == <<mainQueue, buffer, current>>
vars == <<read, poolVars, queueVars, processed, lost, main>>

MutexFree == \A w \in Workers : worker[w] # "checked"
Woken(w) == IF worker[w] = "asleep" THEN "lock" ELSE worker[w]

-----------------------------------------------------------------------------
Init ==
  /\ read = 0
  /\ tasks = <<>>
  /\ stop = FALSE
  /\ worker = [w \in Workers |-> "absent"]
  /\ frame = [w \in Workers |-> 0]
  /\ mainQueue = <<>>
  /\ buffer = {}
  /\ current = 1
  /\ processed = <<>>
  /\ lost = {}
  /\ main = "construct"

(* ThreadPool(num_threads)                                                 *)
StartPool ==
  /\ main = "construct"
  /\ worker' = [w \in Workers |-> "lock"]
  /\ main' = "loop"
  /\ UNCHANGED <<read, tasks, stop, frame, queueVars, processed, lost>>

(* ThreadPool::enqueue, with the frame that was just read.                 *)
EnqueueTask ==
  /\ main = "loop"
  /\ read < MaxFrames
  /\ MutexFree
  /\ read' = read + 1
  /\ tasks' = Append(tasks, read')
  /\ main' = "notify"
  /\ UNCHANGED <<stop, worker, frame, queueVars, processed, lost>>

(* notify_one: one of those who sleep wakes up, if there is one.           *)
EnqueueNotify ==
  /\ main = "notify"
  /\ main' = "loop"
  /\ \/ \E w \in Workers : worker[w] = "asleep" /\ worker' = [worker EXCEPT ![w] = "lock"]
     \/ (\A w \in Workers : worker[w] # "asleep") /\ UNCHANGED worker
  /\ UNCHANGED <<read, tasks, stop, frame, queueVars, processed, lost>>

(* ~ThreadPool                                                             *)
StopPool ==
  /\ main = "loop"
  /\ MutexFree
  /\ stop' = TRUE
  /\ lost' = lost \cup {tasks[i] : i \in DOMAIN tasks}
  /\ tasks' = <<>>
  /\ main' = "notify_all"
  /\ UNCHANGED <<read, worker, frame, queueVars, processed>>

StopNotifyAll ==
  /\ main = "notify_all"
  /\ worker' = [w \in Workers |-> Woken(w)]
  /\ main' = "join"
  /\ UNCHANGED <<read, tasks, stop, frame, queueVars, processed, lost>>

StopJoin ==
  /\ main = "join"
  /\ \A w \in Workers : worker[w] = "done"
  /\ main' = "stopped"
  /\ UNCHANGED <<read, poolVars, queueVars, processed, lost>>

-----------------------------------------------------------------------------
(* The loop of a worker: it ends, takes a task, or is about to sleep.      *)
WorkerCheck(w) ==
  /\ worker[w] = "lock"
  /\ MutexFree
  /\ \/ /\ stop /\ tasks = <<>>
        /\ worker' = [worker EXCEPT ![w] = "done"]
        /\ UNCHANGED <<tasks, frame>>
     \/ /\ tasks # <<>>
        /\ frame' = [frame EXCEPT ![w] = Head(tasks)]
        /\ tasks' = Tail(tasks)
        /\ worker' = [worker EXCEPT ![w] = "detect"]
     \/ /\ ~stop /\ tasks = <<>>
        /\ worker' = [worker EXCEPT ![w] = "checked"]
        /\ UNCHANGED <<tasks, frame>>
  /\ UNCHANGED <<read, stop, queueVars, processed, lost, main>>

WorkerSleeps(w) ==
  /\ worker[w] = "checked"
  /\ worker' = [worker EXCEPT ![w] = "asleep"]
  /\ UNCHANGED <<read, tasks, stop, frame, queueVars, processed, lost, main>>

(* The task: without a detector it ends at once.                           *)
FindDetector(w) ==
  /\ worker[w] = "detect"
  /\ \/ worker' = [worker EXCEPT ![w] = "enqueue"] /\ UNCHANGED lost
     \/ worker' = [worker EXCEPT ![w] = "lock"] /\ lost' = lost \cup {frame[w]}
  /\ UNCHANGED <<read, tasks, stop, frame, queueVars, processed, main>>

(* OrderedQueue::enqueue: the frame and all that wait behind it without a  *)
(* gap are queued, or the frame waits for those before it.                 *)
FirstGap(numbers) ==
  CHOOSE n \in (current + 1)..(MaxFrames + 1) :
    n \notin numbers /\ (current + 1)..(n - 1) \subseteq numbers

(* Mutant: only one frame that waited is moved.                            *)
EnqueueFrameMovesOne(w) ==
  LET n == frame[w]
      next == IF n + 1 \in buffer THEN n + 2 ELSE n + 1
  IN /\ worker[w] = "enqueue"
     /\ worker' = [worker EXCEPT ![w] = "lock"]
     /\ IF n = current
        THEN /\ mainQueue' = mainQueue \o [i \in 1..(next - n) |-> n + i - 1]
             /\ buffer' = buffer \ (n..next)
             /\ current' = next
        ELSE /\ buffer' = buffer \cup (IF n > current THEN {n} ELSE {})
             /\ UNCHANGED <<mainQueue, current>>
     /\ UNCHANGED <<read, tasks, stop, frame, processed, lost, main>>

(* Mutant: a frame does not wait for those before it.                      *)
EnqueueFrameAtOnce(w) ==
  LET n == frame[w]
  IN /\ worker[w] = "enqueue"
     /\ worker' = [worker EXCEPT ![w] = "lock"]
     /\ IF n >= current
        THEN mainQueue' = Append(mainQueue, n) /\ current' = n + 1
        ELSE UNCHANGED <<mainQueue, current>>
     /\ UNCHANGED <<read, tasks, stop, frame, buffer, processed, lost, main>>

EnqueueFrame(w) ==
  LET n == frame[w]
      next == FirstGap(buffer)
  IN /\ worker[w] = "enqueue"
     /\ worker' = [worker EXCEPT ![w] = "lock"]
     /\ IF n = current
        THEN /\ mainQueue' = mainQueue \o [i \in 1..(next - n) |-> n + i - 1]
             /\ buffer' = buffer \ (n..next)
             /\ current' = next
        ELSE /\ buffer' = buffer \cup (IF n > current THEN {n} ELSE {})
             /\ UNCHANGED <<mainQueue, current>>
     /\ UNCHANGED <<read, tasks, stop, frame, processed, lost, main>>

(* The process thread; enqueue() notifies with the mutex held, so that     *)
(* dequeue() is a step that waits for a frame.                             *)
Dequeue ==
  /\ mainQueue # <<>>
  /\ processed' = Append(processed, Head(mainQueue))
  /\ mainQueue' = Tail(mainQueue)
  /\ UNCHANGED <<read, poolVars, buffer, current, lost, main>>

SpuriousWakeup(w) ==
  /\ worker[w] = "asleep"
  /\ worker' = [worker EXCEPT ![w] = "lock"]
  /\ UNCHANGED <<read, tasks, stop, frame, queueVars, processed, lost, main>>

Work(w) ==
  WorkerCheck(w) \/ WorkerSleeps(w) \/ FindDetector(w) \/ EnqueueFrame(w)

Stop == EnqueueNotify \/ StopNotifyAll \/ StopJoin

Next ==
  \/ StartPool \/ EnqueueTask \/ StopPool \/ Stop
  \/ \E w \in Workers : Work(w) \/ SpuriousWakeup(w)
  \/ Dequeue

Fairness ==
  /\ WF_vars(Stop) /\ WF_vars(Dequeue)
  /\ \A w \in Workers : WF_vars(Work(w)) /\ SF_vars(WorkerCheck(w))

Spec == Init /\ [][Next]_vars /\ Fairness

-----------------------------------------------------------------------------
(* Once the pool is destroyed nobody works and no task is left.            *)
NothingAfterStop ==
  main = "stopped" => tasks = <<>> /\ \A w \in Workers : worker[w] = "done"

StopReturns == main = "notify_all" ~> main = "stopped"

(* Frames come out in the order of their numbers, each once, and nothing   *)
(* waits behind a frame that has already come out.                         *)
InOrder ==
  /\ processed \o mainQueue = [i \in 1..(current - 1) |-> i]
  /\ \A n \in buffer : n > current

(* A frame comes out unless it or one before it was lost for want of a     *)
(* detector or because the pool was destroyed: no task is left lying while *)
(* all workers sleep.                                                      *)
FramesComeOut ==
  \A n \in 1..MaxFrames :
    read >= n ~> Len(processed) >= n \/ lost \cap (1..n) # {}
=============================================================================
