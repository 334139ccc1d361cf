--------------------------- MODULE ThreadSafeQueue ----------------------------
(***************************************************************************)
(* tools::ThreadSafeQueue.  Every operation holds the mutex from beginning *)
(* to end and push() notifies before it gives it up, so an operation is    *)
(* one step, and pop() and front() are steps that wait until the queue is  *)
(* not empty.  None of the queues modelled here is a PopWhenFull one: a    *)
(* full queue keeps what it has and refuses what is new.                   *)
(***************************************************************************)
LOCAL INSTANCE Sequences
LOCAL INSTANCE Naturals

(* push                                                                    *)
Pushed(queue, value, maxSize) ==
  IF Len(queue) >= maxSize THEN queue ELSE Append(queue, value)

(* pop and front, once there is something to take.                         *)
CanPop(queue) == queue # <<>>
Front(queue) == Head(queue)
Popped(queue) == Tail(queue)
=============================================================================
