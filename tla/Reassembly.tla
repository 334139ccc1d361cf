------------------------------ MODULE Reassembly ------------------------------
(***************************************************************************)
(* How rm_video::VideoDecoder turns UDP datagrams into encoded frames.     *)
(* The receive thread collects the fragments of several frames at a time   *)
(* in a few reassembly slots, drops what stays incomplete, and hands every *)
(* complete frame to the decode thread through a bounded queue.  What it   *)
(* had to drop is reported with the next frame, so that the decode thread  *)
(* flushes the codec before it goes on.                                    *)
(*                                                                         *)
(* The sender starts one frame in every tick and numbers frames modulo a   *)
(* power of two (2^16 in the code; here one of a few numbers, too small    *)
(* ones among them).  The network loses, duplicates, reorders and delays   *)
(* datagrams.                                                              *)
(***************************************************************************)
EXTENDS Integers, Sequences, FiniteSets, Functions

CONSTANTS
  Stream,          (* Stream[i]: the fragment sizes of the i-th frame      *)
  SequenceSpaces,  (* frame sequence numbers there may be before they wrap *)
  Slots,           (* reassembly_slots                                     *)
  Timeout,         (* reassembly_timeout, in ticks                         *)
  ReceiveTimeout,  (* SO_RCVTIMEO, in ticks                                *)
  QueueSize,       (* decode_queue_size                                    *)
  MaxDelay,        (* the ticks a datagram may spend in the network        *)
  MaxPackets       (* bound: the datagrams received                        *)

ASSUME ReassemblyAssumption ==
  /\ Stream \in Seq(Seq(Nat \ {0}))
  /\ SequenceSpaces \subseteq Nat \ {0}
  /\ {Slots, ReceiveTimeout, QueueSize} \subseteq Nat \ {0}
  /\ {Timeout, MaxDelay, MaxPackets} \subseteq Nat

VARIABLES
  sequenceSpace, (* frame sequence numbers before they wrap; never changes   *)
  now,           (* ticks; the frames 1..now have been started             *)
  assemblies,    (* the active slots                                       *)
  discontinuity, (* stream_discontinuity_                                  *)
  complete,      (* the frame process_datagram is about to submit          *)
  queue,         (* pending_frames_                                        *)
  idle,          (* ticks since recvfrom returned                          *)
  received,      (* datagrams received so far                              *)
  dropped,       (* dropped_                                               *)
  handed,        (* datagrams of the frames taken by the decode thread     *)
  losses,        (* times something was dropped from the stream            *)
  codec          (* what the codec has seen: the losses before the last    *)
                 (* frame, and the losses it was flushed for               *)

assemblyVars == <<assemblies, discontinuity>>
countVars == <<received, dropped, handed>>
streamVars == <<sequenceSpace, now>>
vars == <<streamVars, assemblyVars, complete, queue, idle, countVars, losses, codec>>

-----------------------------------------------------------------------------
Frames == 1..Len(Stream)

(* Bytes and datagrams are counted as the elements of a set of pairs: the  *)
(* k-th byte of fragment i, a datagram and when its assembly was updated.  *)
Size(sizes) == Cardinality(UNION {{i} \X (1..sizes[i]) : i \in DOMAIN sizes})

Payload(packets) == Cardinality(UNION {{p.fragment} \X (1..p.size) : p \in packets})

PacketCount(frames) == Cardinality(UNION {{f.updated} \X f.packets : f \in frames})
Queued(frames) ==
  Cardinality(UNION {{i} \X frames[i].packets : i \in DOMAIN frames})

(* A datagram: the header, the size of its payload, and the frame it is    *)
(* really from, which only the model knows.                                *)
Packet(f, i) == [origin |-> f, seq |-> f % sequenceSpace, fragment |-> i,
                 total |-> Size(Stream[f]), size |-> Stream[f][i]]
FramePackets(f) == {Packet(f, i) : i \in DOMAIN Stream[f]}
Packets == UNION {FramePackets(f) : f \in Frames}

NoFrame == [packets |-> {}, discontinuity |-> FALSE, after |-> 0]

(* A FrameAssembly; its fragments are kept as the datagrams themselves,    *)
(* its last_update as their age and the number of the last of them.        *)
Fresh(p) ==
  [seq |-> p.seq, total |-> p.total, packets |-> {}, age |-> 0, updated |-> 0]

-----------------------------------------------------------------------------
Init ==
  /\ sequenceSpace \in SequenceSpaces
  /\ now = 1
  /\ assemblies = {}
  /\ discontinuity = FALSE
  /\ complete = NoFrame
  /\ queue = <<>>
  /\ idle = 0
  /\ received = 0
  /\ dropped = 0
  /\ handed = 0
  /\ losses = 0
  /\ codec = [after |-> 0, flushed |-> 0]

(* Mutant: a discarded assembly is counted but not remembered as a gap.    *)
DiscardSilently(discarded, more) ==
  /\ dropped' = dropped + PacketCount(discarded) + more
  /\ losses' = IF discarded = {} THEN losses ELSE losses + 1
  /\ UNCHANGED discontinuity

(* discard_assembly for each of these; "more" counts a datagram that is    *)
(* dropped without leaving a gap in the stream.  An active assembly holds  *)
(* at least one fragment.                                                  *)
Discard(discarded, more) ==
  /\ dropped' = dropped + PacketCount(discarded) + more
  /\ discontinuity' = (discontinuity \/ discarded # {})
  /\ losses' = IF discarded = {} THEN losses ELSE losses + 1

(* Mutant: an assembly lives one tick longer.                              *)
IsLateByOne(assembly) == assembly.age > Timeout + 1

IsLate(assembly) == assembly.age > Timeout

(* expire_assemblies                                                       *)
Expired == {a \in assemblies : IsLate(a)}
Live == assemblies \ Expired

-----------------------------------------------------------------------------
(* get_or_create_assembly, after the expiry: the assembly of the datagram, *)
(* what it makes room for, and what is left beside it.                     *)
SameSequence(p) == {a \in Live : a.seq = p.seq}
Resized(p) == {a \in SameSequence(p) : a.total # p.total}
Matching(p) == SameSequence(p) \ Resized(p)

(* Mutant: an assembly of another size stays beside the new one.           *)
BesideKeepsResized(p) == Live \ Matching(p)

Beside(p) == Live \ SameSequence(p)

Evicted(p) ==
  {a \in Beside(p) : /\ Matching(p) = {} /\ Cardinality(Beside(p)) >= Slots
                     /\ \A b \in Beside(p) : a.updated <= b.updated}

Assembly(p) ==
  IF Matching(p) = {} THEN Fresh(p) ELSE CHOOSE a \in Matching(p) : TRUE
Kept(p) == Beside(p) \ Evicted(p)

CanArrive(p) == p.origin <= now /\ now <= p.origin + MaxDelay

Receive ==
  /\ complete = NoFrame
  /\ received < MaxPackets
  /\ received' = received + 1
  /\ idle' = 0

(* A datagram whose header or payload size is refused; what has expired is *)
(* dropped first.                                                          *)
ReceiveMalformed ==
  /\ Receive
  /\ assemblies' = Live
  /\ Discard(Expired, 1)
  /\ UNCHANGED <<streamVars, complete, queue, handed, codec>>

(* A fragment that is already there does not renew its assembly.           *)
ReceiveDuplicate(p) ==
  /\ Receive
  /\ \E held \in Assembly(p).packets : held.fragment = p.fragment
  /\ assemblies' = Live
  /\ Discard(Expired, 1)
  /\ UNCHANGED <<streamVars, complete, queue, handed, codec>>

(* What the assembly becomes with the fragment: the last one updated.      *)
Grown(p) == [Assembly(p) EXCEPT !.packets = @ \cup {p}, !.age = 0,
                                !.updated = received + 1]
Gone(p) == Expired \cup Resized(p) \cup Evicted(p)

(* A new fragment.  When the size is reached the frame is complete, unless *)
(* the fragments add up to more than the size.                             *)
ReceiveFragment(p) ==
  /\ Receive
  /\ \A held \in Assembly(p).packets : held.fragment # p.fragment
  /\ \/ /\ Payload(Grown(p).packets) < p.total
        /\ assemblies' = Kept(p) \cup {Grown(p)}
        /\ Discard(Gone(p), 0)
        /\ UNCHANGED complete
     \/ /\ Payload(Grown(p).packets) > p.total
        /\ assemblies' = Kept(p)
        /\ Discard(Gone(p) \cup {Grown(p)}, 0)
        /\ UNCHANGED complete
     \/ /\ Payload(Grown(p).packets) = p.total
        /\ assemblies' = Kept(p)
        /\ dropped' = dropped + PacketCount(Gone(p))
        /\ losses' = IF Gone(p) = {} THEN losses ELSE losses + 1
        /\ complete' = [packets |-> Grown(p).packets,
                        discontinuity |-> discontinuity \/ Gone(p) # {},
                        after |-> losses']
        /\ discontinuity' = FALSE
  /\ UNCHANGED <<streamVars, queue, handed, codec>>

(* Mutant: nothing is expired while no datagram arrives.                   *)
ReceiveTimesOutIdly ==
  /\ complete = NoFrame
  /\ idle >= ReceiveTimeout
  /\ idle' = 0
  /\ UNCHANGED <<streamVars, assemblyVars, dropped, losses, complete, queue, received,
                 handed, codec>>

(* recvfrom returns without a datagram.                                    *)
ReceiveTimesOut ==
  /\ complete = NoFrame
  /\ idle >= ReceiveTimeout
  /\ idle' = 0
  /\ assemblies' = Live
  /\ Discard(Expired, 0)
  /\ UNCHANGED <<streamVars, complete, queue, received, handed, codec>>

(* Mutant: the frames that are thrown away are not counted.                *)
SubmitFrameUncounted ==
  /\ complete # NoFrame
  /\ complete' = NoFrame
  /\ IF Len(queue) >= QueueSize
     THEN /\ losses' = losses + 1
          /\ queue' = <<[complete EXCEPT !.discontinuity = TRUE,
                                         !.after = losses']>>
     ELSE /\ queue' = Append(queue, complete)
          /\ UNCHANGED losses
  /\ UNCHANGED <<streamVars, assemblyVars, idle, received, dropped, handed, codec>>

(* submit_frame: a full queue is given up as a whole.                      *)
SubmitFrame ==
  /\ complete # NoFrame
  /\ complete' = NoFrame
  /\ IF Len(queue) >= QueueSize
     THEN /\ dropped' = dropped + Queued(queue)
          /\ losses' = losses + 1
          /\ queue' = <<[complete EXCEPT !.discontinuity = TRUE,
                                         !.after = losses']>>
     ELSE /\ queue' = Append(queue, complete)
          /\ UNCHANGED <<dropped, losses>>
  /\ UNCHANGED <<streamVars, assemblyVars, idle, received, handed, codec>>

(* decode_loop and the beginning of decode_frame: take a frame, and flush  *)
(* the codec if something is missing before it.                            *)
DecodeFrame ==
  /\ queue # <<>>
  /\ queue' = Tail(queue)
  /\ handed' = handed + Cardinality(Head(queue).packets)
  /\ codec' = [after |-> Head(queue).after,
               flushed |-> IF Head(queue).discontinuity
                           THEN Head(queue).after ELSE codec.flushed]
  /\ UNCHANGED <<streamVars, assemblyVars, complete, idle, received, dropped, losses>>

(* A tick of time: recvfrom returns in time, and processing a datagram     *)
(* takes no time.                                                          *)
Tick ==
  /\ complete = NoFrame
  /\ idle < ReceiveTimeout
  /\ now < Len(Stream)
  /\ now' = now + 1
  /\ idle' = idle + 1
  /\ assemblies' = {[a EXCEPT !.age = @ + 1] : a \in assemblies}
  /\ UNCHANGED <<sequenceSpace, discontinuity, complete, queue, countVars, losses,
                 codec>>

Next ==
  \/ \E p \in Packets : CanArrive(p) /\ (ReceiveDuplicate(p) \/ ReceiveFragment(p))
  \/ ReceiveMalformed
  \/ ReceiveTimesOut
  \/ SubmitFrame
  \/ DecodeFrame
  \/ Tick

Spec == Init /\ [][Next]_vars

-----------------------------------------------------------------------------
(* A frame that reaches the codec is one the sender encoded: it has all    *)
(* the fragments of one frame and none of another, although numbers are    *)
(* used again.  This rests on the expiry of old assemblies before every    *)
(* datagram (process_datagram).  It needs numbers that are not used again  *)
(* within MaxDelay + Timeout ticks; 2^16 frames take many minutes.         *)
FramesAreWhole ==
  sequenceSpace > MaxDelay + Timeout =>
    \A frame \in Range(queue) \cup ({complete} \ {NoFrame}) :
      \E f \in Frames : frame.packets = FramePackets(f)

(* The codec is flushed for everything that was dropped before the frame   *)
(* it decodes, whether an assembly was given up or the queue was, and even *)
(* when the frame that carried the news was itself dropped                 *)
(* (stream_discontinuity_, submit_frame).                                  *)
CodecFlushedForLosses == codec.after <= codec.flushed

(* Every datagram received is counted as dropped, waits in exactly one     *)
(* place, or was handed to the codec: the statistics account for all of    *)
(* them (dropped_, udp_packets_window_).                                   *)
PacketsAccountedFor ==
  received = dropped + handed + PacketCount(assemblies) + Queued(queue)
               + Cardinality(complete.packets)

(* There are never more assemblies than slots, two of them never collect   *)
(* the same frame number, and each still misses something, even when the   *)
(* numbers come round too soon (get_or_create_assembly).                   *)
AssembliesAreDistinct ==
  /\ Cardinality(assemblies) <= Slots
  /\ \A a, b \in assemblies : a # b => a.seq # b.seq
  /\ \A a \in assemblies : a.packets # {} /\ Payload(a.packets) < a.total

(* An incomplete frame does not occupy a slot for longer than the timeout  *)
(* and one receive timeout, even when the sender falls silent              *)
(* (receive_loop).                                                         *)
AssembliesExpire ==
  \A a \in assemblies : a.age <= Timeout + ReceiveTimeout
=============================================================================
