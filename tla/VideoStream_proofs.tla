------------------------- MODULE VideoStream_proofs -------------------------
(***************************************************************************)
(* Proofs about VideoStream: for any number of frames, of datagrams of     *)
(* each, and any sizes of the queues, the decoder gets frames in order, a  *)
(* damaged picture is being repaired, and a surface that was taken away is *)
(* let go.                                                                 *)
(***************************************************************************)
EXTENDS VideoStream, FiniteSetTheorems, WellFoundedInduction, TLAPS

\* The frames that wait for the decoder, and that they wait in order.
InQueue == {decQueue[i] : i \in DOMAIN decQueue}
Sorted == \A i, j \in DOMAIN decQueue : i < j => decQueue[i] < decQueue[j]

\* Everything the decoder has or will have; 0 stands for nothing.
Handed == InQueue \cup {frame, shown}

\* What Slot takes no more, or what was sent by a connection before this one.
Behind(f) == f <= barrier \/ f <= base

\* What is handed on lies behind the barrier of its connection, and before all that waits.
OrderInv ==
  /\ Sorted
  /\ \A k \in InQueue : frame < k /\ shown < k
  /\ frame # 0 => shown < frame
  /\ \A k \in Handed : Behind(k) /\ \A p \in DOMAIN pending : k < p

\* Where the decode thread is, and what it has in its hands.
DecodeInv ==
  /\ frame = 0 <=> decAt \in {"ack", "swap"}
  /\ decAt = "decode" => decoder # 0
  /\ decAt = "init" => surface # 0 /\ decoder = 0
  /\ decoder = 0 => shown = 0 /\ lacks = {}

\* A loss, and a frame that waits, is of the reassembler that is at work.
LossInv == lossEvent \/ DOMAIN pending # {} => assembling

\* A keyframe is asked for, or will be at the end of PollFrames.
Wanted ==
  \/ keyframeWanted \/ waitingForIdr \/ lossEvent
  \/ queueOverflow \/ decodeFailed \/ decoderOpened

\* A keyframe made after m is on its way to the decoder.
Coming(m) == \E k \in InQueue \cup {frame} : m < k /\ IsIdr(k)

\* The picture does not lack m, nor will it: all that is yet to be decoded comes after it.
Past(m) ==
  /\ m \notin lacks /\ (shown = 0 \/ m < shown) /\ (frame = 0 \/ m < frame)
  /\ \A k \in InQueue : m < k
  /\ \A p \in DOMAIN pending : m < p
  /\ Behind(m)

\* Of each frame that was lost: a keyframe is wanted, is coming, or came.  And likewise of
\* what came before a decoder that opened and showed nothing yet, or began without one.
RepairInv ==
  /\ \A m \in missed : Wanted \/ Coming(m) \/ Past(m)
  /\ 0 \in lacks \/ (decoder # 0 /\ shown = 0) => Wanted \/ Coming(0)

IInv == TypeOK /\ OrderInv /\ DecodeInv /\ LossInv /\ RepairInv /\ SurfaceLetGo

-----------------------------------------------------------------------------
(* The oldest of the frames that wait, and the queue of the decoder.       *)

\* A set of natural numbers has a least one.
LEMMA LeastOfNaturals ==
  ASSUME NEW S \in SUBSET Nat, S # {}
  PROVE  \E x \in S : \A y \in S : x <= y
<1>1. PICK x \in S : \A y \in S : <<y, x>> \notin OpToRel(<, Nat)
  BY NatLessThanWellFounded, WFMin
<1>2. \A y \in S : ~(y < x)
  BY <1>1, Zenon DEF OpToRel
<1>3. \A y \in S : x <= y
  BY <1>2
<1> QED BY <1>3

\* PopReady and Slot look at the frame with the smallest number (pending_.begin()).
LEMMA OldestIsFirst ==
  ASSUME TypeOK, DOMAIN pending # {}
  PROVE  /\ Oldest \in DOMAIN pending /\ Oldest \in Frames
         /\ \A p \in DOMAIN pending : p = Oldest \/ Oldest < p
<1>1. DOMAIN pending \in SUBSET Nat /\ DOMAIN pending \subseteq Frames
  BY DEF TypeOK, PendingTypeOK, Frames
<1>2. \E f \in DOMAIN pending : \A g \in DOMAIN pending : f <= g
  BY <1>1, LeastOfNaturals
<1>3. Oldest \in DOMAIN pending /\ \A g \in DOMAIN pending : Oldest <= g
  BY <1>2 DEF Oldest
<1> QED BY <1>1, <1>3

\* Of two frame numbers the later one.
LEMMA LaterOfFacts ==
  ASSUME NEW f \in Nat, NEW g \in Nat
  PROVE  /\ LaterOf(f, g) \in {f, g} /\ f <= LaterOf(f, g) /\ g <= LaterOf(f, g)
BY DEF LaterOf

\* What waits while nothing is queued or taken.
LEMMA SameQueue ==
  ASSUME UNCHANGED decQueue
  PROVE  InQueue' = InQueue /\ Sorted' = Sorted
BY DEF InQueue, Sorted

\* A frame that is queued comes last; when another one is dropped for it the viewer is told.
LEMMA EnqueueFacts ==
  ASSUME QueueTypeOK, MaxQueued \in Nat \ {0}, NEW f \in Frames, Enqueue(f)
  PROVE  /\ decQueue' \in Seq(Frames) /\ Len(decQueue') <= MaxQueued
         /\ f \in InQueue' /\ InQueue' \subseteq InQueue \cup {f}
         /\ queueOverflow' = TRUE \/ (UNCHANGED queueOverflow /\ InQueue \subseteq InQueue' /\ Overflown = {})
         /\ Sorted /\ (\A k \in InQueue : k < f) => Sorted'
<1> USE DEF InQueue, Sorted
<1>1. decQueue \in Seq(Frames) /\ Len(decQueue) \in Nat
  BY DEF QueueTypeOK
<1>2. CASE Len(decQueue) >= MaxQueued
  <2>1. decQueue' = Append(Tail(decQueue), f) /\ queueOverflow' = TRUE
    BY <1>2 DEF Enqueue
  <2>2. decQueue # <<>>
    BY <1>1, <1>2
  <2>3. /\ Tail(decQueue) \in Seq(Frames) /\ Len(Tail(decQueue)) = Len(decQueue) - 1
        /\ \A i \in 1..Len(decQueue) - 1 : Tail(decQueue)[i] = decQueue[i + 1]
    BY <1>1, <2>2
  <2>4. /\ decQueue' \in Seq(Frames) /\ Len(decQueue') = Len(decQueue)
        /\ \A i \in 1..Len(decQueue) - 1 : decQueue'[i] = decQueue[i + 1]
        /\ decQueue'[Len(decQueue)] = f
    BY <1>1, <2>1, <2>3
  <2>5. Len(decQueue') <= MaxQueued
    BY <2>4 DEF QueueTypeOK
  <2>6. f \in InQueue' /\ InQueue' \subseteq InQueue \cup {f}
    BY <1>1, <1>2, <2>4
  <2>7. ASSUME Sorted, \A k \in InQueue : k < f PROVE Sorted'
    <3> SUFFICES ASSUME NEW i \in DOMAIN decQueue', NEW j \in DOMAIN decQueue', i < j
                 PROVE  decQueue'[i] < decQueue'[j]
      OBVIOUS
    <3>1. i \in 1..Len(decQueue) - 1 /\ i + 1 \in DOMAIN decQueue
          /\ \/ j = Len(decQueue)
             \/ j \in 1..Len(decQueue) - 1 /\ j + 1 \in DOMAIN decQueue
      <4>1. DOMAIN decQueue = 1..Len(decQueue) /\ DOMAIN decQueue' = 1..Len(decQueue)
        BY <1>1, <2>4
      <4>2. i \in 1..Len(decQueue) /\ j \in 1..Len(decQueue)
        BY <4>1
      <4> QED BY <1>1, <4>1, <4>2
    <3>2. CASE j = Len(decQueue)
      <4>1. decQueue[i + 1] \in InQueue /\ decQueue'[i] = decQueue[i + 1]
        BY <2>4, <3>1
      <4> QED BY <2>4, <2>7, <3>2, <4>1
    <3>3. CASE j \in 1..Len(decQueue) - 1 /\ j + 1 \in DOMAIN decQueue
      BY <2>4, <2>7, <3>1, <3>3
    <3> QED BY <3>1, <3>2, <3>3
  <2> QED BY <2>1, <2>4, <2>5, <2>6, <2>7
<1>3. CASE ~(Len(decQueue) >= MaxQueued)
  <2>1. decQueue' = Append(decQueue, f) /\ UNCHANGED queueOverflow
    BY <1>3 DEF Enqueue
  <2>2. /\ decQueue' \in Seq(Frames) /\ Len(decQueue') = Len(decQueue) + 1
        /\ \A i \in 1..Len(decQueue) : decQueue'[i] = decQueue[i]
        /\ decQueue'[Len(decQueue) + 1] = f
    BY <1>1, <2>1
  <2>3. Len(decQueue') <= MaxQueued
    BY <1>1, <1>3, <2>2
  <2>4. /\ f \in InQueue' /\ InQueue' \subseteq InQueue \cup {f} /\ InQueue \subseteq InQueue'
    <3>1. /\ DOMAIN decQueue = 1..Len(decQueue) /\ DOMAIN decQueue' = 1..Len(decQueue) + 1
          /\ DOMAIN decQueue \subseteq DOMAIN decQueue'
          /\ Len(decQueue) + 1 \in DOMAIN decQueue'
      BY <1>1, <2>2
    <3>2. f \in InQueue' /\ InQueue \subseteq InQueue'
      BY <2>2, <3>1
    <3>3. \A i \in DOMAIN decQueue' : i \in DOMAIN decQueue \/ i = Len(decQueue) + 1
      BY <1>1, <3>1
    <3>4. InQueue' \subseteq InQueue \cup {f}
      BY <2>2, <3>1, <3>3
    <3> QED BY <3>2, <3>4
  <2>5. Sorted /\ (\A k \in InQueue : k < f) => Sorted'
    BY <1>1, <2>2
  <2>6. Overflown = {}
    BY <1>3 DEF Overflown
  <2> QED BY <2>1, <2>2, <2>3, <2>4, <2>5, <2>6
<1> QED BY <1>2, <1>3

\* The frame taken is the first, and before all that is left.
LEMMA DequeueFacts ==
  ASSUME QueueTypeOK, decQueue # <<>>, frame' = Head(decQueue), decQueue' = Tail(decQueue)
  PROVE  /\ decQueue' \in Seq(Frames) /\ Len(decQueue') <= Len(decQueue)
         /\ frame' \in Frames /\ InQueue = InQueue' \cup {frame'}
         /\ Sorted => Sorted' /\ \A k \in InQueue' : frame' < k
<1> USE DEF InQueue, Sorted
<1>1. /\ decQueue \in Seq(Frames) /\ Len(decQueue) \in Nat \ {0}
      /\ frame' = decQueue[1] /\ frame' \in Frames
      /\ decQueue' \in Seq(Frames) /\ Len(decQueue') = Len(decQueue) - 1
      /\ \A i \in 1..Len(decQueue) - 1 : decQueue'[i] = decQueue[i + 1]
  BY DEF QueueTypeOK
<1>2. InQueue' \cup {frame'} \subseteq InQueue
  BY <1>1
<1>3. InQueue \subseteq InQueue' \cup {frame'}
  <2> SUFFICES ASSUME NEW i \in DOMAIN decQueue PROVE decQueue[i] \in InQueue' \cup {frame'}
    OBVIOUS
  <2>1. CASE i = 1
    BY <1>1, <2>1
  <2>2. CASE i # 1
    <3>1. i - 1 \in DOMAIN decQueue' /\ i - 1 \in 1..Len(decQueue) - 1 /\ (i - 1) + 1 = i
      BY <1>1, <2>2
    <3>2. decQueue'[i - 1] = decQueue[i]
      BY <1>1, <3>1
    <3> QED BY <3>1, <3>2
  <2> QED BY <2>1, <2>2
<1>4. ASSUME Sorted PROVE Sorted' /\ \A k \in InQueue' : frame' < k
  <2>1. \A i \in DOMAIN decQueue' : i \in 1..Len(decQueue) - 1 /\ i + 1 \in DOMAIN decQueue
                                  /\ decQueue'[i] = decQueue[i + 1] /\ 1 < i + 1
    BY <1>1
  <2>2. ASSUME NEW i \in DOMAIN decQueue', NEW j \in DOMAIN decQueue', i < j
        PROVE  decQueue'[i] < decQueue'[j]
    <3>1. i + 1 < j + 1
      BY <1>1, <2>2
    <3> QED BY <1>4, <2>1, <3>1
  <2>3. ASSUME NEW i \in DOMAIN decQueue' PROVE frame' < decQueue'[i]
    <3>1. 1 \in DOMAIN decQueue
      BY <1>1
    <3>2. decQueue[1] < decQueue[i + 1]
      BY <1>4, <2>1, <3>1
    <3> QED BY <1>1, <2>1, <3>2
  <2> QED BY <2>2, <2>3
<1> HIDE DEF InQueue, Sorted
<1> QED BY <1>1, <1>2, <1>3, <1>4

-----------------------------------------------------------------------------
\* A stream that begins.
LEMMA InitInv == Init => IInv
<1> SUFFICES ASSUME Init PROVE IInv
  OBVIOUS
<1>1. sent = <<>> /\ Len(sent) = 0 /\ decQueue = <<>> /\ Len(decQueue) = 0
      /\ DOMAIN pending = {} /\ DOMAIN decQueue = {}
  BY DEF Init
<1>2. HostTypeOK
  <2>1. forceIdr \in BOOLEAN /\ serving \in BOOLEAN /\ reconfig \in BOOLEAN
    BY DEF Init
  <2>2. asks = {} /\ upsets = 0 /\ 0 \in 0..MaxUpsets
    BY StreamOK DEF Init
  <2> QED BY <1>1, <2>1, <2>2 DEF HostTypeOK
<1>3. NetTypeOK
  <2>1. assembling \in BOOLEAN /\ waitingForIdr \in BOOLEAN /\ lossEvent \in BOOLEAN
        /\ keyframeWanted \in BOOLEAN
    BY DEF Init
  <2> QED BY <1>1, <2>1 DEF Init, NetTypeOK
<1>4. PendingTypeOK
  BY <1>1, FS_EmptySet, StreamOK DEF PendingTypeOK
<1>5. QueueTypeOK
  <2>1. queueOverflow \in BOOLEAN /\ decodeFailed \in BOOLEAN /\ decoderOpened \in BOOLEAN
        /\ rebuildDecoder \in BOOLEAN
    BY DEF Init
  <2> QED BY <1>1, <2>1, StreamOK DEF QueueTypeOK
<1>6. DecodeTypeOK
  <2>1. usable \in BOOLEAN
    BY DEF Init
  <2> QED BY <1>1, <2>1 DEF Init, DecodeTypeOK
<1>7. InQueue = {}
  BY <1>1 DEF InQueue
<1>8. OrderInv /\ DecodeInv /\ LossInv /\ SurfaceLetGo
  BY <1>1, <1>7 DEF Init, OrderInv, Sorted, Handed, Behind, DecodeInv, LossInv, SurfaceLetGo
<1>9. RepairInv
  BY DEF Init, RepairInv
<1> QED BY <1>2, <1>3, <1>4, <1>5, <1>6, <1>8, <1>9 DEF IInv, TypeOK

-----------------------------------------------------------------------------
(* The host.                                                               *)

\* The host sends more frames, and changes none that was sent.
LEMMA HostGrows ==
  ASSUME TypeOK, Host
  PROVE  /\ HostTypeOK' /\ upsets <= upsets'
         /\ Len(sent) \in Nat /\ Len(sent') \in Nat /\ Len(sent) <= Len(sent')
         /\ \A f \in Frames : sent'[f] = sent[f]
         /\ UNCHANGED <<net, flags, decoding, surfaces>>
<1> USE DEF TypeOK, HostTypeOK, down
<1>1. upsets \in Nat /\ Len(sent) \in Nat
  BY StreamOK
<1>2. CASE \E a \in asks : HandleAsk(a)
  <2> PICK a \in asks : HandleAsk(a)
    BY <1>2
  <2>1. serving' \in BOOLEAN /\ forceIdr' \in BOOLEAN
    BY DEF HandleAsk
  <2> QED BY <1>1, <2>1 DEF HandleAsk
<1>3. CASE EncodeFails
  <2>1. forceIdr' \in BOOLEAN
    BY <1>3 DEF EncodeFails
  <2> QED BY <1>1, <1>3, <2>1 DEF EncodeFails
<1>4. CASE SendEncodedFrame
  <2>1. forceIdr' \in BOOLEAN /\ UNCHANGED <<serving, asks, down, net, flags, decoding, surfaces>>
    BY <1>4 DEF SendEncodedFrame
  <2>2. PICK size \in Sizes : sent' = Append(sent, [idr |-> forceIdr, size |-> size])
    BY <1>4 DEF SendEncodedFrame
  <2>3. [idr |-> forceIdr, size |-> size] \in [idr : BOOLEAN, size : Sizes]
    OBVIOUS
  <2>4. sent' \in Seq([idr : BOOLEAN, size : Sizes]) /\ Len(sent') = Len(sent) + 1
        /\ \A f \in 1..Len(sent) : sent'[f] = sent[f]
    BY <2>2, <2>3
  <2> QED BY <1>1, <2>1, <2>4 DEF Frames
<1>5. CASE Reconfigure
  <2>1. forceIdr' \in BOOLEAN /\ reconfig' \in BOOLEAN
        /\ UNCHANGED <<sent, serving, asks, net, flags, decoding, surfaces>>
    BY <1>5 DEF Reconfigure
  <2>2. upsets' \in 0..MaxUpsets /\ upsets <= upsets'
    BY <1>1, <1>5, StreamOK DEF Reconfigure, Upset
  <2> QED BY <1>1, <2>1, <2>2
<1> QED BY <1>2, <1>3, <1>4, <1>5 DEF Host

\* Whatever holds of the frames that were sent holds when there are more.
LEMMA HostInv ==
  ASSUME IInv, Host
  PROVE  IInv'
<1>1. /\ HostTypeOK' /\ upsets <= upsets'
      /\ Len(sent) \in Nat /\ Len(sent') \in Nat /\ Len(sent) <= Len(sent')
      /\ \A f \in Frames : sent'[f] = sent[f]
      /\ UNCHANGED <<net, flags, decoding, surfaces>>
  BY HostGrows DEF IInv
<1>2. Frames \subseteq Frames' /\ 0..Len(sent) \subseteq 0..Len(sent')
  BY <1>1 DEF Frames
<1>3. NetTypeOK'
  BY <1>1, <1>2 DEF IInv, TypeOK, NetTypeOK, net, assembly
<1>4. PendingTypeOK'
  BY <1>1, <1>2 DEF IInv, TypeOK, PendingTypeOK, net, assembly
<1>5. QueueTypeOK'
  BY <1>1, <1>2 DEF IInv, TypeOK, QueueTypeOK, net, flags
<1>6. DecodeTypeOK'
  <2>1. surfaceGen' \in 1..upsets' + 1
    BY <1>1, StreamOK DEF IInv, TypeOK, HostTypeOK, DecodeTypeOK, surfaces
  <2> QED BY <1>1, <1>2, <2>1 DEF IInv, TypeOK, DecodeTypeOK, decoding, surfaces
<1>7. InQueue' = InQueue /\ Sorted' = Sorted
  BY <1>1, SameQueue DEF net
<1>8. OrderInv'
  BY <1>1, <1>7 DEF IInv, OrderInv, Handed, Behind, net, assembly, decoding
<1>9. DecodeInv' /\ LossInv' /\ SurfaceLetGo'
  BY <1>1 DEF IInv, DecodeInv, LossInv, SurfaceLetGo, net, assembly, decoding, surfaces
<1>10. \A m \in Nat : Coming(m) => Coming(m)'
  <2> SUFFICES ASSUME NEW m \in Nat, NEW k \in InQueue \cup {frame}, m < k, IsIdr(k)
               PROVE  Coming(m)'
    BY DEF Coming
  <2>1. k \in Frames
    BY DEF IInv, TypeOK, QueueTypeOK, DecodeTypeOK, InQueue, Frames
  <2>2. IsIdr(k)'
    BY <1>1, <2>1 DEF IsIdr
  <2>3. k \in (InQueue \cup {frame})'
    BY <1>1, <1>7 DEF decoding
  <2> QED BY <2>2, <2>3 DEF Coming
<1>11. RepairInv'
  <2>1. (Wanted <=> Wanted') /\ \A m : Past(m) <=> Past(m)'
    BY <1>1, <1>7 DEF Wanted, Past, Behind, net, assembly, flags, decoding
  <2>2. \A m \in missed : m \in Nat
    BY DEF IInv, TypeOK, NetTypeOK, Frames
  <2> QED BY <1>1, <1>10, <2>1, <2>2 DEF IInv, RepairInv, net, decoding
<1> QED BY <1>1, <1>3, <1>4, <1>5, <1>6, <1>8, <1>9, <1>11 DEF IInv, TypeOK

-----------------------------------------------------------------------------
(* The net thread.                                                         *)

\* What is known of a frame stays known while none is sent.
LEMMA SameFrames ==
  ASSUME UNCHANGED sent
  PROVE  Frames' = Frames /\ \A k : IsIdr(k)' <=> IsIdr(k)
BY DEF Frames, IsIdr

\* The frames are numbered in order, and their size is one datagram or more.
LEMMA FrameFacts ==
  ASSUME TypeOK
  PROVE  /\ Len(sent) \in Nat /\ Frames \subseteq Nat \ {0} /\ IsFiniteSet(Frames)
         /\ \A f \in Frames : sent[f].size \in Nat \ {0}
         /\ IsFiniteSet(DOMAIN pending) /\ DOMAIN pending \subseteq Nat
         /\ Cardinality(DOMAIN pending) \in Nat
         /\ barrier \in Nat /\ base \in Nat /\ missed \subseteq Nat \ {0}
         /\ InQueue \subseteq Frames /\ frame \in Nat /\ shown \in Nat
<1>1. sent \in Seq([idr : BOOLEAN, size : Sizes]) /\ Len(sent) \in Nat
  BY DEF TypeOK, HostTypeOK
<1>2. Frames \subseteq Nat \ {0} /\ IsFiniteSet(Frames)
  <2>1. IsFiniteSet(1..Len(sent))
    BY <1>1, FS_Interval
  <2> QED BY <1>1, <2>1 DEF Frames
<1>3. \A f \in Frames : sent[f].size \in Nat \ {0}
  <2>1. \A f \in 1..Len(sent) : sent[f] \in [idr : BOOLEAN, size : Sizes]
    <3> DEFINE R == [idr : BOOLEAN, size : Sizes]
    <3>1. sent \in Seq(R)
      BY <1>1
    <3> HIDE DEF R
    <3>2. \A f \in 1..Len(sent) : sent[f] \in R
      BY <3>1
    <3> QED BY <3>2 DEF R
  <2>2. \A f \in 1..Len(sent) : sent[f].size \in Sizes
    BY <2>1
  <2> QED BY <2>2, StreamOK DEF Frames
<1>4. DOMAIN pending \in SUBSET Frames
  BY DEF TypeOK, PendingTypeOK
<1>5. IsFiniteSet(DOMAIN pending) /\ Cardinality(DOMAIN pending) \in Nat
  BY <1>2, <1>4, FS_Subset, FS_CardinalityType
<1>6. barrier \in Nat /\ base \in Nat /\ missed \subseteq Nat \ {0}
  BY <1>1, <1>2 DEF TypeOK, NetTypeOK
<1>7. InQueue \subseteq Frames
  BY DEF TypeOK, QueueTypeOK, InQueue
<1>8. frame \in Nat /\ shown \in Nat
  BY <1>1 DEF TypeOK, DecodeTypeOK
<1> QED BY <1>1, <1>2, <1>3, <1>4, <1>5, <1>6, <1>7, <1>8

\* A message that is no video changes none of the frames.
LEMMA MessageInv ==
  ASSUME IInv, OnHelloAck \/ OnReconfig \/ OnNothing
  PROVE  IInv'
<1>1. /\ UNCHANGED <<host, upsets, base, assembly, keyframeWanted, missed, decQueue,
                     queueOverflow, decodeFailed, decoderOpened, decoding, surfaces>>
      /\ netAt' = "poll" /\ session' \in {session, "Starting"}
      /\ asks' \subseteq asks \cup {"start"}
  BY DEF OnHelloAck, OnReconfig, OnNothing, down, flags
<1>2. reconfig' \in BOOLEAN /\ rebuildDecoder' \in BOOLEAN
  BY DEF IInv, TypeOK, HostTypeOK, QueueTypeOK, OnHelloAck, OnReconfig, OnNothing, down, flags
<1>3. UNCHANGED sent /\ Frames' = Frames /\ \A k : IsIdr(k)' <=> IsIdr(k)
  BY <1>1, SameFrames DEF host
<1>4. HostTypeOK'
  BY <1>1, <1>2 DEF IInv, TypeOK, HostTypeOK, host
<1>5. NetTypeOK'
  BY <1>1, <1>3 DEF IInv, TypeOK, NetTypeOK, assembly
<1>6. PendingTypeOK'
  BY <1>1, <1>3 DEF IInv, TypeOK, PendingTypeOK, assembly
<1>7. QueueTypeOK'
  BY <1>1, <1>2, <1>3 DEF IInv, TypeOK, QueueTypeOK
<1>8. DecodeTypeOK'
  BY <1>1, <1>3 DEF IInv, TypeOK, DecodeTypeOK, decoding, surfaces
<1>9. InQueue' = InQueue /\ Sorted' = Sorted
  BY <1>1, SameQueue
<1>10. OrderInv' /\ DecodeInv' /\ LossInv' /\ SurfaceLetGo'
  BY <1>1, <1>9 DEF IInv, OrderInv, Handed, Behind, DecodeInv, LossInv, SurfaceLetGo,
     assembly, decoding, surfaces
<1>11. RepairInv'
  BY <1>1, <1>3, <1>9 DEF IInv, RepairInv, Wanted, Coming, Past, Behind, assembly, decoding
<1> QED BY <1>4, <1>5, <1>6, <1>7, <1>8, <1>10, <1>11 DEF IInv, TypeOK

\* A datagram of a frame adds no frame at or before the barrier, drops the oldest only with
\* a loss that is told, and never holds more frames than it may.
LEMMA SlotFacts ==
  ASSUME TypeOK, NEW f \in Frames, OnVideo(f)
  PROVE  /\ PendingTypeOK'
         /\ DOMAIN pending' \subseteq DOMAIN pending \cup {f}
         /\ barrier < f /\ base < f
         /\ barrier' \in 0..Len(sent) /\ barrier <= barrier'
         /\ missed' \subseteq Frames
         /\ asks' \subseteq {"start", "keyframe"}
         /\ lossEvent' = TRUE \/ UNCHANGED <<lossEvent, missed>>
<1>1. /\ UNCHANGED sent /\ Frames' = Frames
  BY SameFrames DEF OnVideo, host
<1>2. barrier < f /\ base < f
  BY FrameFacts DEF OnVideo, Takes
<1> DEFINE D == DOMAIN pending
<1>3. IsFiniteSet(D) /\ Cardinality(D) \in Nat /\ MaxPending \in Nat \ {0}
      /\ Cardinality(D) <= MaxPending /\ D \subseteq Frames
      /\ f \in Nat /\ sent[f].size \in Nat \ {0} /\ Len(sent) \in Nat
      /\ barrier \in 0..Len(sent)
  BY FrameFacts, StreamOK DEF TypeOK, PendingTypeOK, NetTypeOK
<1>4. \A g \in D : pending[g] \in 1..sent[g].size
  BY DEF TypeOK, PendingTypeOK
<1>5. asks \subseteq {"start", "keyframe"} /\ missed \subseteq Frames
  BY DEF TypeOK, HostTypeOK, NetTypeOK
<1>6. CASE OpenSlot(f) /\ Full
  <2>1. D # {}
    BY <1>3, <1>6, FS_EmptySet DEF Full
  <2>2. Oldest \in D /\ Oldest \in Frames /\ Oldest \in 1..Len(sent)
    BY <2>1, OldestIsFirst DEF Frames
  <2>3. /\ pending' = [g \in (D \ {Oldest}) \cup {f} |-> IF g = f THEN 1 ELSE pending[g]]
        /\ barrier' = LaterOf(barrier, Oldest)
        /\ lossEvent' = TRUE /\ asks' = Asking(session') /\ missed' = missed \cup {Oldest}
        /\ f \notin D
    BY <1>6 DEF OpenSlot
  <2>4. DOMAIN pending' = (D \ {Oldest}) \cup {f}
    BY <2>3
  <2>5. Cardinality((D \ {Oldest}) \cup {f}) = Cardinality(D)
    <3>1. IsFiniteSet(D \ {Oldest}) /\ Cardinality(D \ {Oldest}) = Cardinality(D) - 1
      BY <1>3, <2>2, FS_RemoveElement
    <3>2. Cardinality((D \ {Oldest}) \cup {f}) = Cardinality(D \ {Oldest}) + 1
      BY <2>3, <3>1, FS_AddElement
    <3> QED BY <1>3, <3>1, <3>2
  <2>6. \A g \in DOMAIN pending' : pending'[g] \in 1..sent[g].size
    BY <1>3, <1>4, <2>3
  <2>7. PendingTypeOK'
    BY <1>1, <1>3, <2>4, <2>5, <2>6 DEF PendingTypeOK
  <2>8. barrier' \in 0..Len(sent) /\ barrier <= barrier'
    BY <1>3, <2>2, <2>3 DEF LaterOf
  <2>9. asks' \subseteq {"start", "keyframe"}
    BY <1>5, <2>3 DEF Asking
  <2> QED BY <1>2, <1>5, <2>2, <2>3, <2>4, <2>7, <2>8, <2>9
<1>7. CASE OpenSlot(f) /\ ~Full
  <2>1. /\ pending' = [g \in D \cup {f} |-> IF g = f THEN 1 ELSE pending[g]]
        /\ UNCHANGED <<barrier, lossEvent, asks, missed>> /\ f \notin D
    BY <1>7 DEF OpenSlot
  <2>2. DOMAIN pending' = D \cup {f}
    BY <2>1
  <2>3. Cardinality(D \cup {f}) <= MaxPending
    <3>1. Cardinality(D \cup {f}) = Cardinality(D) + 1
      BY <1>3, <2>1, FS_AddElement
    <3> QED BY <1>3, <1>7, <3>1 DEF Full
  <2>4. \A g \in DOMAIN pending' : pending'[g] \in 1..sent[g].size
    BY <1>3, <1>4, <2>1
  <2>5. PendingTypeOK'
    BY <1>1, <1>3, <2>2, <2>3, <2>4 DEF PendingTypeOK
  <2> QED BY <1>2, <1>3, <1>5, <2>1, <2>2, <2>5
<1>8. CASE FillSlot(f)
  <2>1. /\ pending' = [pending EXCEPT ![f] = @ + 1] /\ f \in D /\ pending[f] # sent[f].size
        /\ UNCHANGED <<barrier, lossEvent, asks, missed>>
    BY <1>8 DEF FillSlot, Complete
  <2>2. DOMAIN pending' = D /\ pending'[f] = pending[f] + 1
        /\ \A g \in D : g # f => pending'[g] = pending[g]
    BY <2>1
  <2>3. pending[f] + 1 \in 1..sent[f].size
    BY <1>3, <1>4, <2>1
  <2>4. \A g \in DOMAIN pending' : pending'[g] \in 1..sent[g].size
    BY <1>4, <2>2, <2>3
  <2>5. PendingTypeOK'
    BY <1>1, <1>3, <2>2, <2>4 DEF PendingTypeOK
  <2> QED BY <1>2, <1>3, <1>5, <2>1, <2>2, <2>5
<1> QED BY <1>6, <1>7, <1>8 DEF OnVideo

\* So video that comes late, again or out of order keeps the frames in order, and a frame
\* that made room is told of.
LEMMA OnVideoInv ==
  ASSUME IInv, NEW f \in Frames, OnVideo(f)
  PROVE  IInv'
<1>1. /\ UNCHANGED <<host, down, base, waitingForIdr, keyframeWanted, decQueue, flags,
                     decoding, surfaces>>
      /\ netAt' = "poll" /\ session' \in {session, "Streaming"} /\ assembling' = TRUE
  BY DEF OnVideo
<1>2. UNCHANGED sent /\ Frames' = Frames /\ \A k : IsIdr(k)' <=> IsIdr(k)
  BY <1>1, SameFrames DEF host
<1>3. /\ PendingTypeOK'
      /\ DOMAIN pending' \subseteq DOMAIN pending \cup {f}
      /\ barrier < f /\ base < f
      /\ barrier' \in 0..Len(sent) /\ barrier <= barrier'
      /\ missed' \subseteq Frames
      /\ asks' \subseteq {"start", "keyframe"}
      /\ lossEvent' = TRUE \/ UNCHANGED <<lossEvent, missed>>
  BY SlotFacts DEF IInv
<1>4. /\ Len(sent) \in Nat /\ f \in Nat /\ barrier \in Nat /\ base \in Nat /\ barrier' \in Nat
      /\ missed \subseteq Nat /\ Handed \subseteq Nat
  BY <1>3, FrameFacts DEF IInv, Handed
<1>5. HostTypeOK'
  BY <1>1, <1>3 DEF IInv, TypeOK, HostTypeOK, host, down
<1>6. NetTypeOK'
  <2>1. lossEvent' \in BOOLEAN /\ assembling' \in BOOLEAN
    BY <1>1, <1>3 DEF IInv, TypeOK, NetTypeOK
  <2> QED BY <1>1, <1>2, <1>3, <2>1 DEF IInv, TypeOK, NetTypeOK
<1>7. QueueTypeOK' /\ DecodeTypeOK'
  BY <1>1, <1>2 DEF IInv, TypeOK, QueueTypeOK, DecodeTypeOK, flags, decoding, surfaces, down
<1>8. InQueue' = InQueue /\ Sorted' = Sorted /\ Handed' = Handed
  BY <1>1, SameQueue DEF Handed, decoding
<1>9. \A k \in Nat : Behind(k) => Behind(k)' /\ k < f
  BY <1>1, <1>3, <1>4 DEF Behind
<1>10. OrderInv'
  <2>1. \A k \in Handed : Behind(k)' /\ \A p \in DOMAIN pending' : k < p
    BY <1>3, <1>4, <1>9 DEF IInv, OrderInv
  <2> QED BY <1>1, <1>8, <2>1 DEF IInv, OrderInv, decoding
<1>11. DecodeInv' /\ LossInv' /\ SurfaceLetGo'
  BY <1>1 DEF IInv, DecodeInv, LossInv, SurfaceLetGo, decoding, surfaces
<1>12. RepairInv'
  <2>1. CASE lossEvent' = TRUE
    BY <2>1 DEF RepairInv, Wanted
  <2>2. CASE UNCHANGED <<lossEvent, missed>>
    <3>1. Wanted' = Wanted /\ \A m : Coming(m)' = Coming(m)
      BY <1>1, <1>2, <1>8, <2>2 DEF Wanted, Coming, flags, decoding
    <3>2. \A m \in missed : Past(m) => Past(m)'
      BY <1>1, <1>3, <1>4, <1>8, <1>9 DEF Past, decoding
    <3> QED BY <1>1, <2>2, <3>1, <3>2 DEF IInv, RepairInv, decoding
  <2> QED BY <1>3, <2>1, <2>2
<1> QED BY <1>3, <1>5, <1>6, <1>7, <1>10, <1>11, <1>12 DEF IInv, TypeOK

\* A frame that waits no longer leaves fewer, and of the others what was known.
LEMMA WithoutFacts ==
  ASSUME TypeOK, NEW f \in DOMAIN pending, pending' = Without(f), UNCHANGED sent
  PROVE  PendingTypeOK' /\ DOMAIN pending' = DOMAIN pending \ {f}
<1> DEFINE D == DOMAIN pending
<1>1. IsFiniteSet(D) /\ Cardinality(D) \in Nat /\ Cardinality(D) <= MaxPending
      /\ MaxPending \in Nat /\ D \subseteq Frames
  BY FrameFacts, StreamOK DEF TypeOK, PendingTypeOK
<1>2. DOMAIN pending' = D \ {f} /\ \A g \in D \ {f} : pending'[g] = pending[g]
  BY DEF Without
<1>3. Cardinality(D \ {f}) <= MaxPending
  <2>1. Cardinality(D \ {f}) = Cardinality(D) - 1
    BY <1>1, FS_RemoveElement
  <2> QED BY <1>1, <2>1
<1>4. \A g \in DOMAIN pending' : pending'[g] \in 1..sent[g].size
  BY <1>2 DEF TypeOK, PendingTypeOK
<1>5. Frames' = Frames
  BY SameFrames
<1> QED BY <1>1, <1>2, <1>3, <1>4, <1>5 DEF PendingTypeOK

\* PopReady hands on the oldest frame: after all that was handed on, before all that waits,
\* and with the request that it answers or the one that is told of what it pushed out.
LEMMA PopReadyInv ==
  ASSUME IInv, PopReady
  PROVE  IInv'
<1> DEFINE O == Oldest
<1>1. /\ UNCHANGED <<host, asks, down, netAt, session, base, assembling, lossEvent,
                     decodeFailed, decoderOpened, rebuildDecoder, decoding, surfaces>>
      /\ barrier' = O /\ waitingForIdr' = FALSE /\ pending' = Without(O)
      /\ keyframeWanted' = (keyframeWanted /\ ~IsIdr(O))
      /\ Enqueue(O) /\ (waitingForIdr => IsIdr(O))
      /\ missed' = {f \in missed \cup Overflown : IsIdr(O) => f < O}
  BY DEF PopReady
<1>2. O \in DOMAIN pending /\ O \in Frames /\ \A p \in DOMAIN pending : p = O \/ O < p
  BY OldestIsFirst DEF PopReady, Polling, IInv
<1>3. UNCHANGED sent /\ Frames' = Frames /\ \A k : IsIdr(k)' <=> IsIdr(k)
  BY <1>1, SameFrames DEF host
<1>4. PendingTypeOK' /\ DOMAIN pending' = DOMAIN pending \ {O}
  BY <1>1, <1>2, <1>3, WithoutFacts DEF IInv
<1>5. /\ Len(sent) \in Nat /\ O \in Nat \ {0} /\ O \in 0..Len(sent) /\ missed \subseteq Nat \ {0}
      /\ InQueue \subseteq Frames /\ InQueue \subseteq Nat /\ frame \in Nat /\ shown \in Nat
      /\ DOMAIN pending \subseteq Nat
  <2>1. /\ Len(sent) \in Nat /\ Frames \subseteq Nat \ {0} /\ missed \subseteq Nat \ {0}
        /\ InQueue \subseteq Frames /\ frame \in Nat /\ shown \in Nat
        /\ DOMAIN pending \subseteq Nat
    BY FrameFacts DEF IInv
  <2>2. O \in 0..Len(sent)
    BY <1>2, <2>1 DEF Frames
  <2> QED BY <1>2, <2>1, <2>2
<1>6. /\ decQueue' \in Seq(Frames) /\ Len(decQueue') <= MaxQueued
      /\ O \in InQueue' /\ InQueue' \subseteq InQueue \cup {O}
      /\ \/ queueOverflow' = TRUE
         \/ UNCHANGED queueOverflow /\ InQueue \subseteq InQueue' /\ Overflown = {}
      /\ Sorted /\ (\A k \in InQueue : k < O) => Sorted'
  BY <1>1, <1>2, EnqueueFacts, StreamOK DEF IInv, TypeOK
<1>7. \A k \in Handed : k < O
  BY <1>2 DEF IInv, OrderInv
<1>8. HostTypeOK'
  BY <1>1 DEF IInv, TypeOK, HostTypeOK, host, down
<1>9. NetTypeOK'
  <2>1. waitingForIdr' \in BOOLEAN /\ keyframeWanted' \in BOOLEAN
    BY <1>1
  <2>2. missed' \subseteq Frames
    <3>1. Overflown \subseteq Frames
      BY StreamOK DEF Overflown, IInv, TypeOK, QueueTypeOK
    <3> QED BY <1>1, <3>1 DEF IInv, TypeOK, NetTypeOK
  <2> QED BY <1>1, <1>3, <1>5, <2>1, <2>2 DEF IInv, TypeOK, NetTypeOK
<1>10. QueueTypeOK'
  <2>1. queueOverflow' \in BOOLEAN
    BY <1>6 DEF IInv, TypeOK, QueueTypeOK
  <2> QED BY <1>1, <1>3, <1>6, <2>1 DEF IInv, TypeOK, QueueTypeOK
<1>11. DecodeTypeOK'
  BY <1>1, <1>3 DEF IInv, TypeOK, DecodeTypeOK, decoding, surfaces, down
<1>12. OrderInv'
  <2>1. Sorted'
    BY <1>6, <1>7 DEF IInv, OrderInv, Handed
  <2>2. frame' = frame /\ shown' = shown
    BY <1>1 DEF decoding
  <2>3. \A k \in InQueue' : frame < k /\ shown < k
    BY <1>6, <1>7 DEF IInv, OrderInv, Handed
  <2>4. Handed' \subseteq Handed \cup {O}
    BY <1>6, <2>2 DEF Handed
  <2>5. \A k \in Handed' : k <= O /\ k \in Nat
    <3>1. Handed \subseteq Nat
      BY <1>5 DEF Handed
    <3> QED BY <1>5, <1>7, <2>4, <3>1
  <2>6. \A k \in Handed' : Behind(k)' /\ \A p \in DOMAIN pending' : k < p
    BY <1>1, <1>2, <1>4, <1>5, <2>5 DEF Behind
  <2> QED BY <2>1, <2>2, <2>3, <2>6 DEF IInv, OrderInv
<1>13. DecodeInv' /\ LossInv' /\ SurfaceLetGo'
  BY <1>1, <1>2 DEF IInv, DecodeInv, LossInv, SurfaceLetGo, decoding, surfaces
<1>14. RepairInv'
  <2>1. CASE IsIdr(O)
    <3>1. \A m \in missed' \cup {0} : m < O
      BY <1>1, <1>5, <2>1
    <3>2. \A m \in missed' \cup {0} : Coming(m)'
      BY <1>3, <1>6, <2>1, <3>1 DEF Coming
    <3> QED BY <3>2 DEF RepairInv
  <2>2. CASE ~IsIdr(O) /\ queueOverflow' = TRUE
    BY <2>2 DEF RepairInv, Wanted
  <2>3. CASE /\ ~IsIdr(O)
             /\ UNCHANGED queueOverflow /\ InQueue \subseteq InQueue' /\ Overflown = {}
    <3>1. missed' = missed
      BY <1>1, <2>3
    <3>2. Wanted => Wanted'
      BY <1>1, <2>3 DEF Wanted
    <3>3. \A m : Coming(m) => Coming(m)'
      BY <1>1, <1>3, <2>3 DEF Coming, decoding
    <3>4. ASSUME NEW m \in missed, Past(m) PROVE Past(m)'
      <4>1. m < O /\ m \in Nat
        BY <1>2, <1>5, <3>4 DEF Past
      <4>2. \A k \in InQueue' : m < k
        BY <1>6, <3>4, <4>1 DEF Past
      <4>3. \A p \in DOMAIN pending' : m < p
        BY <1>4, <3>4 DEF Past
      <4>4. Behind(m)'
        BY <1>1, <1>5, <4>1 DEF Behind
      <4> QED BY <1>1, <3>4, <4>2, <4>3, <4>4 DEF Past, decoding
    <3> QED BY <1>1, <3>1, <3>2, <3>3, <3>4 DEF IInv, RepairInv, decoding
  <2> QED BY <1>6, <2>1, <2>2, <2>3
<1> QED BY <1>4, <1>8, <1>9, <1>10, <1>11, <1>12, <1>13, <1>14 DEF IInv, TypeOK

\* A frame that is given up is told of, and one that is skipped while no keyframe came leaves
\* the viewer waiting for one.
LEMMA DropInv ==
  ASSUME IInv, DropPreIdr \/ DropLost
  PROVE  IInv'
<1> DEFINE O == Oldest
<1>1. /\ UNCHANGED <<host, down, netAt, session, base, assembling, waitingForIdr,
                     keyframeWanted, decQueue, flags, decoding, surfaces>>
      /\ barrier' = LaterOf(barrier, O) /\ pending' = Without(O)
      /\ \/ waitingForIdr /\ UNCHANGED <<asks, lossEvent, missed>>
         \/ lossEvent' = TRUE /\ asks' = Asking(session) /\ missed' = missed \cup {O}
  BY DEF DropPreIdr, DropLost
<1>2. O \in DOMAIN pending /\ O \in Frames /\ \A p \in DOMAIN pending : p = O \/ O < p
  BY OldestIsFirst DEF DropPreIdr, DropLost, Polling, IInv
<1>3. UNCHANGED sent /\ Frames' = Frames /\ \A k : IsIdr(k)' <=> IsIdr(k)
  BY <1>1, SameFrames DEF host
<1>4. PendingTypeOK' /\ DOMAIN pending' = DOMAIN pending \ {O}
  BY <1>1, <1>2, <1>3, WithoutFacts DEF IInv
<1>5. barrier' \in 0..Len(sent) /\ barrier <= barrier' /\ barrier \in Nat /\ base \in Nat
      /\ Handed \subseteq Nat /\ barrier' \in Nat
  <2>1. /\ Len(sent) \in Nat /\ O \in 1..Len(sent) /\ barrier \in 0..Len(sent) /\ base \in Nat
        /\ Handed \subseteq Nat
    BY <1>2, FrameFacts DEF IInv, TypeOK, NetTypeOK, Frames, Handed
  <2> QED BY <1>1, <2>1 DEF LaterOf
<1>6. HostTypeOK'
  <2>1. asks' \subseteq {"start", "keyframe"}
    BY <1>1 DEF IInv, TypeOK, HostTypeOK, Asking
  <2> QED BY <1>1, <2>1 DEF IInv, TypeOK, HostTypeOK, host, down
<1>7. NetTypeOK'
  <2>1. lossEvent' \in BOOLEAN /\ missed' \subseteq Frames
    BY <1>1, <1>2 DEF IInv, TypeOK, NetTypeOK
  <2> QED BY <1>1, <1>3, <1>5, <2>1 DEF IInv, TypeOK, NetTypeOK
<1>8. QueueTypeOK' /\ DecodeTypeOK'
  BY <1>1, <1>3 DEF IInv, TypeOK, QueueTypeOK, DecodeTypeOK, flags, decoding, surfaces, down
<1>9. InQueue' = InQueue /\ Sorted' = Sorted /\ Handed' = Handed
  BY <1>1, SameQueue DEF Handed, decoding
<1>10. OrderInv'
  <2>1. \A k \in Handed : Behind(k)'
    <3>1. \A k \in Handed : k <= barrier \/ k <= base
      BY DEF IInv, OrderInv, Behind
    <3> QED BY <1>1, <1>5, <3>1 DEF Behind
  <2>2. \A k \in Handed : \A p \in DOMAIN pending' : k < p
    BY <1>4 DEF IInv, OrderInv
  <2> QED BY <1>1, <1>9, <2>1, <2>2 DEF IInv, OrderInv, decoding
<1>11. DecodeInv' /\ SurfaceLetGo'
  BY <1>1 DEF IInv, DecodeInv, SurfaceLetGo, decoding, surfaces
<1>12. LossInv'
  <2>1. assembling
    BY <1>2 DEF IInv, LossInv
  <2> QED BY <1>1, <2>1 DEF LossInv
<1>13. Wanted' /\ RepairInv'
  BY <1>1 DEF RepairInv, Wanted, flags
<1> QED BY <1>4, <1>6, <1>7, <1>8, <1>10, <1>11, <1>12, <1>13 DEF IInv, TypeOK

\* What ends a turn of the net thread, and what it makes of the flags.
LEMMA EndOfPollFacts ==
  ASSUME IInv, Tick \/ Restart
  PROVE  /\ UNCHANGED <<host, missed, decQueue, decoding, surfaces>>
         /\ netAt' = "recv" /\ ~lossEvent'
         /\ lossEvent' \in BOOLEAN /\ keyframeWanted' \in BOOLEAN
         /\ queueOverflow' \in BOOLEAN /\ decodeFailed' \in BOOLEAN /\ decoderOpened' \in BOOLEAN
         /\ Wanted => keyframeWanted' \/ waitingForIdr
<1>1. EndOfPoll
  BY DEF Tick, Restart
<1>2. UNCHANGED <<host, missed, decQueue, decoding, surfaces>> /\ netAt' = "recv"
  BY <1>1 DEF EndOfPoll
<1>3. lossEvent' = FALSE /\ queueOverflow' = FALSE /\ decodeFailed' = FALSE
      /\ decoderOpened' = FALSE
  BY <1>1 DEF EndOfPoll
<1>4. keyframeWanted' = \/ keyframeWanted
                        \/ assembling /\ (lossEvent \/ waitingForIdr)
                        \/ queueOverflow \/ decodeFailed \/ decoderOpened
  BY <1>1 DEF EndOfPoll
<1>5. Wanted => keyframeWanted' \/ waitingForIdr
  BY <1>4 DEF Wanted, IInv, LossInv
<1> QED BY <1>2, <1>3, <1>4, <1>5

\* A loss that was told and what the decode thread flagged are wanted from then on.
LEMMA TickInv ==
  ASSUME IInv, Tick
  PROVE  IInv'
<1>1. /\ UNCHANGED <<host, missed, decQueue, decoding, surfaces>>
      /\ netAt' = "recv" /\ ~lossEvent'
      /\ lossEvent' \in BOOLEAN /\ keyframeWanted' \in BOOLEAN
      /\ queueOverflow' \in BOOLEAN /\ decodeFailed' \in BOOLEAN /\ decoderOpened' \in BOOLEAN
      /\ Wanted => keyframeWanted' \/ waitingForIdr
  BY EndOfPollFacts
<1>2. /\ UNCHANGED <<down, session, base, assembling, pending, barrier, waitingForIdr,
                     rebuildDecoder>>
      /\ asks' \subseteq asks \cup {"keyframe"}
  BY DEF Tick, Asking
<1>3. UNCHANGED sent /\ Frames' = Frames /\ \A k : IsIdr(k)' <=> IsIdr(k)
  BY <1>1, SameFrames DEF host
<1>4. HostTypeOK'
  BY <1>1, <1>2 DEF IInv, TypeOK, HostTypeOK, host, down
<1>5. NetTypeOK' /\ PendingTypeOK'
  BY <1>1, <1>2, <1>3 DEF IInv, TypeOK, NetTypeOK, PendingTypeOK
<1>6. QueueTypeOK' /\ DecodeTypeOK'
  BY <1>1, <1>2, <1>3 DEF IInv, TypeOK, QueueTypeOK, DecodeTypeOK, decoding, surfaces, down
<1>7. InQueue' = InQueue /\ Sorted' = Sorted /\ Handed' = Handed
  BY <1>1, SameQueue DEF Handed, decoding
<1>8. OrderInv'
  BY <1>1, <1>2, <1>7 DEF IInv, OrderInv, Behind, decoding
<1>9. DecodeInv' /\ LossInv' /\ SurfaceLetGo'
  BY <1>1, <1>2 DEF IInv, DecodeInv, LossInv, SurfaceLetGo, decoding, surfaces
<1>10. RepairInv'
  <2>1. Wanted => Wanted'
    BY <1>1, <1>2 DEF Wanted
  <2>2. \A m : (Coming(m) <=> Coming(m)') /\ (Past(m) <=> Past(m)')
    BY <1>1, <1>2, <1>3, <1>7 DEF Coming, Past, Behind, decoding
  <2> QED BY <1>1, <2>1, <2>2 DEF IInv, RepairInv, decoding
<1> QED BY <1>4, <1>5, <1>6, <1>8, <1>9, <1>10 DEF IInv, TypeOK

\* A new connection begins behind all that was handed on, and waits for a keyframe.
LEMMA RestartInv ==
  ASSUME IInv, Restart
  PROVE  IInv'
<1>1. /\ UNCHANGED <<host, missed, decQueue, decoding, surfaces>>
      /\ netAt' = "recv" /\ ~lossEvent'
      /\ lossEvent' \in BOOLEAN /\ keyframeWanted' \in BOOLEAN
      /\ queueOverflow' \in BOOLEAN /\ decodeFailed' \in BOOLEAN /\ decoderOpened' \in BOOLEAN
  BY EndOfPollFacts
<1>2. /\ session' = "Hello" /\ base' = Len(sent) /\ pending' = <<>> /\ barrier' = 0 /\ asks' = {}
      /\ upsets < MaxUpsets /\ upsets' = upsets + 1
  BY DEF Restart, Upset
<1>3. waitingForIdr' = TRUE /\ rebuildDecoder' = TRUE /\ assembling' = FALSE /\ reconfig' = FALSE
  BY DEF Restart
<1>4. UNCHANGED sent /\ Frames' = Frames /\ Len(sent) \in Nat /\ Handed \subseteq 0..Len(sent)
  <2>1. UNCHANGED sent /\ Frames' = Frames
    BY <1>1, SameFrames DEF host
  <2>2. Len(sent) \in Nat /\ InQueue \subseteq 1..Len(sent)
    BY FrameFacts DEF IInv, Frames
  <2> QED BY <2>1, <2>2 DEF Handed, IInv, TypeOK, DecodeTypeOK
<1>5. upsets' \in 0..MaxUpsets /\ upsets <= upsets' /\ upsets \in Nat /\ upsets' \in Nat
  BY <1>2, StreamOK DEF IInv, TypeOK, HostTypeOK
<1>6. HostTypeOK'
  BY <1>1, <1>2, <1>3, <1>5 DEF IInv, TypeOK, HostTypeOK, host
<1>7. NetTypeOK'
  <2>1. waitingForIdr' \in BOOLEAN /\ assembling' \in BOOLEAN
    BY <1>3
  <2>2. base' \in 0..Len(sent) /\ barrier' \in 0..Len(sent) /\ UNCHANGED missed
    BY <1>1, <1>2, <1>4
  <2> QED BY <1>1, <1>2, <1>4, <2>1, <2>2 DEF IInv, TypeOK, NetTypeOK
<1>8. DOMAIN pending' = {} /\ PendingTypeOK'
  <2>1. DOMAIN pending' = {}
    BY <1>2
  <2> QED BY <2>1, FS_EmptySet, StreamOK DEF PendingTypeOK
<1>9. QueueTypeOK'
  BY <1>1, <1>3, <1>4 DEF IInv, TypeOK, QueueTypeOK
<1>10. DecodeTypeOK'
  <2>1. surfaceGen' \in 1..upsets' + 1
    <3>1. surfaceGen \in 1..upsets + 1 /\ surfaceGen' = surfaceGen
      BY <1>1 DEF IInv, TypeOK, DecodeTypeOK, surfaces
    <3> QED BY <1>2, <1>5, <3>1
  <2> QED BY <1>1, <1>4, <2>1 DEF IInv, TypeOK, DecodeTypeOK, decoding, surfaces
<1>11. InQueue' = InQueue /\ Sorted' = Sorted /\ Handed' = Handed
  BY <1>1, SameQueue DEF Handed, decoding
<1>12. OrderInv'
  <2>1. \A k \in Handed : Behind(k)'
    BY <1>2, <1>4 DEF Behind
  <2> QED BY <1>1, <1>8, <1>11, <2>1 DEF IInv, OrderInv, decoding
<1>13. DecodeInv' /\ LossInv' /\ SurfaceLetGo'
  BY <1>1, <1>8 DEF IInv, DecodeInv, LossInv, SurfaceLetGo, decoding, surfaces
<1>14. RepairInv'
  BY <1>3 DEF RepairInv, Wanted
<1> QED BY <1>6, <1>7, <1>8, <1>9, <1>10, <1>12, <1>13, <1>14 DEF IInv, TypeOK

-----------------------------------------------------------------------------
(* The decode thread and the surface.                                      *)

\* What the decode thread does not touch keeps its type.
LEMMA DecodeThreadType ==
  ASSUME IInv, QueueTypeOK', DecodeTypeOK',
         UNCHANGED <<host, asks, down, netAt, session, base, assembly, keyframeWanted, missed>>
  PROVE  TypeOK' /\ LossInv'
<1>1. UNCHANGED sent /\ Frames' = Frames
  BY SameFrames DEF host
<1>2. HostTypeOK'
  BY DEF IInv, TypeOK, HostTypeOK, host, down
<1>3. NetTypeOK' /\ PendingTypeOK' /\ LossInv'
  BY <1>1 DEF IInv, TypeOK, NetTypeOK, PendingTypeOK, LossInv, assembly
<1> QED BY <1>2, <1>3 DEF TypeOK

\* A decoder that closes shows nothing and lacks nothing.
LEMMA ClosedFacts ==
  ASSUME IInv, Closed, UNCHANGED <<host, assembly, base, missed, decQueue>>,
         Wanted => Wanted',
         frame' = frame \/ (frame' = 0 /\ frame # 0)
  PROVE  OrderInv' /\ RepairInv'
<1>1. /\ barrier \in Nat /\ base \in Nat /\ missed \subseteq Nat \ {0}
      /\ Frames \subseteq Nat \ {0} /\ InQueue \subseteq Frames /\ InQueue \subseteq Nat \ {0}
      /\ DOMAIN pending \subseteq Nat \ {0} /\ frame \in Nat
  BY FrameFacts DEF IInv, TypeOK, PendingTypeOK
<1>2. InQueue' = InQueue /\ Sorted' = Sorted /\ shown' = 0 /\ lacks' = {} /\ decoder' = 0
  BY SameQueue DEF Closed
<1>3. \A k : IsIdr(k)' <=> IsIdr(k)
  BY SameFrames DEF host
<1>4. Handed' \subseteq Handed \cup {0}
  BY <1>2 DEF Handed
<1>5. OrderInv'
  <2>1. \A k \in InQueue' : frame' < k /\ shown' < k
    BY <1>1, <1>2 DEF IInv, OrderInv
  <2>2. frame' # 0 => shown' < frame'
    BY <1>1, <1>2
  <2>3. \A k \in Handed' : Behind(k)' /\ \A p \in DOMAIN pending' : k < p
    BY <1>1, <1>4 DEF IInv, OrderInv, Behind, assembly
  <2> QED BY <1>2, <2>1, <2>2, <2>3 DEF IInv, OrderInv
<1>6. ASSUME NEW m \in missed, Past(m) PROVE Past(m)'
  BY <1>1, <1>2, <1>6 DEF Past, Behind, assembly
<1>7. ASSUME NEW m \in missed, Coming(m) PROVE Coming(m)' \/ Past(m)'
  <2>1. PICK k \in InQueue \cup {frame} : m < k /\ IsIdr(k)
    BY <1>7 DEF Coming
  <2>2. CASE k \in InQueue \/ frame' = frame
    BY <1>2, <1>3, <2>1, <2>2 DEF Coming
  <2>3. CASE k = frame /\ frame' = 0 /\ frame # 0
    <3>1. m \in Nat /\ m < frame
      BY <1>1, <2>1, <2>3
    <3>2. \A q \in InQueue : m < q
      BY <1>1, <3>1 DEF IInv, OrderInv
    <3>3. (\A p \in DOMAIN pending : m < p) /\ Behind(m)
      <4>1. (\A p \in DOMAIN pending : frame < p) /\ Behind(frame)
        BY DEF IInv, OrderInv, Handed
      <4> QED BY <1>1, <3>1, <4>1 DEF Behind
    <3> QED BY <1>2, <2>3, <3>2, <3>3 DEF Past, Behind, assembly
  <2> QED BY <2>1, <2>2, <2>3
<1>8. RepairInv'
  BY <1>2, <1>6, <1>7 DEF IInv, RepairInv
<1> QED BY <1>5, <1>8

\* The decode thread sees a swap, closes its decoder, and only then lets the caller go.
LEMMA SwapInv ==
  ASSUME IInv, SeeSwap \/ AckSwap
  PROVE  IInv'
<1>1. UNCHANGED <<host, asks, down, netAt, session, base, assembly, keyframeWanted, missed,
                  decQueue, queueOverflow, decodeFailed, decoderOpened, frame, surface,
                  surfaceGen, usable>>
  BY DEF SeeSwap, AckSwap, net, flags, surfaces
<1>2. Wanted' = Wanted /\ UNCHANGED sent /\ Frames' = Frames
  BY <1>1, SameFrames DEF Wanted, assembly, host
<1>3. QueueTypeOK'
  <2>1. rebuildDecoder' \in BOOLEAN
    BY DEF SeeSwap, AckSwap, flags, IInv, TypeOK, QueueTypeOK
  <2> QED BY <1>1, <1>2, <2>1 DEF IInv, TypeOK, QueueTypeOK
<1>4. CASE SeeSwap
  <2>1. /\ UNCHANGED <<decoder, shown, lacks, surfaceAckGen>>
        /\ decAt = "ack" /\ decAt' = "swap" /\ surfaceAckGen # surfaceGen
    BY <1>4 DEF SeeSwap, surfaces
  <2>2. DecodeTypeOK'
    BY <1>1, <1>2, <2>1 DEF IInv, TypeOK, DecodeTypeOK, down
  <2>3. InQueue' = InQueue /\ Sorted' = Sorted /\ Handed' = Handed
    BY <1>1, <2>1, SameQueue DEF Handed
  <2>4. OrderInv' /\ DecodeInv' /\ SurfaceLetGo'
    BY <1>1, <2>1, <2>3 DEF IInv, OrderInv, Behind, DecodeInv, SurfaceLetGo, assembly
  <2>5. RepairInv'
    BY <1>1, <1>2, <2>1, <2>3
       DEF IInv, RepairInv, Coming, Past, Behind, IsIdr, assembly
  <2> QED BY <1>1, <1>3, <2>2, <2>4, <2>5, DecodeThreadType DEF IInv
<1>5. CASE AckSwap
  <2>1. /\ Closed /\ decAt = "swap" /\ decAt' = "ack" /\ surfaceAckGen' = surfaceGen
        /\ decoder' = 0 /\ shown' = 0 /\ lacks' = {}
    BY <1>5 DEF AckSwap, Closed
  <2>2. surfaceGen \in 1..upsets + 1 /\ upsets \in Nat /\ Len(sent) \in Nat
    BY FrameFacts, StreamOK DEF IInv, TypeOK, HostTypeOK, DecodeTypeOK
  <2>3. surfaceAckGen' \in 1..surfaceGen /\ 0 \in 0..surfaceGen /\ 0 \in 0..Len(sent)
    BY <2>1, <2>2
  <2>4. DecodeTypeOK'
    BY <1>1, <1>2, <2>1, <2>3 DEF IInv, TypeOK, DecodeTypeOK, down
  <2>5. OrderInv' /\ RepairInv'
    BY <1>1, <1>2, <2>1, ClosedFacts
  <2>6. DecodeInv' /\ SurfaceLetGo'
    BY <1>1, <2>1 DEF IInv, DecodeInv, SurfaceLetGo
  <2> QED BY <1>1, <1>3, <2>4, <2>5, <2>6, DecodeThreadType DEF IInv
<1> QED BY <1>4, <1>5

\* The decode thread takes the first frame of its queue.
LEMMA NextFrameInv ==
  ASSUME IInv, NextFrame
  PROVE  IInv'
<1>1. /\ UNCHANGED <<host, asks, down, netAt, session, base, assembly, keyframeWanted, missed,
                     flags, surface, decoder, shown, lacks, surfaces>>
      /\ decAt = "ack" /\ decAt' = "ensure" /\ decQueue # <<>>
      /\ frame' = Head(decQueue) /\ decQueue' = Tail(decQueue)
  BY DEF NextFrame
<1>2. /\ decQueue' \in Seq(Frames) /\ Len(decQueue') <= Len(decQueue)
      /\ frame' \in Frames /\ InQueue = InQueue' \cup {frame'}
      /\ Sorted => Sorted' /\ \A k \in InQueue' : frame' < k
  BY <1>1, DequeueFacts DEF IInv, TypeOK
<1>3. UNCHANGED sent /\ Frames' = Frames /\ \A k : IsIdr(k)' <=> IsIdr(k)
  BY <1>1, SameFrames DEF host
<1>4. Frames \subseteq Nat \ {0} /\ missed \subseteq Nat \ {0} /\ frame = 0
  BY <1>1, FrameFacts DEF IInv, DecodeInv
<1>5. QueueTypeOK'
  <2>1. Len(decQueue') <= MaxQueued
    <3>1. Len(decQueue) \in Nat /\ Len(decQueue') \in Nat /\ Len(decQueue) <= MaxQueued
      BY <1>2 DEF IInv, TypeOK, QueueTypeOK
    <3> QED BY <1>2, <3>1, StreamOK
  <2> QED BY <1>1, <1>2, <1>3, <2>1 DEF IInv, TypeOK, QueueTypeOK, flags
<1>6. DecodeTypeOK'
  <2>1. frame' \in 0..Len(sent)
    BY <1>2, FrameFacts DEF Frames, IInv
  <2> QED BY <1>1, <1>3, <2>1 DEF IInv, TypeOK, DecodeTypeOK, surfaces, down
<1>7. Handed' \subseteq Handed
  BY <1>1, <1>2 DEF Handed
<1>8. OrderInv'
  BY <1>1, <1>2, <1>7 DEF IInv, OrderInv, Behind, assembly
<1>9. DecodeInv' /\ SurfaceLetGo'
  BY <1>1, <1>2, <1>4 DEF IInv, DecodeInv, SurfaceLetGo, surfaces
<1>10. RepairInv'
  <2>1. Wanted' = Wanted
    BY <1>1 DEF Wanted, assembly, flags
  <2>2. ASSUME NEW m \in missed \cup {0}, Coming(m) PROVE Coming(m)'
    <3>1. PICK k \in InQueue \cup {frame} : m < k /\ IsIdr(k)
      BY <2>2 DEF Coming
    <3>2. k # 0
      BY <1>4, <2>2, <3>1
    <3> QED BY <1>2, <1>3, <1>4, <3>1, <3>2 DEF Coming
  <2>3. \A m \in missed : Past(m) => Past(m)'
    BY <1>1, <1>2 DEF Past, Behind, assembly
  <2> QED BY <1>1, <2>1, <2>2, <2>3 DEF IInv, RepairInv
<1> QED BY <1>1, <1>5, <1>6, <1>8, <1>9, <1>10, DecodeThreadType DEF IInv

\* Before a frame is decoded the decoder is closed, if it is to be built again, and the
\* surface looked for; without one the frame is let go, and so is the picture.
LEMMA EnsureDecoderInv ==
  ASSUME IInv, EnsureDecoder
  PROVE  IInv'
<1>1. /\ UNCHANGED <<host, asks, down, netAt, session, base, assembly, keyframeWanted, missed,
                     decQueue, queueOverflow, decodeFailed, decoderOpened, surfaces>>
      /\ decAt = "ensure" /\ rebuildDecoder' = FALSE /\ frame # 0
  BY DEF EnsureDecoder, net, IInv, DecodeInv
<1>2. Wanted' = Wanted /\ UNCHANGED sent /\ Frames' = Frames
  BY <1>1, SameFrames DEF Wanted, assembly, host
<1>3. \/ /\ decoder # 0 /\ decAt' = "decode" /\ UNCHANGED <<decoder, shown, lacks, frame, surface>>
      \/ /\ Closed /\ usable /\ decAt' = "init" /\ surface' = surfaceGen /\ UNCHANGED frame
      \/ /\ Closed /\ decAt' = "ack" /\ frame' = 0 /\ UNCHANGED surface
  BY DEF EnsureDecoder
<1>4. QueueTypeOK'
  <2>1. rebuildDecoder' \in BOOLEAN
    BY <1>1
  <2> QED BY <1>1, <1>2, <2>1 DEF IInv, TypeOK, QueueTypeOK
<1>5. surfaceGen \in Nat \ {0} /\ 0 \in 0..surfaceGen /\ surfaceGen \in 0..surfaceGen
      /\ Len(sent) \in Nat /\ 0 \in 0..Len(sent)
  <2>1. surfaceGen \in 1..upsets + 1 /\ upsets \in Nat /\ Len(sent) \in Nat
    BY FrameFacts, StreamOK DEF IInv, TypeOK, HostTypeOK, DecodeTypeOK
  <2> QED BY <2>1
<1>6. DecodeTypeOK'
  <2>1. frame' \in 0..Len(sent) /\ shown' \in 0..Len(sent) /\ lacks' \subseteq 0..Len(sent)
    BY <1>3, <1>5 DEF IInv, TypeOK, DecodeTypeOK, Closed
  <2>2. surface' \in 0..surfaceGen /\ decoder' \in 0..surfaceGen
        /\ decAt' \in {"ack", "init", "decode"}
    BY <1>3, <1>5 DEF IInv, TypeOK, DecodeTypeOK, Closed
  <2> QED BY <1>1, <1>2, <2>1, <2>2 DEF IInv, TypeOK, DecodeTypeOK, surfaces, down
<1>7. DecodeInv' /\ SurfaceLetGo'
  BY <1>1, <1>3, <1>5 DEF IInv, DecodeInv, SurfaceLetGo, Closed, surfaces
<1>8. OrderInv' /\ RepairInv'
  <2>1. CASE Closed
    BY <1>1, <1>2, <1>3, <2>1, ClosedFacts
  <2>2. CASE UNCHANGED <<decoder, shown, lacks, frame>>
    <3>1. InQueue' = InQueue /\ Sorted' = Sorted /\ Handed' = Handed
      BY <1>1, <2>2, SameQueue DEF Handed
    <3>2. OrderInv'
      BY <1>1, <2>2, <3>1 DEF IInv, OrderInv, Behind, assembly
    <3>3. RepairInv'
      BY <1>1, <1>2, <2>2, <3>1 DEF IInv, RepairInv, Coming, Past, Behind, IsIdr, assembly
    <3> QED BY <3>2, <3>3
  <2> QED BY <1>3, <2>1, <2>2
<1> QED BY <1>1, <1>4, <1>6, <1>7, <1>8, DecodeThreadType DEF IInv

\* A decoder that opened, or could not, is told of.
LEMMA OpenDecoderInv ==
  ASSUME IInv, OpenDecoder
  PROVE  IInv'
<1>1. /\ UNCHANGED <<host, asks, down, netAt, session, base, assembly, keyframeWanted, missed,
                     decQueue, queueOverflow, rebuildDecoder, shown, lacks, surfaces>>
      /\ decAt = "init" /\ surface' = 0 /\ surface # 0 /\ decoder = 0 /\ frame # 0
  BY DEF OpenDecoder, net, IInv, DecodeInv
<1>2. UNCHANGED sent /\ Frames' = Frames
  BY <1>1, SameFrames DEF host
<1>3. \/ /\ decAt' = "decode" /\ decoder' = surface /\ decoderOpened' = TRUE
         /\ UNCHANGED <<frame, decodeFailed>>
      \/ /\ decAt' = "ack" /\ frame' = 0 /\ decodeFailed' = TRUE
         /\ UNCHANGED <<decoder, decoderOpened>>
  BY DEF OpenDecoder
<1>4. QueueTypeOK'
  <2>1. decodeFailed' \in BOOLEAN /\ decoderOpened' \in BOOLEAN
    BY <1>3 DEF IInv, TypeOK, QueueTypeOK
  <2> QED BY <1>1, <1>2, <2>1 DEF IInv, TypeOK, QueueTypeOK
<1>5. 0 \in 0..surfaceGen /\ 0 \in 0..Len(sent) /\ Len(sent) \in Nat
  <2>1. surfaceGen \in 1..upsets + 1 /\ upsets \in Nat /\ Len(sent) \in Nat
    BY FrameFacts, StreamOK DEF IInv, TypeOK, HostTypeOK, DecodeTypeOK
  <2> QED BY <2>1
<1>6. DecodeTypeOK'
  <2>1. frame' \in 0..Len(sent) /\ decoder' \in 0..surfaceGen /\ decAt' \in {"ack", "decode"}
    BY <1>3, <1>5 DEF IInv, TypeOK, DecodeTypeOK
  <2> QED BY <1>1, <1>2, <1>5, <2>1 DEF IInv, TypeOK, DecodeTypeOK, surfaces, down
<1>7. DecodeInv' /\ SurfaceLetGo'
  BY <1>1, <1>3 DEF IInv, DecodeInv, SurfaceLetGo, surfaces
<1>8. OrderInv'
  <2>1. InQueue' = InQueue /\ Sorted' = Sorted /\ Handed' \subseteq Handed \cup {0}
    BY <1>1, <1>3, SameQueue DEF Handed
  <2>2. /\ barrier \in Nat /\ base \in Nat /\ shown = 0
        /\ InQueue \subseteq Nat \ {0} /\ DOMAIN pending \subseteq Nat \ {0}
    BY <1>1, FrameFacts DEF IInv, DecodeInv, TypeOK, PendingTypeOK
  <2>3. \A k \in Handed' : Behind(k)' /\ \A p \in DOMAIN pending' : k < p
    BY <1>1, <2>1, <2>2 DEF IInv, OrderInv, Behind, assembly
  <2> QED BY <1>1, <1>3, <2>1, <2>2, <2>3 DEF IInv, OrderInv
<1>9. RepairInv'
  BY <1>3 DEF RepairInv, Wanted
<1> QED BY <1>1, <1>4, <1>6, <1>7, <1>8, <1>9, DecodeThreadType DEF IInv

\* A frame is decoded into the picture: what came between is lacking, unless it is a keyframe.
LEMMA DecodeInto ==
  ASSUME IInv, shown' = frame, lacks' = LacksWith(frame), frame' = 0, frame # 0, decoder # 0,
         UNCHANGED <<host, assembly, keyframeWanted, base, missed, decQueue, flags, decoder>>
  PROVE  /\ shown' \in 0..Len(sent) /\ lacks' \subseteq 0..Len(sent)
         /\ OrderInv' /\ RepairInv'
<1>1. /\ barrier \in Nat /\ base \in Nat /\ missed \subseteq Nat \ {0} /\ Len(sent) \in Nat
      /\ InQueue \subseteq Nat \ {0} /\ DOMAIN pending \subseteq Nat \ {0}
      /\ frame \in Nat \ {0} /\ shown \in Nat /\ frame <= Len(sent)
      /\ lacks \subseteq 0..Len(sent)
  BY FrameFacts DEF IInv, TypeOK, PendingTypeOK, DecodeTypeOK
<1>2. /\ InQueue' = InQueue /\ Sorted' = Sorted /\ Handed' \subseteq Handed \cup {0}
      /\ UNCHANGED <<pending, barrier, Wanted>> /\ \A k : IsIdr(k)' <=> IsIdr(k)
  <2>1. InQueue' = InQueue /\ Sorted' = Sorted
    BY SameQueue
  <2> QED BY <2>1, SameFrames DEF Handed, Wanted, assembly, flags, host
<1>3. \/ IsIdr(frame) /\ lacks' = {}
      \/ ~IsIdr(frame) /\ shown = 0 /\ lacks' = {0}
      \/ ~IsIdr(frame) /\ shown # 0 /\ lacks' = lacks \cup (shown + 1)..(frame - 1)
  BY DEF LacksWith
<1>4. lacks' \subseteq 0..Len(sent)
  <2>1. {0} \subseteq 0..Len(sent) /\ (shown + 1)..(frame - 1) \subseteq 0..Len(sent)
    BY <1>1
  <2> QED BY <1>1, <1>3, <2>1
<1>5. OrderInv'
  <2>1. \A k \in InQueue : 0 < k /\ frame < k
    BY <1>1 DEF IInv, OrderInv
  <2>2. \A k \in Handed' : Behind(k)' /\ \A p \in DOMAIN pending' : k < p
    BY <1>1, <1>2 DEF IInv, OrderInv, Behind
  <2> QED BY <1>2, <2>1, <2>2 DEF IInv, OrderInv
<1>6. ASSUME NEW m \in missed, Past(m) PROVE Past(m)'
  <2>1. m \in Nat \ {0} /\ m < frame /\ (shown = 0 \/ m < shown) /\ m \notin lacks
    BY <1>1, <1>6 DEF Past
  <2>2. m \notin lacks'
    BY <1>1, <1>3, <2>1
  <2> QED BY <1>2, <1>6, <2>1, <2>2 DEF Past, Behind
<1>7. ASSUME NEW m \in missed, Coming(m) PROVE Coming(m)' \/ Past(m)'
  <2>1. PICK k \in InQueue \cup {frame} : m < k /\ IsIdr(k)
    BY <1>7 DEF Coming
  <2>2. CASE k \in InQueue
    BY <1>2, <2>1, <2>2 DEF Coming
  <2>3. CASE k = frame
    <3>1. m \in Nat /\ m < frame /\ lacks' = {}
      BY <1>1, <1>3, <2>1, <2>3
    <3>2. \A q \in InQueue : m < q
      BY <1>1, <3>1 DEF IInv, OrderInv
    <3>3. (\A p \in DOMAIN pending : m < p) /\ Behind(m)
      <4>1. (\A p \in DOMAIN pending : frame < p) /\ Behind(frame)
        BY DEF IInv, OrderInv, Handed
      <4> QED BY <1>1, <3>1, <4>1 DEF Behind
    <3> QED BY <1>2, <3>1, <3>2, <3>3 DEF Past, Behind
  <2> QED BY <2>1, <2>2, <2>3
<1>8. 0 \in lacks' \/ (decoder' # 0 /\ shown' = 0) => (Wanted \/ Coming(0))'
  <2> SUFFICES ASSUME 0 \in lacks' PROVE (Wanted \/ Coming(0))'
    OBVIOUS
  <2>1. ~IsIdr(frame) /\ (0 \in lacks \/ shown = 0)
    BY <1>1, <1>3
  <2>2. Wanted \/ Coming(0)
    BY <2>1 DEF IInv, RepairInv
  <2>3. Coming(0) => Coming(0)'
    BY <1>2, <2>1 DEF Coming
  <2> QED BY <1>2, <2>2, <2>3
<1>9. RepairInv'
  BY <1>2, <1>6, <1>7, <1>8 DEF IInv, RepairInv
<1> QED BY <1>1, <1>4, <1>5, <1>9

\* The frame in hand is decoded, or the decoder fails and is told of.
LEMMA DecodeStepInv ==
  ASSUME IInv, Decode
  PROVE  IInv'
<1>1. /\ UNCHANGED <<host, asks, down, netAt, session, base, assembly, keyframeWanted, missed,
                     decQueue, queueOverflow, decoderOpened, rebuildDecoder, surface, surfaces>>
      /\ decAt = "decode" /\ decAt' = "ack" /\ frame' = 0 /\ frame # 0 /\ decoder # 0
  BY DEF Decode, net, IInv, DecodeInv
<1>2. \/ shown' = frame /\ lacks' = LacksWith(frame) /\ UNCHANGED <<decoder, decodeFailed>>
      \/ Closed /\ decodeFailed' = TRUE
  BY DEF Decode
<1>3. UNCHANGED sent /\ Frames' = Frames
  BY <1>1, SameFrames DEF host
<1>4. QueueTypeOK'
  <2>1. decodeFailed' \in BOOLEAN
    BY <1>2 DEF IInv, TypeOK, QueueTypeOK
  <2> QED BY <1>1, <1>3, <2>1 DEF IInv, TypeOK, QueueTypeOK
<1>5. 0 \in 0..surfaceGen /\ 0 \in 0..Len(sent)
  <2>1. surfaceGen \in 1..upsets + 1 /\ upsets \in Nat /\ Len(sent) \in Nat
    BY FrameFacts, StreamOK DEF IInv, TypeOK, HostTypeOK, DecodeTypeOK
  <2> QED BY <2>1
<1>6. /\ shown' \in 0..Len(sent) /\ lacks' \subseteq 0..Len(sent) /\ decoder' \in 0..surfaceGen
      /\ OrderInv' /\ RepairInv'
  <2>1. CASE shown' = frame /\ lacks' = LacksWith(frame) /\ UNCHANGED <<decoder, decodeFailed>>
    BY <1>1, <2>1, DecodeInto DEF IInv, TypeOK, DecodeTypeOK, flags
  <2>2. CASE Closed /\ decodeFailed' = TRUE
    <3>1. shown' = 0 /\ lacks' = {} /\ decoder' = 0 /\ Wanted'
      BY <2>2 DEF Closed, Wanted
    <3> QED BY <1>1, <1>5, <2>2, <3>1, ClosedFacts
  <2> QED BY <1>2, <2>1, <2>2
<1>7. DecodeTypeOK'
  BY <1>1, <1>3, <1>5, <1>6 DEF IInv, TypeOK, DecodeTypeOK, surfaces, down
<1>8. DecodeInv' /\ SurfaceLetGo'
  BY <1>1, <1>2 DEF IInv, DecodeInv, SurfaceLetGo, Closed, surfaces
<1> QED BY <1>1, <1>4, <1>6, <1>7, <1>8, DecodeThreadType DEF IInv

\* A surface that is given or taken has to be acknowledged.
LEMMA SetSurfaceInv ==
  ASSUME IInv, SetSurface
  PROVE  IInv'
<1>1. /\ UNCHANGED <<host, asks, reconfig, net, flags, decoding, surfaceAckGen>>
      /\ surfaceGen = surfaceAckGen /\ surfaceGen' = surfaceGen + 1
      /\ upsets < MaxUpsets /\ upsets' = upsets + 1
  BY DEF SetSurface, Upset
<1>2. usable' \in BOOLEAN
  BY DEF SetSurface
<1>3. UNCHANGED sent /\ Frames' = Frames /\ \A k : IsIdr(k)' <=> IsIdr(k)
  BY <1>1, SameFrames DEF host
<1>4. surfaceGen \in 1..upsets + 1 /\ upsets \in 0..MaxUpsets /\ MaxUpsets \in Nat
  BY StreamOK DEF IInv, TypeOK, HostTypeOK, DecodeTypeOK
<1>5. HostTypeOK'
  <2>1. upsets' \in 0..MaxUpsets
    BY <1>1, <1>4
  <2> QED BY <1>1, <2>1 DEF IInv, TypeOK, HostTypeOK, host
<1>6. NetTypeOK' /\ PendingTypeOK' /\ QueueTypeOK'
  BY <1>1, <1>3 DEF IInv, TypeOK, NetTypeOK, PendingTypeOK, QueueTypeOK, net, assembly, flags
<1>7. DecodeTypeOK'
  <2>1. surfaceGen' \in 1..upsets' + 1 /\ surfaceAckGen \in 1..surfaceGen'
        /\ 0..surfaceGen \subseteq 0..surfaceGen'
    BY <1>1, <1>4
  <2> QED BY <1>1, <1>2, <1>3, <2>1 DEF IInv, TypeOK, DecodeTypeOK, decoding
<1>8. InQueue' = InQueue /\ Sorted' = Sorted /\ Handed' = Handed
  BY <1>1, SameQueue DEF Handed, decoding, net
<1>9. OrderInv' /\ DecodeInv' /\ LossInv'
  BY <1>1, <1>8 DEF IInv, OrderInv, Behind, DecodeInv, LossInv, decoding, net, assembly
<1>10. SurfaceLetGo'
  BY <1>1, <1>4 DEF SurfaceLetGo
<1>11. RepairInv'
  BY <1>1, <1>3, <1>8 DEF IInv, RepairInv, Wanted, Coming, Past, Behind, decoding, net,
     assembly, flags
<1> QED BY <1>5, <1>6, <1>7, <1>9, <1>10, <1>11 DEF IInv, TypeOK

-----------------------------------------------------------------------------
\* So the invariant holds of every state of a stream.
LEMMA Invariance == Spec => []IInv
<1>1. IInv /\ [Next]_vars => IInv'
  <2> SUFFICES ASSUME IInv, [Next]_vars PROVE IInv'
    OBVIOUS
  <2>1. CASE UNCHANGED vars
    <3>1. UNCHANGED <<host, asks, down, netAt, session, base, assembly, keyframeWanted, missed,
                      decQueue, flags, decoding, surfaces>>
      BY <2>1 DEF vars
    <3>2. UNCHANGED sent /\ Frames' = Frames /\ \A k : IsIdr(k)' <=> IsIdr(k)
      BY <3>1, SameFrames DEF host
    <3>3. InQueue' = InQueue /\ Sorted' = Sorted /\ Handed' = Handed
      BY <3>1, SameQueue DEF Handed, decoding
    <3>4. QueueTypeOK' /\ DecodeTypeOK'
      BY <3>1, <3>2 DEF IInv, TypeOK, QueueTypeOK, DecodeTypeOK, flags, decoding, surfaces, down
    <3>5. TypeOK' /\ LossInv'
      BY <3>1, <3>4, DecodeThreadType
    <3>6. OrderInv' /\ DecodeInv' /\ SurfaceLetGo'
      BY <3>1, <3>3 DEF IInv, OrderInv, Behind, DecodeInv, SurfaceLetGo, decoding, assembly,
         surfaces
    <3>7. RepairInv'
      BY <3>1, <3>2, <3>3 DEF IInv, RepairInv, Wanted, Coming, Past, Behind, decoding,
         assembly, flags
    <3> QED BY <3>5, <3>6, <3>7 DEF IInv
  <2>2. CASE Host
    BY <2>2, HostInv
  <2>3. CASE Receive
    BY <2>3, OnVideoInv, MessageInv DEF Receive
  <2>4. CASE PollFrames \/ Restart
    BY <2>4, PopReadyInv, DropInv, TickInv, RestartInv DEF PollFrames
  <2>5. CASE DecodeThread
    BY <2>5, SwapInv, NextFrameInv, EnsureDecoderInv, OpenDecoderInv, DecodeStepInv
       DEF DecodeThread
  <2> QED BY <2>1, <2>2, <2>3, <2>4, <2>5, SetSurfaceInv DEF Next
<1> QED BY <1>1, InitInv, PTL DEF Spec

-----------------------------------------------------------------------------
\* For any bounds the variables of the stream keep their types: in particular no more frames
\* are put together, or wait to be decoded, than may be (kMaxPendingFrames, kMaxQueuedFrames).
THEOREM TypeCorrect == Spec => []TypeOK
<1>1. IInv => TypeOK
  BY DEF IInv
<1> QED BY <1>1, Invariance, PTL

\* For any loss, delay, repetition and reordering the decoder is given each frame once at
\* most, and in the order of their making (Reassembler's barrier, and the queue of onFrame).
THEOREM DecodedInOrder == Spec => []FramesInOrder
<1>1. IInv => FramesInOrder
  <2> SUFFICES ASSUME IInv PROVE FramesInOrder
    OBVIOUS
  <2>1. \A i \in DOMAIN decQueue : decQueue[i] \in InQueue
    BY DEF InQueue
  <2> QED BY <2>1 DEF IInv, OrderInv, Sorted, FramesInOrder
<1> QED BY <1>1, Invariance, PTL

\* A picture that lacks a frame the viewer saw itself lose, or that began without a keyframe,
\* never goes on unnoticed: a keyframe is wanted until one is in the queue of the decoder
\* (lossEvent_, queueOverflow_, decodeFailed_, decoderOpened_ and keyframeWanted_).
THEOREM DamageIsRepaired == Spec => []DamageIsBeingRepaired
<1>1. IInv => DamageIsBeingRepaired
  <2> SUFFICES ASSUME IInv, NEW m \in lacks \cap (missed \cup {0}) PROVE AskedFor
    BY DEF DamageIsBeingRepaired
  <2>1. Wanted \/ Coming(m)
    BY DEF IInv, RepairInv, Past
  <2>2. CASE Wanted
    BY <2>2 DEF Wanted, AskedFor
  <2>3. CASE Coming(m)
    <3>1. PICK k \in InQueue \cup {frame} : m < k /\ IsIdr(k)
      BY <2>3 DEF Coming
    <3>2. m \in Nat /\ frame \in Nat
      BY FrameFacts DEF IInv
    <3> QED BY <3>1, <3>2 DEF AskedFor, InQueue
  <2> QED BY <2>1, <2>2, <2>3
<1> QED BY <1>1, Invariance, PTL

\* Once SetSurface has returned, no decoder is open on an earlier surface, or being opened.
THEOREM SurfacesAreLetGo == Spec => []SurfaceLetGo
<1>1. IInv => SurfaceLetGo
  BY DEF IInv
<1> QED BY <1>1, Invariance, PTL
=============================================================================
