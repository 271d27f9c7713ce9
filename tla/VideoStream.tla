---------------------------- MODULE VideoStream ----------------------------
(***************************************************************************)
(* One viewer's picture, from the encoder of a source to the decoder of    *)
(* its viewer.  The host numbers the frames and cuts them into datagrams;  *)
(* the network may lose, delay, reorder and repeat each one (a repeat is   *)
(* also what a NACK brings).  The viewer's net thread puts frames together *)
(* (Reassembler), asks for a keyframe when one is lost (ScreenClient) and  *)
(* queues what is whole; its decode thread takes from the queue; and the   *)
(* user interface swaps the surface the decoder draws on.                  *)
(*                                                                         *)
(* A frame is a number.  Of its datagrams only how many different ones     *)
(* arrived counts: with the parity, any so many of them make it whole.     *)
(***************************************************************************)
EXTENDS Integers, FiniteSets, Sequences

CONSTANTS
  Sizes,         \* how many datagrams may make a frame whole
  MaxPending,    \* kMaxPendingFrames
  MaxQueued,     \* kMaxQueuedFrames
  MaxFrames,     \* bound on the frames the host sends
  MaxUpsets      \* bound on new dials, changed offers and swaps of the surface, together

ASSUME StreamOK ==
  /\ Sizes \subseteq Nat \ {0} /\ MaxPending \in Nat \ {0} /\ MaxQueued \in Nat \ {0}
  /\ MaxFrames \in Nat /\ MaxUpsets \in Nat

VARIABLES
  \* The host.
  sent,          \* the frames sent so far: [idr, size]
  forceIdr,      \* forceIdr
  serving,       \* the source's session is Streaming
  asks,          \* on their way to it: "start", or "keyframe" (also InvalidateRef)
  reconfig,      \* a RECONFIG is on its way to the viewer
  \* The net thread of the viewer.
  netAt,         \* the part of RunScreenViewerLoop it is in
  session,       \* state_ of its ScreenClientSession
  base,          \* frames sent before this connection
  assembling,    \* reasm_ exists
  pending,       \* pending_: frame -> how many different datagrams arrived
  barrier,       \* barrierId_, 0 without one
  waitingForIdr, \* waitingForIdr_
  lossEvent,     \* lossEvent_
  keyframeWanted,\* keyframeWanted_
  upsets,        \* new dials, changed offers and swaps so far
  \* What the net thread and the decode thread share.
  decQueue,      \* decQueue_
  queueOverflow, decodeFailed, decoderOpened, rebuildDecoder,
  \* The decode thread.
  decAt,         \* where in DecodeThread it is
  frame,         \* the frame in its hands, 0 for none
  surface,       \* the surface it took for Init, 0 outside it
  decoder,       \* the surface the decoder is open on, 0 when closed
  \* The surface.
  surfaceGen, surfaceAckGen, \* surfaceGen_, surfaceAckGen_
  usable         \* surface_ is one a decoder can draw on

\* What became of the frames: those the viewer saw itself lose, until a keyframe is handed
\* on that is older; the last one this decoder was given; those its picture lacks, since the
\* last keyframe it was given (0: all before it opened).
VARIABLES missed, shown, lacks

host == <<sent, forceIdr, serving>>
down == <<reconfig, upsets>>
assembly == <<assembling, pending, barrier, waitingForIdr, lossEvent>>
flags == <<queueOverflow, decodeFailed, decoderOpened, rebuildDecoder>>
decoding == <<decAt, frame, surface, decoder, shown, lacks>>
surfaces == <<surfaceGen, surfaceAckGen, usable>>
vars == <<host, asks, down, netAt, session, base, assembly, keyframeWanted, missed,
          decQueue, flags, decoding, surfaces>>

net == <<netAt, session, base, assembly, keyframeWanted, missed, decQueue>>

Frames == 1..Len(sent)
IsIdr(f) == sent[f].idr
Oldest == CHOOSE f \in DOMAIN pending : \A g \in DOMAIN pending : f <= g
Complete(f) == pending[f] = sent[f].size
LaterOf(f, g) == IF f > g THEN f ELSE g
Without(f) == [g \in DOMAIN pending \ {f} |-> pending[g]]

Upset == upsets < MaxUpsets /\ upsets' = upsets + 1

Init ==
  /\ sent = <<>> /\ forceIdr = FALSE /\ serving = FALSE /\ asks = {} /\ reconfig = FALSE
  /\ netAt = "recv" /\ session = "Hello" /\ base = 0 /\ upsets = 0
  /\ assembling = FALSE /\ pending = <<>> /\ barrier = 0 /\ waitingForIdr = TRUE
  /\ lossEvent = FALSE /\ keyframeWanted = FALSE /\ decQueue = <<>>
  /\ queueOverflow = FALSE /\ decodeFailed = FALSE /\ decoderOpened = FALSE
  /\ rebuildDecoder = FALSE
  /\ decAt = "ack" /\ frame = 0 /\ surface = 0 /\ decoder = 0
  /\ surfaceGen = 1 /\ surfaceAckGen = 1 /\ usable = TRUE
  /\ missed = {} /\ shown = 0 /\ lacks = {}

-----------------------------------------------------------------------------
(* The host.                                                               *)

\* onStart, onKeyframeRequest, onInvalidateRef.
HandleAsk(a) ==
  /\ asks' = asks \ {a}
  /\ forceIdr' = TRUE /\ serving' = (serving \/ a = "start")
  /\ UNCHANGED <<sent, down, net, flags, decoding, surfaces>>

\* The encoder was told, and gave no frame.
EncodeFails ==
  /\ serving /\ forceIdr /\ forceIdr' = FALSE
  /\ UNCHANGED <<sent, serving, asks, down, net, flags, decoding, surfaces>>

\* A frame is encoded, numbered, cut and sent.
SendEncodedFrame ==
  /\ serving /\ Len(sent) < MaxFrames
  /\ \E size \in Sizes : sent' = Append(sent, [idr |-> forceIdr, size |-> size])
  /\ forceIdr' = FALSE
  /\ UNCHANGED <<serving, asks, down, net, flags, decoding, surfaces>>

\* A changed offer: a keyframe of the new size, and the viewer is told.
Reconfigure ==
  /\ serving /\ Upset /\ forceIdr' = TRUE /\ reconfig' = TRUE
  /\ UNCHANGED <<sent, serving, asks, net, flags, decoding, surfaces>>

-----------------------------------------------------------------------------
(* The net thread: a datagram, PollFrames, afterFrames and Tick.           *)

\* SendInvalidateRef and the keyframe request, only while streaming.
Asking(s) == IF s = "Streaming" THEN asks \cup {"keyframe"} ELSE asks

\* Faulty variant of Takes: a frame that was dropped or handed on is put together again.
TakesAll(f) == TRUE

\* Slot gives no place to a frame at or before the barrier.
Takes(f) == f > barrier

\* Faulty variant of Full: as many frames wait as come.
NeverFull == FALSE

Full == Cardinality(DOMAIN pending) >= MaxPending

\* The first datagram of a frame, after the oldest frame made room if need be.
OpenSlot(f) ==
  /\ f \notin DOMAIN pending
  /\ IF Full
     THEN /\ pending' = [g \in (DOMAIN pending \ {Oldest}) \cup {f} |->
                           IF g = f THEN 1 ELSE pending[g]]
          /\ barrier' = LaterOf(barrier, Oldest)
          /\ lossEvent' = TRUE /\ asks' = Asking(session') /\ missed' = missed \cup {Oldest}
     ELSE /\ pending' = [g \in DOMAIN pending \cup {f} |-> IF g = f THEN 1 ELSE pending[g]]
          /\ UNCHANGED <<barrier, lossEvent, asks, missed>>

\* Another one of it.
FillSlot(f) ==
  /\ f \in DOMAIN pending /\ ~Complete(f)
  /\ pending' = [pending EXCEPT ![f] = @ + 1]
  /\ UNCHANGED <<barrier, lossEvent, asks, missed>>

\* A datagram of the video: Push or PushFec.
OnVideo(f) ==
  /\ netAt = "recv" /\ netAt' = "poll"
  /\ f > base /\ Takes(f)
  /\ session' = IF session = "Starting" THEN "Streaming" ELSE session
  /\ assembling' = TRUE
  /\ OpenSlot(f) \/ FillSlot(f)
  /\ UNCHANGED <<host, down, base, waitingForIdr, keyframeWanted, decQueue, flags,
                 decoding, surfaces>>

\* HELLO_ACK, answered with START.
OnHelloAck ==
  /\ netAt = "recv" /\ netAt' = "poll"
  /\ session = "Hello" /\ session' = "Starting"
  /\ asks' = asks \cup {"start"}
  /\ UNCHANGED <<host, down, base, assembly, keyframeWanted, missed, decQueue, flags,
                 decoding, surfaces>>

\* RECONFIG: the decoder is to be built again.
OnReconfig ==
  /\ netAt = "recv" /\ netAt' = "poll"
  /\ reconfig /\ reconfig' = FALSE
  /\ rebuildDecoder' = (rebuildDecoder \/ session # "Hello")
  /\ UNCHANGED <<host, asks, upsets, session, base, assembly, keyframeWanted, missed,
                 decQueue, queueOverflow, decodeFailed, decoderOpened, decoding,
                 surfaces>>

\* Nothing came, or nothing that counts.
OnNothing ==
  /\ netAt = "recv" /\ netAt' = "poll"
  /\ UNCHANGED <<host, asks, down, session, base, assembly, keyframeWanted, missed,
                 decQueue, flags, decoding, surfaces>>

\* Faulty variant of Enqueue: a full queue loses its oldest frame and nobody hears of it.
EnqueueQuietly(f) ==
  /\ decQueue' = Append(IF Len(decQueue) >= MaxQueued THEN Tail(decQueue) ELSE decQueue, f)
  /\ UNCHANGED queueOverflow

Overflown == IF Len(decQueue) >= MaxQueued THEN {Head(decQueue)} ELSE {}

\* onFrame.
Enqueue(f) ==
  IF Len(decQueue) >= MaxQueued
  THEN decQueue' = Append(Tail(decQueue), f) /\ queueOverflow' = TRUE
  ELSE decQueue' = Append(decQueue, f) /\ UNCHANGED queueOverflow

Polling == netAt = "poll" /\ DOMAIN pending # {}

\* PopReady hands the oldest frame on.
PopReady ==
  /\ Polling /\ Complete(Oldest) /\ (waitingForIdr => IsIdr(Oldest))
  /\ barrier' = Oldest /\ waitingForIdr' = FALSE /\ pending' = Without(Oldest)
  /\ keyframeWanted' = (keyframeWanted /\ ~IsIdr(Oldest))
  /\ Enqueue(Oldest)
  /\ missed' = {f \in missed \cup Overflown : IsIdr(Oldest) => f < Oldest}
  /\ UNCHANGED <<host, asks, down, netAt, session, base, assembling, lossEvent,
                 decodeFailed, decoderOpened, rebuildDecoder, decoding, surfaces>>

\* ... or skips it, whole, for no keyframe came yet.
DropPreIdr ==
  /\ Polling /\ Complete(Oldest) /\ waitingForIdr /\ ~IsIdr(Oldest)
  /\ barrier' = LaterOf(barrier, Oldest) /\ pending' = Without(Oldest)
  /\ UNCHANGED <<host, asks, down, netAt, session, base, assembling, waitingForIdr,
                 lossEvent, keyframeWanted, missed, decQueue, flags, decoding, surfaces>>

Overtaken ==
  ~IsIdr(Oldest) /\ Cardinality({g \in DOMAIN pending \ {Oldest} : Complete(g)}) >= 2

\* ... or gives it up: it has waited for too long, or two newer ones are whole.
DropLost ==
  /\ Polling /\ ~Complete(Oldest)
  /\ barrier' = LaterOf(barrier, Oldest) /\ pending' = Without(Oldest)
  /\ lossEvent' = TRUE /\ asks' = Asking(session) /\ missed' = missed \cup {Oldest}
  /\ UNCHANGED <<host, down, netAt, session, base, assembling, waitingForIdr,
                 keyframeWanted, decQueue, flags, decoding, surfaces>>

\* PollFrames ends, and what the decode thread flagged becomes a request too.
EndOfPoll ==
  /\ netAt = "poll" /\ netAt' = "recv"
  /\ DOMAIN pending # {} => (~Complete(Oldest) /\ ~Overtaken)
  /\ keyframeWanted' = \/ keyframeWanted
                       \/ assembling /\ (lossEvent \/ waitingForIdr)
                       \/ queueOverflow \/ decodeFailed \/ decoderOpened
  /\ lossEvent' = FALSE
  /\ queueOverflow' = FALSE /\ decodeFailed' = FALSE /\ decoderOpened' = FALSE
  /\ UNCHANGED <<host, missed, decQueue, decoding, surfaces>>

\* Then the session ticks: what is wanted is asked for, and again later.
Tick ==
  /\ EndOfPoll
  /\ asks' \in {asks} \cup (IF keyframeWanted' THEN {Asking(session)} ELSE {})
  /\ UNCHANGED <<down, session, base, assembling, pending, barrier, waitingForIdr,
                 rebuildDecoder>>

\* ... or the link is ready again, and the viewer starts over.
Restart ==
  /\ EndOfPoll /\ Upset
  /\ session' = "Hello" /\ base' = Len(sent) /\ assembling' = FALSE
  /\ pending' = <<>> /\ barrier' = 0 /\ waitingForIdr' = TRUE
  /\ rebuildDecoder' = TRUE /\ asks' = {} /\ reconfig' = FALSE

-----------------------------------------------------------------------------
(* The decode thread.                                                      *)

Closed == decoder' = 0 /\ shown' = 0 /\ lacks' = {}

\* Faulty variant of SeeSwap: the thread sleeps until a frame comes.
SeeSwapWithAFrame ==
  /\ decQueue # <<>>
  /\ decAt = "ack" /\ surfaceAckGen # surfaceGen /\ decAt' = "swap"
  /\ UNCHANGED <<host, asks, down, net, flags, frame, surface, decoder, shown, lacks,
                 surfaces>>

\* AckSurfaceSwap sees a new surface, and lets the lock go.
SeeSwap ==
  /\ decAt = "ack" /\ surfaceAckGen # surfaceGen /\ decAt' = "swap"
  /\ UNCHANGED <<host, asks, down, net, flags, frame, surface, decoder, shown, lacks,
                 surfaces>>

\* Faulty variant of AckSwap: the caller is let go before the decoder is.
AckSwapFirst ==
  /\ decAt = "swap" /\ decAt' = "ack"
  /\ surfaceAckGen' = surfaceGen /\ rebuildDecoder' = FALSE
  /\ UNCHANGED <<host, asks, down, net, queueOverflow, decodeFailed, decoderOpened, frame,
                 surface, decoder, shown, lacks, surfaceGen, usable>>

\* The decoder lets go of the old surface, and then SetSurface may return.
AckSwap ==
  /\ decAt = "swap" /\ decAt' = "ack"
  /\ Closed
  /\ surfaceAckGen' = surfaceGen /\ rebuildDecoder' = FALSE
  /\ UNCHANGED <<host, asks, down, net, queueOverflow, decodeFailed, decoderOpened, frame,
                 surface, surfaceGen, usable>>

\* NextFrame, when no swap was seen.
NextFrame ==
  /\ decAt = "ack" /\ surfaceAckGen = surfaceGen /\ decQueue # <<>>
  /\ decAt' = "ensure" /\ frame' = Head(decQueue) /\ decQueue' = Tail(decQueue)
  /\ UNCHANGED <<host, asks, down, netAt, session, base, assembly, keyframeWanted, missed,
                 flags, surface, decoder, shown, lacks, surfaces>>

\* EnsureDecoder, up to Init: without a surface the frame is let go.
EnsureDecoder ==
  LET open == decoder # 0 /\ ~rebuildDecoder
  IN  /\ decAt = "ensure" /\ rebuildDecoder' = FALSE
      /\ decAt' = IF open THEN "decode" ELSE IF usable THEN "init" ELSE "ack"
      /\ IF open THEN UNCHANGED <<decoder, shown, lacks>> ELSE Closed
      /\ IF open \/ usable THEN UNCHANGED frame ELSE frame' = 0
      /\ surface' = IF ~open /\ usable THEN surfaceGen ELSE surface
      /\ UNCHANGED <<host, asks, down, net, queueOverflow, decodeFailed, decoderOpened,
                     surfaces>>

\* Init on the surface that was taken.
OpenDecoder ==
  /\ decAt = "init" /\ surface' = 0
  /\ \/ /\ decAt' = "decode" /\ decoder' = surface /\ decoderOpened' = TRUE
        /\ UNCHANGED <<frame, decodeFailed>>
     \/ /\ decAt' = "ack" /\ frame' = 0 /\ decodeFailed' = TRUE
        /\ UNCHANGED <<decoder, decoderOpened>>
  /\ UNCHANGED <<host, asks, down, net, queueOverflow, rebuildDecoder, shown, lacks,
                 surfaces>>

\* The frames the picture lacks once f is decoded into it.
LacksWith(f) ==
  IF IsIdr(f) THEN {}
  ELSE IF shown = 0 THEN {0}
  ELSE lacks \cup (shown + 1)..(f - 1)

Decode ==
  /\ decAt = "decode" /\ decAt' = "ack" /\ frame' = 0
  /\ \/ /\ shown' = frame /\ lacks' = LacksWith(frame)
        /\ UNCHANGED <<decoder, decodeFailed>>
     \/ Closed /\ decodeFailed' = TRUE
  /\ UNCHANGED <<host, asks, down, net, queueOverflow, decoderOpened, rebuildDecoder,
                 surface, surfaces>>

\* The user interface gives another surface, or takes the one it gave away, and waits.
SetSurface ==
  /\ surfaceGen = surfaceAckGen /\ Upset
  /\ surfaceGen' = surfaceGen + 1 /\ usable' \in BOOLEAN
  /\ UNCHANGED <<host, asks, reconfig, net, flags, decoding, surfaceAckGen>>

-----------------------------------------------------------------------------
Host == (\E a \in asks : HandleAsk(a)) \/ EncodeFails \/ SendEncodedFrame \/ Reconfigure
Receive == (\E f \in Frames : OnVideo(f)) \/ OnHelloAck \/ OnReconfig \/ OnNothing
PollFrames == PopReady \/ DropPreIdr \/ DropLost \/ Tick
DecodeThread == SeeSwap \/ AckSwap \/ NextFrame \/ EnsureDecoder \/ OpenDecoder \/ Decode

Next ==
  Host \/ Receive \/ PollFrames \/ Restart \/ DecodeThread \/ SetSurface

Spec == Init /\ [][Next]_vars

FairSpec == Spec /\ WF_vars(DecodeThread)

-----------------------------------------------------------------------------
(* Properties.                                                             *)

HostTypeOK ==
  /\ sent \in Seq([idr : BOOLEAN, size : Sizes]) /\ forceIdr \in BOOLEAN /\ serving \in BOOLEAN
  /\ asks \subseteq {"start", "keyframe"} /\ reconfig \in BOOLEAN /\ upsets \in 0..MaxUpsets

NetTypeOK ==
  /\ netAt \in {"recv", "poll"} /\ session \in {"Hello", "Starting", "Streaming"}
  /\ base \in 0..Len(sent) /\ barrier \in 0..Len(sent) /\ missed \subseteq Frames
  /\ assembling \in BOOLEAN /\ waitingForIdr \in BOOLEAN /\ lossEvent \in BOOLEAN
  /\ keyframeWanted \in BOOLEAN

PendingTypeOK ==
  /\ DOMAIN pending \subseteq Frames
  /\ \A f \in DOMAIN pending : pending[f] \in 1..sent[f].size
  /\ Cardinality(DOMAIN pending) <= MaxPending

QueueTypeOK ==
  /\ decQueue \in Seq(Frames) /\ Len(decQueue) <= MaxQueued
  /\ queueOverflow \in BOOLEAN /\ decodeFailed \in BOOLEAN
  /\ decoderOpened \in BOOLEAN /\ rebuildDecoder \in BOOLEAN

DecodeTypeOK ==
  /\ decAt \in {"ack", "swap", "ensure", "init", "decode"}
  /\ frame \in 0..Len(sent) /\ shown \in 0..Len(sent) /\ lacks \subseteq 0..Len(sent)
  /\ surfaceGen \in 1..upsets + 1 /\ surfaceAckGen \in 1..surfaceGen
  /\ surface \in 0..surfaceGen /\ decoder \in 0..surfaceGen /\ usable \in BOOLEAN

TypeOK == HostTypeOK /\ NetTypeOK /\ PendingTypeOK /\ QueueTypeOK /\ DecodeTypeOK

\* The decoder is given every frame at most once and in the order of their making, across
\* lost, late and repeated datagrams, frames put together again after they made room, and
\* a link that was dialled again.
FramesInOrder ==
  /\ \A i, j \in DOMAIN decQueue : i < j => decQueue[i] < decQueue[j]
  /\ \A i \in DOMAIN decQueue : frame < decQueue[i] /\ shown < decQueue[i]
  /\ frame # 0 => shown < frame

\* A keyframe is asked for, or will be, or one is on its way to the decoder.
AskedFor ==
  \/ keyframeWanted \/ waitingForIdr \/ lossEvent
  \/ queueOverflow \/ decodeFailed \/ decoderOpened
  \/ frame # 0 /\ IsIdr(frame)
  \/ \E i \in DOMAIN decQueue : IsIdr(decQueue[i])

\* A picture that lacks a frame the viewer saw itself lose, or that began without a keyframe,
\* is being repaired: a keyframe is asked for until one is in the queue of the decoder, however
\* the losses, the keyframes that come in between, a full queue, a failed decoder, a swapped
\* surface and a new dial fall.
DamageIsBeingRepaired == lacks \cap (missed \cup {0}) # {} => AskedFor

\* Once SetSurface has returned, the decode thread neither draws on an earlier surface nor
\* is about to.
SurfaceLetGo ==
  surfaceGen = surfaceAckGen =>
    /\ decoder \in {0, surfaceGen}
    /\ decAt = "init" => surface = surfaceGen

\* SetSurface returns.
SurfaceCallReturns == surfaceGen # surfaceAckGen ~> surfaceGen = surfaceAckGen

=============================================================================
