----------------------------- MODULE LinkPulse -----------------------------
(***************************************************************************)
(* How a client notices that its host went quiet: LinkPulse, and the part  *)
(* of HostLink::PumpReady that turns it.  A ping goes out every so often;   *)
(* silence since the last pong is a stalled link, unless the loop was not   *)
(* watching: what a turn took beyond a step is credited back.               *)
(*                                                                         *)
(* Times are counted from 1, as 0 means "never" in the code.  The host may  *)
(* answer a ping at any time, again, or not at all.                         *)
(***************************************************************************)
EXTENDS Integers

CONSTANTS
  StallAfter,   \* kLinkStallAfterUs
  WatchStep,    \* kLinkWatchStepUs
  PingEvery,    \* kLinkPingIntervalUs
  Window,       \* kLinkPingWindow
  MaxNow        \* bound on the time

ASSUME PulseOK ==
  /\ StallAfter \in Nat /\ WatchStep \in Nat
  /\ PingEvery \in Nat \ {0} /\ Window \in Nat \ {0} /\ MaxNow \in Nat \ {0}

VARIABLES
  now,          \* NowUs()
  lastTick, lastPing, lastPong,  \* lastTickUs_, lastPingUs_, lastPongUs_
  nextPing,     \* nextPingId_
  sent,         \* sent_: slot -> the ping it remembers
  answeredOnce, \* answeredOnce_
  up            \* the loop has not given the connection up as stalled

\* What happened on this connection: the pings on the wire, when a pong last counted,
\* how long the loop has watched since then, and whether it turned often enough.
VARIABLES wire, heard, watched, steady

pulse == <<lastTick, lastPing, lastPong, nextPing, sent, answeredOnce>>
history == <<wire, heard, watched, steady>>
pulseVars == <<now, pulse, up, history>>

MinOf(a, b) == IF a < b THEN a ELSE b
NoPing == [id |-> 0, at |-> 0, answered |-> FALSE]

\* Faulty variants of Credited: nothing is credited back, or all the turn took is.
CreditedNothing(last, pong) == pong
CreditedTheTurn(last, pong) ==
  IF last = 0 \/ now <= last \/ pong = 0 \/ pong >= now THEN pong
  ELSE MinOf(now, pong + now - last)

\* lastPongUs_ after Tick: what the turn took beyond a step was not watched.
Credited(last, pong) ==
  IF last = 0 \/ now <= last \/ pong = 0 \/ pong >= now \/ now - last <= WatchStep
  THEN pong
  ELSE MinOf(now, pong + (now - last - WatchStep))

Slot(id) == id % Window

PingDue == lastPing = 0 \/ now - lastPing >= PingEvery

Stalled(pong) == answeredOnce /\ now - pong > StallAfter

\* Route hands a pong to the pulse: it counts when its ping is still remembered and
\* was not answered before.
OnPong(p) ==
  LET slot == sent[Slot(p.id)]
  IN  /\ up /\ p \in wire
      /\ slot.id = p.id /\ slot.at = p.at /\ ~slot.answered /\ now >= slot.at
      /\ sent' = [sent EXCEPT ![Slot(p.id)].answered = TRUE]
      /\ lastPong' = now /\ answeredOnce' = TRUE
      /\ heard' = now /\ watched' = 0 /\ steady' = TRUE
      /\ UNCHANGED <<now, lastTick, lastPing, nextPing, up, wire>>

\* The ping goes out after the tick and before the look at the silence.
SendPing ==
  IF PingDue
  THEN /\ sent' = [sent EXCEPT ![Slot(nextPing)] =
                     [id |-> nextPing, at |-> now, answered |-> FALSE]]
       /\ wire' = wire \cup {[id |-> nextPing, at |-> now]}
       /\ nextPing' = nextPing + 1 /\ lastPing' = now
  ELSE UNCHANGED <<sent, wire, nextPing, lastPing>>

\* A turn of the loop.
Turn ==
  LET since == now - lastTick
      pong  == Credited(lastTick, lastPong)
  IN  /\ up
      /\ lastTick' = now /\ lastPong' = pong
      /\ SendPing
      /\ up' = ~Stalled(pong)
      /\ watched' = IF lastTick = 0 THEN watched ELSE watched + MinOf(since, WatchStep)
      /\ steady' = (steady /\ since <= WatchStep)
      /\ UNCHANGED <<now, answeredOnce, heard>>

\* The link was dialled again, and a new connection starts with a clean slate.
Reset ==
  /\ ~up /\ up' = TRUE
  /\ lastTick' = 0 /\ lastPing' = 0 /\ lastPong' = 0 /\ nextPing' = 1
  /\ sent' = [s \in 0..Window - 1 |-> NoPing] /\ answeredOnce' = FALSE
  /\ wire' = {} /\ heard' = 0 /\ watched' = 0 /\ steady' = TRUE
  /\ UNCHANGED now

TimePasses ==
  /\ now < MaxNow
  /\ now' = now + 1
  /\ UNCHANGED <<pulse, up, history>>

PulseInit ==
  /\ now = 1 /\ up = TRUE
  /\ lastTick = 0 /\ lastPing = 0 /\ lastPong = 0 /\ nextPing = 1
  /\ sent = [s \in 0..Window - 1 |-> NoPing] /\ answeredOnce = FALSE
  /\ wire = {} /\ heard = 0 /\ watched = 0 /\ steady = TRUE

PulseNext == (\E p \in wire : OnPong(p)) \/ Turn \/ Reset \/ TimePasses

PulseSpec == PulseInit /\ [][PulseNext]_pulseVars

-----------------------------------------------------------------------------
(* Properties.                                                             *)

PulseTypeOK ==
  /\ now \in 1..MaxNow
  /\ lastTick \in 0..now /\ lastPing \in 0..now /\ lastPong \in 0..now
  /\ nextPing \in Nat \ {0}
  /\ sent \in [0..Window - 1 -> [id : Nat, at : 0..now, answered : BOOLEAN]]
  /\ answeredOnce \in BOOLEAN /\ up \in BOOLEAN /\ steady \in BOOLEAN
  /\ wire \in SUBSET [id : Nat, at : 0..now]
  /\ heard \in 0..now /\ watched \in Nat

\* A machine that froze is never mistaken for a host that went quiet: a connection is
\* only given up after the loop itself watched the silence for long enough, each turn
\* counting for a step at most.
StallIsWatched == ~up => watched > StallAfter

\* A host that goes quiet is not missed: while the loop turns often enough, and the
\* host has answered before, no turn leaves the connection up after a longer silence.
SilenceIsNoticed ==
  up /\ answeredOnce /\ steady => lastTick - heard <= StallAfter
=============================================================================
