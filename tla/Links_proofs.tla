---------------------------- MODULE Links_proofs ----------------------------
(***************************************************************************)
(* Proofs about a client's link.  ScreenViewing: for any times, a session  *)
(* that went silent is dialled again as long as the user stays and the     *)
(* link is not over, wherever the link thread and the net thread were as   *)
(* it went silent.  LinkPulse: for any lengths of the stall, the step and  *)
(* the ping interval, a link is given up for watched silence only, and     *)
(* watched silence is not missed.                                          *)
(***************************************************************************)
EXTENDS ScreenViewing, LinkPulse, TLAPS

\* The link thread: over is over, and it is told to stop only by a user who left; a link
\* that is ready was let in, and stays so until it is dialled again.
LinkInv ==
  /\ Settled => at = "off"
  /\ state = "Ready" => at \in {"ready", "pump", "off"}
  /\ stop => left

\* A session was started by a link that was ready, so a link that is dialled later is one
\* that is resumed; and no session grows old before the link says that it is ready.
SessionInv ==
  /\ viewer = "waiting" => session = "Idle"
  /\ viewer \in {"recv", "tick"} => session # "Idle"
  /\ session # "Idle" /\ at \in {"next", "dial", "auth"} => resumed
  /\ session # "Idle" /\ at = "ready" /\ ~resumed => recvAge = 0 /\ session # "Silent"

\* The window is to close only for a user who left, a session that is over or a link that is.
QuitInv ==
  /\ viewer = "tick" /\ quit => left \/ session = "Over"
  /\ session = "Silent" /\ quit => left \/ Settled

IInv == TypeOK /\ LinkInv /\ SessionInv /\ QuitInv /\ SilenceIsRedialled

-----------------------------------------------------------------------------
\* A window that opens.
LEMMA InitInv == Init => IInv
<1> SUFFICES ASSUME Init PROVE IInv
  OBVIOUS
<1>1. LinkTypeOK
  <2>1. Never \in Never..Grace /\ Never \in Never..ApprovalWait
    BY LinkOK DEF Never
  <2>2. resumed \in BOOLEAN /\ redial \in BOOLEAN /\ stop \in BOOLEAN
    BY DEF Init, LinkInit
  <2> QED BY <2>1, <2>2 DEF Init, LinkInit, LinkTypeOK, ClocksMatch
<1>2. TypeOK
  <2>1. 0 \in 0..SessionTimeout + 1 /\ 0 \in 0..HelloGiveUp + 1 /\ 0 \in 0..MaxUnread
    BY ViewingOK
  <2>2. reattaching \in BOOLEAN /\ relink \in BOOLEAN /\ quit \in BOOLEAN /\ left \in BOOLEAN
    BY DEF Init
  <2> QED BY <1>1, <2>1, <2>2 DEF Init, TypeOK
<1>3. LinkInv /\ SessionInv /\ QuitInv /\ SilenceIsRedialled
  BY DEF Init, LinkInit, LinkInv, SessionInv, QuitInv, Settled, SilenceIsRedialled
<1> QED BY <1>2, <1>3 DEF IInv

\* Time saturates at its limit, and a clock that stands stays at its place.
LEMMA OlderBounds ==
  ASSUME NEW limit \in Nat
  PROVE  /\ \A age \in Never..limit : Older(age, limit) \in Never..limit
         /\ \A age \in 0..limit : Older(age, limit) \in 0..limit
         /\ \A age \in Never..limit : Older(age, limit) = Never <=> age = Never
BY DEF Older, Never

-----------------------------------------------------------------------------
(* The link thread.                                                        *)

\* What a step of the link leaves to the callbacks: they set flags, and what was not read of
\* a connection waits.
LEMMA CallbacksType ==
  ASSUME IInv, NEW step, WithCallbacks(step)
  PROVE  /\ reattaching' \in BOOLEAN /\ relink' \in BOOLEAN /\ unread' \in 0..MaxUnread
         /\ reattaching => reattaching'
         /\ relink => relink'
         /\ at = "ready" /\ at' = "pump" /\ resumed => relink'
         /\ UNCHANGED <<viewer, session, recvAge, startAge, quit, left>>
BY DEF IInv, TypeOK, WithCallbacks, OnReady, OnLinkState

\* Each step of the link keeps its own state well formed, goes on only from where the thread
\* is at work, and is over for good when it is over.
LEMMA LinkStepKeepsLink ==
  ASSUME LinkTypeOK, LinkInv, LinkStep, UNCHANGED left
  PROVE  LinkTypeOK' /\ LinkInv'
<1>1. 0 \in Never..Grace /\ 0 \in Never..ApprovalWait /\ Never \in Never..Grace
      /\ Never \in Never..ApprovalWait
  BY LinkOK DEF Never
<1> USE <1>1 DEF LinkTypeOK, ClocksMatch, Recovering, LinkInv, Settled
<1>2. CASE SeeStop \/ GiveUp \/ Unreachable \/ Untrusted \/ AuthRefused \/ Forgotten
  BY <1>2 DEF SeeStop, GiveUp, Unreachable, Untrusted, AuthRefused, Forgotten, Fail
<1>3. CASE Dial \/ Established \/ Admitted
  BY <1>3 DEF Dial, Established, Admitted
<1>4. CASE BecomeReady
  <2>1. lossAge' \in Never..Grace /\ askAge' \in Never..ApprovalWait /\ redial' \in BOOLEAN
    BY <1>4 DEF BecomeReady
  <2> QED BY <1>4, <2>1 DEF BecomeReady
<1>5. CASE MustBeApproved \/ AuthTimedOut
  <2>1. CASE MustBeApproved
    <3>1. askAge' \in Never..ApprovalWait /\ askAge' # Never
      BY <2>1, <1>1 DEF MustBeApproved, Never
    <3>2. \/ state' = "AwaitingApproval" /\ at' = "next"
          \/ state' = "Refused" /\ at' = "off"
      BY <2>1 DEF MustBeApproved, Fail
    <3>3. UNCHANGED <<lossAge, resumed, redial, stop>>
      BY <2>1 DEF MustBeApproved
    <3> QED BY <3>1, <3>2, <3>3
  <2>2. CASE AuthTimedOut
    BY <2>2 DEF AuthTimedOut, Fail
  <2> QED BY <1>5, <2>1, <2>2
<1>6. CASE Redialled \/ Lost
  <2>1. lossAge' \in Never..Grace /\ resumed' \in BOOLEAN /\ redial' \in BOOLEAN
    BY <1>6 DEF Redialled, Lost, Lose
  <2>2. state' = "Recovering" /\ at' = "next" /\ UNCHANGED <<askAge, stop>>
    BY <1>6 DEF Redialled, Lost, Lose
  <2>3. lossAge' # Never
    BY <1>6 DEF Redialled, Lost, Lose, Never
  <2> QED BY <2>1, <2>2, <2>3
<1> QED BY <1>2, <1>3, <1>4, <1>5, <1>6 DEF LinkStep, LinkThread, Auth

\* From a step of the link to the next: a link that is left to be dialled is resumed, or
\* no session was started by it yet; and a link that is not over is dialled on, up to the
\* turn in which the viewer is told that it is back.
LEMMA LinkStepDialsOn ==
  ASSUME LinkInv, LinkStep
  PROVE  /\ resumed => resumed'
         /\ at' \in {"next", "dial", "auth"} =>
              resumed' \/ at \in {"next", "dial", "auth"}
         /\ at' = "ready" => at = "auth"
         /\ at \in {"next", "dial", "auth"} =>
              at' \in {"next", "dial", "auth", "ready"} \/ Settled' \/ stop
         /\ at = "ready" => at' = "pump" \/ Settled'
         /\ at = "pump" => at' = "next" \/ Settled' \/ stop
         /\ redial /\ ~redial' => at' \in {"pump", "next"}
         /\ redial /\ ~redial' /\ at' = "pump" => at = "ready"
         /\ Settled => Settled'
<1> USE DEF LinkInv, Settled
<1>2. CASE SeeStop \/ GiveUp \/ Unreachable \/ Untrusted \/ AuthRefused \/ Forgotten
  BY <1>2 DEF SeeStop, GiveUp, Unreachable, Untrusted, AuthRefused, Forgotten, Fail
<1>3. CASE Dial \/ Established \/ Admitted \/ BecomeReady
  BY <1>3 DEF Dial, Established, Admitted, BecomeReady
<1>4. CASE MustBeApproved \/ AuthTimedOut
  BY <1>4 DEF MustBeApproved, AuthTimedOut, Fail
<1>5. CASE Redialled \/ Lost
  BY <1>5 DEF Redialled, Lost, Lose
<1> QED BY <1>2, <1>3, <1>4, <1>5 DEF LinkStep, LinkThread, Auth

\* So no step of the link leaves a silent session behind.
LEMMA LinkStepInv ==
  ASSUME IInv, WithCallbacks(LinkStep)
  PROVE  IInv'
<1>1. LinkStep /\ UNCHANGED <<viewer, session, recvAge, startAge, quit, left>>
  BY DEF WithCallbacks
<1>2. LinkTypeOK' /\ LinkInv'
  BY <1>1, LinkStepKeepsLink DEF IInv, TypeOK
<1>3. TypeOK'
  BY <1>1, <1>2, CallbacksType DEF IInv, TypeOK
<1>4. SessionInv'
  BY <1>1, LinkStepDialsOn DEF IInv, SessionInv
<1>5. QuitInv'
  BY <1>1, LinkStepDialsOn DEF IInv, QuitInv
<1>6. SilenceIsRedialled'
  <2> SUFFICES ASSUME session' = "Silent", ~left', ~Settled'
               PROVE  viewer' # "ended" /\ reattaching' /\ BeingDialled'
    BY DEF SilenceIsRedialled
  <2>1. session = "Silent" /\ ~left /\ ~Settled /\ ~stop
    BY <1>1, LinkStepDialsOn DEF IInv, LinkInv
  <2>2. viewer # "ended" /\ reattaching /\ BeingDialled
    BY <2>1 DEF IInv, SilenceIsRedialled
  <2>3. viewer' # "ended" /\ reattaching'
    BY <1>1, <2>2, CallbacksType
  <2>4. at = "ready" => resumed
    BY <2>1 DEF IInv, SessionInv
  <2>5. BeingDialled'
    BY <1>1, <2>1, <2>2, <2>4, CallbacksType, LinkStepDialsOn
       DEF BeingDialled, IInv, SessionInv
  <2> QED BY <2>3, <2>5
<1> QED BY <1>2, <1>3, <1>4, <1>5, <1>6 DEF IInv

-----------------------------------------------------------------------------
(* The net thread.                                                         *)

\* What the net thread leaves of the link: all of it, but that a redial may be asked for.
LEMMA NetThreadLeavesLink ==
  ASSUME LinkTypeOK, LinkInv, NetThread
  PROVE  /\ LinkTypeOK' /\ LinkInv'
         /\ UNCHANGED <<state, at, resumed, stop, left>> /\ (Settled <=> Settled')
<1>1. UNCHANGED <<state, at, lossAge, askAge, resumed, stop, left>>
      /\ (redial' = redial \/ redial' = TRUE)
  BY DEF NetThread, AwaitAdmission, LoopEnds, Receive, OnNothing, OnHelloAck, OnHostSaysNo,
         OnSignOfLife, Tick, TickRestarts, FallSilent, SilenceEnds, HelloTimesOut, TickDead,
         TickAlive, RequestRedial, link
<1> QED BY <1>1 DEF LinkTypeOK, ClocksMatch, Recovering, LinkInv, Settled

\* A session that goes silent asks for a redial, or the window ends for a reason.
LEMMA FallSilentInv ==
  ASSUME IInv, FallSilent \/ SilenceEnds
  PROVE  IInv'
<1>1. LinkTypeOK' /\ LinkInv'
      /\ UNCHANGED <<state, at, resumed, stop, left>> /\ (Settled <=> Settled')
  BY NetThreadLeavesLink DEF NetThread, Tick, IInv, TypeOK
<1>2. session # "Idle" /\ viewer = "tick" /\ recvAge # 0
  BY ViewingOK DEF FallSilent, SilenceEnds, Unheard, IInv, TypeOK
<1>3. CASE FallSilent
  BY <1>1, <1>2, <1>3 DEF FallSilent, RequestRedial, IInv, TypeOK, SessionInv, QuitInv,
     SilenceIsRedialled, BeingDialled
<1>4. CASE SilenceEnds
  BY <1>1, <1>2, <1>4 DEF SilenceEnds, End, Unheard, IInv, TypeOK, SessionInv, QuitInv,
     SilenceIsRedialled, link
<1> QED BY <1>3, <1>4

\* The variables of the net thread keep their types.
LEMMA NetThreadType ==
  ASSUME TypeOK, LinkTypeOK', NetThread
  PROVE  TypeOK'
<1>1. 0 \in 0..SessionTimeout + 1 /\ 0 \in 0..HelloGiveUp + 1
  BY ViewingOK
<1> USE <1>1 DEF TypeOK
<1>2. viewer' \in {"waiting", "recv", "tick", "ended"} /\ left' \in BOOLEAN
  BY DEF NetThread, AwaitAdmission, LoopEnds, Receive, OnNothing, OnHelloAck, OnHostSaysNo,
         OnSignOfLife, Tick, TickRestarts, FallSilent, SilenceEnds, HelloTimesOut, TickDead,
         TickAlive, End
<1>3. session' \in {"Idle", "Hello", "Starting", "Streaming", "Silent", "GaveUp", "Over"}
  BY DEF NetThread, AwaitAdmission, LoopEnds, Receive, OnNothing, OnHelloAck, OnHostSaysNo,
         OnSignOfLife, Tick, TickRestarts, FallSilent, SilenceEnds, HelloTimesOut, TickDead,
         TickAlive, Start
<1>4. recvAge' \in 0..SessionTimeout + 1 /\ startAge' \in 0..HelloGiveUp + 1
  BY DEF NetThread, AwaitAdmission, LoopEnds, Receive, OnNothing, OnHelloAck, OnHostSaysNo,
         OnSignOfLife, Tick, TickRestarts, FallSilent, SilenceEnds, HelloTimesOut, TickDead,
         TickAlive, Start
<1>5. unread' \in 0..MaxUnread
  <2>1. unread' = unread \/ (unread > 0 /\ unread' = unread - 1)
    BY DEF NetThread, AwaitAdmission, LoopEnds, Receive, OnNothing, OnHelloAck, OnHostSaysNo,
           OnSignOfLife, Tick, TickRestarts, FallSilent, SilenceEnds, HelloTimesOut, TickDead,
           TickAlive, Read
  <2> QED BY <2>1, ViewingOK
<1>6. reattaching' \in BOOLEAN
  BY DEF NetThread, AwaitAdmission, LoopEnds, Receive, OnNothing, OnHelloAck, OnHostSaysNo,
         OnSignOfLife, Tick, TickRestarts, FallSilent, SilenceEnds, HelloTimesOut, TickDead,
         TickAlive
<1>7. relink' \in BOOLEAN /\ quit' \in BOOLEAN
  BY DEF NetThread, AwaitAdmission, LoopEnds, Receive, OnNothing, OnHelloAck, OnHostSaysNo,
         OnSignOfLife, Tick, TickRestarts, FallSilent, SilenceEnds, HelloTimesOut, TickDead,
         TickAlive, End
<1> QED BY <1>2, <1>3, <1>4, <1>5, <1>6, <1>7

\* The rest of the loop.
LEMMA NetThreadInv ==
  ASSUME IInv, NetThread
  PROVE  IInv'
<1>1. LinkTypeOK' /\ LinkInv'
      /\ UNCHANGED <<state, at, resumed, stop, left>> /\ (Settled <=> Settled')
  BY NetThreadLeavesLink DEF IInv, TypeOK
<1>2. TypeOK'
  BY <1>1, NetThreadType DEF IInv
<1>3. viewer = "waiting" => session = "Idle" /\ at = at'
  BY <1>1 DEF IInv, SessionInv
<1>4. CASE FallSilent \/ SilenceEnds
  BY <1>4, FallSilentInv
<1>5. CASE AwaitAdmission
  <2>1. session = "Idle" /\ viewer = "waiting"
    BY <1>3, <1>5 DEF AwaitAdmission
  <2>2. \/ session' = "Idle" /\ viewer' = "ended"
        \/ session' = "Hello" /\ viewer' = "recv" /\ recvAge' = 0 /\ state = "Ready"
    BY <1>5, <2>1 DEF AwaitAdmission, Start, End
  <2> QED BY <1>1, <1>2, <2>2 DEF IInv, LinkInv, SessionInv, QuitInv, SilenceIsRedialled
<1>6. CASE OnNothing \/ OnHelloAck \/ OnHostSaysNo \/ OnSignOfLife
  <2>1. viewer = "recv" /\ viewer' = "tick" /\ ~quit
        /\ UNCHANGED <<redial, reattaching, relink>>
    BY <1>6 DEF OnNothing, OnHelloAck, OnHostSaysNo, OnSignOfLife, link
  <2>2. /\ session' = "Silent" => session = "Silent"
        /\ session' # "Idle"
        /\ session # "Idle"
        /\ quit' => session' = "Over"
        /\ recvAge' \in {recvAge, 0}
    BY <1>6, <2>1 DEF OnNothing, OnHelloAck, OnHostSaysNo, OnSignOfLife, IInv, SessionInv
  <2> QED BY <1>1, <1>2, <2>1, <2>2
       DEF IInv, SessionInv, QuitInv, SilenceIsRedialled, BeingDialled
<1>7. CASE TickRestarts
  <2>1. viewer = "tick" /\ viewer' = "recv" /\ session' = "Hello" /\ recvAge' = 0
    BY <1>7 DEF TickRestarts, Start
  <2>2. session # "Idle" /\ UNCHANGED quit
    BY <1>7, <2>1 DEF TickRestarts, IInv, SessionInv
  <2> QED BY <1>1, <1>2, <2>1, <2>2 DEF IInv, SessionInv, QuitInv, SilenceIsRedialled
<1>8. CASE LoopEnds \/ HelloTimesOut
  <2>1. viewer' = "ended" /\ (session' = session \/ session' = "GaveUp")
        /\ UNCHANGED recvAge /\ (session' = session => quit \/ Settled)
        /\ viewer \in {"recv", "tick"}
    BY <1>8 DEF LoopEnds, HelloTimesOut, Unanswered, End
  <2> QED BY <1>1, <1>2, <2>1 DEF IInv, SessionInv, QuitInv, SilenceIsRedialled
<1>9. CASE TickDead
  <2>1. viewer = "tick" /\ Dead /\ UNCHANGED <<session, recvAge, reattaching, relink, redial>>
    BY <1>9 DEF TickDead, link
  <2>2. \/ viewer' = "recv" /\ ~quit /\ UNCHANGED quit
        \/ viewer' = "ended" /\ (~reattaching \/ quit \/ Settled)
    BY <1>9 DEF TickDead, End
  <2> QED BY <1>1, <1>2, <2>1, <2>2
       DEF IInv, SessionInv, QuitInv, SilenceIsRedialled, BeingDialled
<1>10. CASE TickAlive
  <2>1. viewer = "tick" /\ session # "Silent" /\ viewer' = "recv"
        /\ UNCHANGED <<session, recvAge>>
    BY <1>10 DEF TickAlive, Dead
  <2> QED BY <1>1, <1>2, <2>1 DEF IInv, SessionInv, QuitInv, SilenceIsRedialled
<1> QED BY <1>4, <1>5, <1>6, <1>7, <1>8, <1>9, <1>10 DEF NetThread, Receive, Tick

-----------------------------------------------------------------------------
\* Time, and the user.
LEMMA OthersInv ==
  ASSUME IInv, Leave \/ Stop \/ PassTime
  PROVE  IInv'
<1> USE DEF IInv, LinkInv, SessionInv, QuitInv, SilenceIsRedialled, BeingDialled, Settled
<1>1. CASE Leave
  BY <1>1 DEF Leave, link, TypeOK, LinkTypeOK, ClocksMatch, Recovering
<1>2. CASE Stop
  BY <1>2 DEF Stop, StopLink, view, TypeOK, LinkTypeOK, ClocksMatch, Recovering
<1>3. CASE PassTime
  <2>1. TypeOK'
    <3>1. Grace \in Nat /\ ApprovalWait \in Nat /\ SessionTimeout + 1 \in Nat
          /\ HelloGiveUp + 1 \in Nat
      BY LinkOK, ViewingOK
    <3>2. ClocksMatch'
      BY <1>3, <3>1, OlderBounds DEF PassTime, LinkAges, TypeOK, LinkTypeOK, ClocksMatch,
         Recovering
    <3> QED BY <1>3, <3>1, <3>2, OlderBounds DEF PassTime, LinkAges, TypeOK, LinkTypeOK
  <2> QED BY <1>3, <2>1 DEF PassTime, LinkAges
<1> QED BY <1>1, <1>2, <1>3

LEMMA Invariance == Spec => []IInv
<1>1. IInv /\ [Next]_vars => IInv'
  <2> SUFFICES ASSUME IInv, [Next]_vars PROVE IInv'
    OBVIOUS
  <2>1. CASE UNCHANGED vars
    BY <2>1 DEF vars, link, view, IInv, TypeOK, LinkTypeOK, ClocksMatch, Recovering,
       LinkInv, SessionInv, QuitInv, SilenceIsRedialled, BeingDialled, Settled
  <2> QED BY <2>1, LinkStepInv, NetThreadInv, OthersInv DEF Next
<1> QED BY <1>1, InitInv, PTL DEF Spec

-----------------------------------------------------------------------------
\* For any grace, wait for approval and session timeouts the variables of the link and of
\* its window keep their types, and a link that is up has no clock left running from before
\* (HostLink::Loop, RunScreenViewerLoop).
THEOREM TypeCorrect == Spec => []TypeOK
<1>1. IInv => TypeOK
  BY DEF IInv
<1> QED BY <1>1, Invariance, PTL

\* For any times: a session that went silent ends its window only for a user who left or a
\* link that is over; else the window waits for its link and the link is dialled again
\* (EnterReattach, RequestRedial, onReady and the tick of ScreenViewer).
THEOREM SilentSessionsAreRedialled == Spec => []SilenceIsRedialled
<1>1. IInv => SilenceIsRedialled
  BY DEF IInv
<1> QED BY <1>1, Invariance, PTL

-----------------------------------------------------------------------------
(* The pulse: when a link is given up for silence.                         *)


\* The link has a pong to count from once it was answered, and was turned before.
Counting == answeredOnce => lastPong # 0

\* The silence known to the pulse at its last turn is time the loop watched.
SilenceIsWatched == answeredOnce => lastTick - lastPong <= watched

\* While the loop turns often enough nothing is credited back.
SteadyIsExact == answeredOnce /\ steady => lastPong = heard

PulseInv ==
  /\ PulseTypeOK
  /\ Counting /\ SilenceIsWatched /\ SteadyIsExact
  /\ StallIsWatched /\ SilenceIsNoticed
  /\ wire # {} => lastTick # 0
  /\ answeredOnce => lastTick # 0

-----------------------------------------------------------------------------
\* What Tick makes of the last pong: a time that is not in the future, and not
\* before it; the silence left is what was there plus a step at most, and all of it
\* when the turn took no longer than a step (LinkPulse::Tick).
LEMMA CreditedBounds ==
  ASSUME now \in Nat, NEW last \in 0..now, NEW pong \in 0..now, last # 0, pong # 0
  PROVE  /\ Credited(last, pong) \in pong..now
         /\ now - Credited(last, pong) <= (last - pong) + MinOf(now - last, WatchStep)
            \/ Credited(last, pong) = now
         /\ now - last <= WatchStep => Credited(last, pong) = pong
<1>1. last \in Nat /\ pong \in Nat /\ last <= now /\ pong <= now /\ WatchStep \in Nat
  BY PulseOK
<1>2. CASE now <= last \/ pong >= now
  BY <1>1, <1>2 DEF Credited, MinOf
<1>3. CASE ~(now <= last \/ pong >= now) /\ now - last <= WatchStep
  BY <1>1, <1>3 DEF Credited, MinOf
<1>4. CASE ~(now <= last \/ pong >= now) /\ ~(now - last <= WatchStep)
  <2>1. Credited(last, pong) = MinOf(now, pong + (now - last - WatchStep))
    BY <1>1, <1>4 DEF Credited
  <2>2. MinOf(now - last, WatchStep) = WatchStep
    BY <1>1, <1>4 DEF MinOf
  <2> QED BY <1>1, <1>4, <2>1, <2>2 DEF MinOf
<1> QED BY <1>2, <1>3, <1>4

\* Nothing is credited before the first pong.
LEMMA CreditedNever ==
  ASSUME NEW last, NEW pong, last = 0 \/ pong = 0
  PROVE  Credited(last, pong) = pong
BY DEF Credited

-----------------------------------------------------------------------------
\* A new connection is sound.
LEMMA PulseInitInv == PulseInit => PulseInv
<1> SUFFICES ASSUME PulseInit PROVE PulseInv
  OBVIOUS
<1>1. sent \in [0..Window - 1 -> [id : Nat, at : 0..now, answered : BOOLEAN]]
  <2>1. NoPing \in [id : Nat, at : 0..now, answered : BOOLEAN]
    BY DEF PulseInit, NoPing
  <2> QED BY <2>1 DEF PulseInit
<1>2. PulseTypeOK
  <2>1. now = 1 /\ lastTick = 0 /\ lastPing = 0 /\ lastPong = 0 /\ nextPing = 1
        /\ heard = 0 /\ watched = 0 /\ wire = {}
        /\ 1 \in 1..MaxNow /\ 0 \in 0..1
    BY PulseOK DEF PulseInit
  <2>2. answeredOnce \in BOOLEAN /\ up \in BOOLEAN /\ steady \in BOOLEAN
    BY DEF PulseInit
  <2> QED BY <1>1, <2>1, <2>2 DEF PulseTypeOK
<1> QED BY <1>2, PulseOK DEF PulseInit, PulseInv, Counting, SilenceIsWatched, SteadyIsExact,
           StallIsWatched, SilenceIsNoticed

\* A pong starts the count anew.
LEMMA OnPongInv ==
  ASSUME PulseInv, NEW p \in wire, OnPong(p)
  PROVE  PulseInv'
<1>1. now \in Nat \ {0} /\ lastTick \in 0..now /\ lastTick # 0 /\ StallAfter \in Nat
  BY PulseOK DEF PulseInv, PulseTypeOK
<1>2. sent' \in [0..Window - 1 -> [id : Nat, at : 0..now, answered : BOOLEAN]]
  BY DEF PulseInv, PulseTypeOK, OnPong
<1>3. PulseTypeOK'
  BY <1>1, <1>2 DEF PulseInv, PulseTypeOK, OnPong
<1> QED BY <1>1, <1>3 DEF PulseInv, OnPong, Counting, SilenceIsWatched, SteadyIsExact,
           StallIsWatched, SilenceIsNoticed

\* The ping of a turn is remembered as what it is.
LEMMA SendPingType ==
  ASSUME PulseTypeOK, SendPing, UNCHANGED now
  PROVE  /\ sent' \in [0..Window - 1 -> [id : Nat, at : 0..now, answered : BOOLEAN]]
         /\ wire' \in SUBSET [id : Nat, at : 0..now]
         /\ nextPing' \in Nat \ {0} /\ lastPing' \in 0..now
<1>1. now \in Nat /\ now \in 0..now /\ nextPing \in Nat \ {0}
  BY DEF PulseTypeOK
<1>2. CASE PingDue
  <2> DEFINE remembered == [id |-> nextPing, at |-> now, answered |-> FALSE]
  <2>1. remembered \in [id : Nat, at : 0..now, answered : BOOLEAN]
    BY <1>1
  <2>2. sent' = [sent EXCEPT ![Slot(nextPing)] = remembered]
    BY <1>2 DEF SendPing
  <2> HIDE DEF remembered
  <2>3. sent' \in [0..Window - 1 -> [id : Nat, at : 0..now, answered : BOOLEAN]]
    BY <2>1, <2>2 DEF PulseTypeOK
  <2> QED BY <1>1, <1>2, <2>3 DEF SendPing, PulseTypeOK
<1>3. CASE ~PingDue
  BY <1>3 DEF SendPing, PulseTypeOK
<1> QED BY <1>2, <1>3

\* A turn: what it finds is counted for a step at most.
LEMMA TurnInv ==
  ASSUME PulseInv, Turn
  PROVE  PulseInv'
<1> DEFINE pong == Credited(lastTick, lastPong)
           step == MinOf(now - lastTick, WatchStep)
<1>1. /\ now \in Nat \ {0} /\ lastTick \in 0..now /\ lastPong \in 0..now /\ now \in 1..MaxNow
      /\ watched \in Nat /\ heard \in 0..now /\ StallAfter \in Nat /\ WatchStep \in Nat
  BY PulseOK DEF PulseInv, PulseTypeOK
<1>2. /\ up /\ lastTick' = now /\ lastPong' = pong /\ up' = ~Stalled(pong)
      /\ watched' = IF lastTick = 0 THEN watched ELSE watched + step
      /\ steady' = (steady /\ now - lastTick <= WatchStep)
      /\ UNCHANGED <<now, answeredOnce, heard>>
  BY DEF Turn
<1>3. step \in Nat
  BY <1>1 DEF MinOf
<1>4. pong \in 0..now
  BY <1>1, CreditedBounds, CreditedNever
<1>5. ASSUME answeredOnce
      PROVE  /\ lastTick # 0 /\ pong # 0
             /\ now - pong <= watched + step
             /\ now - lastTick <= WatchStep => pong = lastPong
  <2>1. lastTick # 0 /\ lastPong # 0 /\ lastTick - lastPong <= watched
    BY <1>5 DEF PulseInv, Counting, SilenceIsWatched
  <2>2. /\ pong \in lastPong..now
        /\ now - pong <= (lastTick - lastPong) + step \/ pong = now
        /\ now - lastTick <= WatchStep => pong = lastPong
    BY <1>1, <2>1, CreditedBounds
  <2> QED BY <1>1, <1>3, <2>1, <2>2
<1> HIDE DEF pong, step
<1>6. PulseTypeOK'
  <2>1. PulseTypeOK /\ SendPing
    BY DEF PulseInv, Turn
  <2>2. watched' \in Nat
    BY <1>1, <1>2, <1>3
  <2>3. now \in 0..now
    BY <1>1
  <2>4. up' \in BOOLEAN /\ steady' \in BOOLEAN
    BY <1>2 DEF Stalled
  <2> QED BY <1>1, <1>2, <1>4, <2>1, <2>2, <2>3, <2>4, SendPingType DEF PulseTypeOK
<1>7. Counting' /\ SilenceIsWatched'
  BY <1>1, <1>2, <1>3, <1>5 DEF Counting, SilenceIsWatched
<1>8. SteadyIsExact'
  <2>1. SteadyIsExact
    BY DEF PulseInv
  <2> QED BY <1>2, <1>5, <2>1 DEF SteadyIsExact
<1>9. StallIsWatched'
  <2>1. SUFFICES ASSUME ~up' PROVE watched' > StallAfter
    BY DEF StallIsWatched
  <2>2. answeredOnce /\ now - pong > StallAfter
    BY <1>2, <2>1, Zenon DEF Stalled
  <2>3. lastTick # 0 /\ now - pong <= watched + step
    BY <1>5, <2>2
  <2>4. watched' = watched + step
    BY <1>2, <2>3
  <2> QED BY <1>1, <1>3, <1>4, <2>2, <2>3, <2>4
<1>10. SilenceIsNoticed'
  <2>1. SUFFICES ASSUME up', answeredOnce', steady' PROVE lastTick' - heard' <= StallAfter
    BY DEF SilenceIsNoticed
  <2>2. answeredOnce /\ ~(now - pong > StallAfter)
    BY <1>2, <2>1, Zenon DEF Stalled
  <2>3. lastPong' = heard'
    BY <1>8, <2>1 DEF SteadyIsExact
  <2> QED BY <1>1, <1>2, <1>4, <2>2, <2>3
<1> QED BY <1>1, <1>2, <1>6, <1>7, <1>8, <1>9, <1>10 DEF PulseInv

\* Every step keeps the invariant.
LEMMA PulseStepInv == PulseInv /\ [PulseNext]_pulseVars => PulseInv'
<1> SUFFICES ASSUME PulseInv, [PulseNext]_pulseVars PROVE PulseInv'
  OBVIOUS
<1> USE DEF PulseInv, PulseTypeOK, Counting, SilenceIsWatched, SteadyIsExact, StallIsWatched,
            SilenceIsNoticed
<1>1. ASSUME NEW p \in wire, OnPong(p) PROVE PulseInv'
  BY <1>1, OnPongInv
<1>2. CASE Turn
  BY <1>2, TurnInv
<1>3. CASE Reset
  <2>1. [s \in 0..Window - 1 |-> NoPing]
          \in [0..Window - 1 -> [id : Nat, at : 0..now, answered : BOOLEAN]]
    BY DEF NoPing
  <2>2. /\ lastTick' = 0 /\ lastPing' = 0 /\ lastPong' = 0 /\ nextPing' = 1 /\ heard' = 0
        /\ watched' = 0 /\ steady' = TRUE /\ wire' = {} /\ answeredOnce' = FALSE
        /\ up' = TRUE /\ now' = now
        /\ sent' = [s \in 0..Window - 1 |-> NoPing]
    BY <1>3 DEF Reset
  <2>3. PulseTypeOK'
    <3>1. now \in Nat /\ now \in 1..MaxNow /\ 0 \in 0..now
      BY PulseOK
    <3>2. 0 \in Nat /\ 1 \in Nat \ {0} /\ TRUE \in BOOLEAN /\ FALSE \in BOOLEAN
          /\ {} \in SUBSET [id : Nat, at : 0..now]
      OBVIOUS
    <3> QED BY ONLY <2>1, <2>2, <3>1, <3>2, Zenon DEF PulseTypeOK
  <2> QED BY <2>2, <2>3, PulseOK
<1>4. CASE TimePasses
  <2>1. now \in Nat /\ MaxNow \in Nat /\ now' = now + 1 /\ now' \in 1..MaxNow
    BY <1>4, PulseOK DEF TimePasses
  <2>2. 0..now \subseteq 0..now'
    BY <2>1
  <2> QED BY <1>4, <2>1, <2>2 DEF TimePasses, pulse, history
<1>5. CASE UNCHANGED pulseVars
  BY <1>5 DEF pulseVars, pulse, history
<1> QED BY <1>1, <1>2, <1>3, <1>4, <1>5 DEF PulseNext

-----------------------------------------------------------------------------
\* The times kept by the pulse are never in the future, and its ring is well formed.
THEOREM PulseTypeCorrect == PulseSpec => []PulseTypeOK
<1>1. PulseInv => PulseTypeOK
  BY DEF PulseInv
<1> QED BY <1>1, PulseInitInv, PulseStepInv, PTL DEF PulseSpec

\* A link is given up only after a watched silence, however long the loop was away
\* (LinkPulse::Tick credits what it did not watch).
THEOREM GivenUpForWatchedSilence == PulseSpec => []StallIsWatched
<1>1. PulseInv => StallIsWatched
  BY DEF PulseInv
<1> QED BY <1>1, PulseInitInv, PulseStepInv, PTL DEF PulseSpec

\* A loop that turns often enough leaves no link up that has been silent for longer
\* than a stall (HostLink::PumpReady looks at the silence on every turn).
THEOREM QuietHostIsNoticed == PulseSpec => []SilenceIsNoticed
<1>1. PulseInv => SilenceIsNoticed
  BY DEF PulseInv
<1> QED BY <1>1, PulseInitInv, PulseStepInv, PTL DEF PulseSpec
=============================================================================
