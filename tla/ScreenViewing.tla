--------------------------- MODULE ScreenViewing ---------------------------
(***************************************************************************)
(* A window that watches a screen: its link (HostLink) and the net thread  *)
(* of ScreenViewer, which starts a session (ScreenClientSession) once the  *)
(* link is ready, asks for a redial when the session goes silent, starts   *)
(* it again when the link is back, and ends the window.  The link thread   *)
(* tells it of a lost and of a resumed connection by two flags.            *)
(*                                                                         *)
(* Messages the link took from the host wait in the channel, so that some  *)
(* are read after the connection they came by was lost.                    *)
(***************************************************************************)
EXTENDS HostLink

CONSTANTS
  SessionTimeout,  \* kSessionTimeoutUs, in steps of time
  HelloGiveUp,     \* kHelloGiveUpUs
  MaxUnread        \* bound on what is read of a connection after it was lost

ASSUME ViewingOK == SessionTimeout \in Nat /\ HelloGiveUp \in Nat /\ MaxUnread \in Nat

VARIABLES
  viewer,       \* where the net thread is: in AwaitAdmission, or in RunScreenViewerLoop
  session,      \* state_ of its session; "Silent", "GaveUp" and "Over" are the ways to be Dead
  recvAge,      \* time since lastRecvUs_
  startAge,     \* time since startedUs_
  unread,       \* what waits in the channel from a connection that was lost
  reattaching,  \* reattaching_
  relink,       \* relink_
  quit,         \* quit_
  left          \* the user closed the window

view == <<viewer, session, recvAge, startAge, unread, reattaching, relink, quit, left>>
vars == <<link, view>>

Dead == session \in {"Silent", "GaveUp", "Over"}

Init ==
  /\ LinkInit
  /\ viewer = "waiting" /\ session = "Idle" /\ recvAge = 0 /\ startAge = 0
  /\ unread = 0 /\ reattaching = FALSE /\ relink = FALSE /\ quit = FALSE /\ left = FALSE

-----------------------------------------------------------------------------
(* The link thread, and what its callbacks do in the viewer.               *)

\* onReady: the session of a resumed link is to be started again.
OnReady == relink' = (relink \/ (at = "ready" /\ at' = "pump" /\ resumed))

\* onState: a link that is recovering makes the window wait for it.
OnLinkState == reattaching' = (reattaching \/ (state' = "Recovering" /\ state # "Recovering"))

WithCallbacks(step) ==
  /\ step /\ OnLinkState /\ OnReady
  /\ IF at = "pump" /\ at' # "pump" THEN unread' \in 0..MaxUnread ELSE UNCHANGED unread
  /\ UNCHANGED <<viewer, session, recvAge, startAge, quit, left>>

-----------------------------------------------------------------------------
(* The net thread.                                                         *)

End == viewer' = "ended" /\ quit' = TRUE

\* A message is read: one of the connection that is up, or one that was left.
Read ==
  \/ at = "pump" /\ UNCHANGED unread
  \/ at # "pump" /\ unread > 0 /\ unread' = unread - 1

Start == session' = "Hello" /\ startAge' = 0 /\ recvAge' = 0

AwaitAdmission ==
  /\ viewer = "waiting"
  /\ \/ ~quit /\ state = "Ready" /\ viewer' = "recv" /\ Start /\ UNCHANGED quit
     \/ (quit \/ Settled) /\ End /\ UNCHANGED <<session, recvAge, startAge>>
  /\ UNCHANGED <<link, unread, reattaching, relink, left>>

\* Faulty variant of LoopEnds: a link that is over looks like one that is silent.
LoopEndsIfLeft ==
  /\ viewer = "recv" /\ quit /\ End
  /\ UNCHANGED <<link, session, recvAge, startAge, unread, reattaching, relink, left>>

\* A turn of the loop begins: recv tells of a link that is over.
LoopEnds ==
  /\ viewer = "recv" /\ (quit \/ (Settled /\ unread = 0)) /\ End
  /\ UNCHANGED <<link, session, recvAge, startAge, unread, reattaching, relink, left>>

\* Nothing came for a while, or nothing that counts.
OnNothing ==
  /\ viewer = "recv" /\ ~quit /\ viewer' = "tick"
  /\ Read \/ (~Settled /\ unread = 0 /\ UNCHANGED unread)
  /\ UNCHANGED <<link, session, recvAge, startAge, reattaching, relink, quit, left>>

\* HELLO_ACK lets the viewer in.
OnHelloAck ==
  /\ viewer = "recv" /\ ~quit /\ viewer' = "tick" /\ Read
  /\ session = "Hello" /\ session' = "Starting" /\ recvAge' = 0
  /\ UNCHANGED <<link, startAge, reattaching, relink, quit, left>>

\* The host turns the viewer away, or says goodbye: that ends the window.
OnHostSaysNo ==
  /\ viewer = "recv" /\ ~quit /\ viewer' = "tick" /\ Read
  /\ session = "Hello" \/ session \in {"Starting", "Streaming", "Silent"}
  /\ session' = "Over" /\ quit' = TRUE
  /\ UNCHANGED <<link, recvAge, startAge, reattaching, relink, left>>

\* A pong, or video.
OnSignOfLife ==
  /\ viewer = "recv" /\ ~quit /\ viewer' = "tick" /\ Read
  /\ session \in {"Starting", "Streaming"} /\ recvAge' = 0
  /\ session' \in {session, "Streaming"}
  /\ UNCHANGED <<link, startAge, reattaching, relink, quit, left>>

\* beforeTick: the link is back, the session starts again.
TickRestarts ==
  /\ viewer = "tick" /\ relink /\ relink' = FALSE /\ viewer' = "recv"
  /\ Start
  /\ UNCHANGED <<link, unread, reattaching, quit, left>>

Unheard == session \in {"Starting", "Streaming"} /\ recvAge > SessionTimeout

Unanswered == session = "Hello" /\ startAge > HelloGiveUp

\* Faulty variant of FallSilent: the redial is asked for only as the window says it waits.
FallSilentOnce ==
  /\ viewer = "tick" /\ ~relink /\ Unheard /\ ~quit /\ ~Settled
  /\ session' = "Silent" /\ viewer' = "recv" /\ reattaching' = TRUE
  /\ IF reattaching THEN UNCHANGED link ELSE RequestRedial
  /\ UNCHANGED <<recvAge, startAge, unread, relink, quit, left>>

\* The session goes silent: EnterReattach and RequestRedial, and the loop goes on.
FallSilent ==
  /\ viewer = "tick" /\ ~relink /\ Unheard /\ ~quit /\ ~Settled
  /\ session' = "Silent" /\ viewer' = "recv" /\ reattaching' = TRUE
  /\ RequestRedial
  /\ UNCHANGED <<recvAge, startAge, unread, relink, quit, left>>

\* ... or there is nothing to go on for: the link is over, or the user left.
SilenceEnds ==
  /\ viewer = "tick" /\ ~relink /\ Unheard /\ (quit \/ Settled)
  /\ session' = "Silent" /\ End
  /\ UNCHANGED <<link, recvAge, startAge, unread, reattaching, relink, left>>

\* No answer to HELLO for too long.
HelloTimesOut ==
  /\ viewer = "tick" /\ ~relink /\ Unanswered
  /\ session' = "GaveUp" /\ End
  /\ UNCHANGED <<link, recvAge, startAge, unread, reattaching, relink, left>>

\* The session is dead already: the loop goes on only to wait for the link.
TickDead ==
  /\ viewer = "tick" /\ ~relink /\ Dead
  /\ IF reattaching /\ ~quit /\ ~Settled THEN viewer' = "recv" /\ UNCHANGED quit ELSE End
  /\ UNCHANGED <<link, session, recvAge, startAge, unread, reattaching, relink, left>>

\* The session is alive, and onPhase looks whether it streams.
TickAlive ==
  /\ viewer = "tick" /\ ~relink /\ ~Dead /\ ~Unheard /\ ~Unanswered
  /\ viewer' = "recv" /\ reattaching' = (reattaching /\ session # "Streaming")
  /\ UNCHANGED <<link, session, recvAge, startAge, unread, relink, quit, left>>

Receive == OnNothing \/ OnHelloAck \/ OnHostSaysNo \/ OnSignOfLife
Tick ==
  TickRestarts \/ FallSilent \/ SilenceEnds \/ HelloTimesOut \/ TickDead \/ TickAlive
NetThread == AwaitAdmission \/ LoopEnds \/ Receive \/ Tick

-----------------------------------------------------------------------------
\* The user closes the window; when the net thread is done, Stop stops the link.
Leave ==
  /\ ~left /\ left' = TRUE /\ quit' = TRUE
  /\ UNCHANGED <<link, viewer, session, recvAge, startAge, unread, reattaching, relink>>

Stop ==
  /\ left /\ viewer = "ended" /\ ~stop /\ StopLink
  /\ UNCHANGED view

PassTime ==
  /\ LinkAges
  /\ recvAge' = Older(recvAge, SessionTimeout + 1)
  /\ startAge' = Older(startAge, HelloGiveUp + 1)
  /\ UNCHANGED <<viewer, session, unread, reattaching, relink, quit, left>>

Next == WithCallbacks(LinkStep) \/ NetThread \/ Leave \/ Stop \/ PassTime

Spec == Init /\ [][Next]_vars

FairSpec ==
  /\ Spec
  /\ WF_vars(WithCallbacks(LinkThread)) /\ WF_vars(NetThread) /\ WF_vars(PassTime)

-----------------------------------------------------------------------------
(* Properties.                                                             *)

TypeOK ==
  /\ LinkTypeOK
  /\ viewer \in {"waiting", "recv", "tick", "ended"}
  /\ session \in {"Idle", "Hello", "Starting", "Streaming", "Silent", "GaveUp", "Over"}
  /\ recvAge \in 0..SessionTimeout + 1 /\ startAge \in 0..HelloGiveUp + 1
  /\ unread \in 0..MaxUnread
  /\ reattaching \in BOOLEAN /\ relink \in BOOLEAN /\ quit \in BOOLEAN /\ left \in BOOLEAN

\* The link is being dialled, or will be, or has just been and the viewer is told.
BeingDialled ==
  redial \/ relink \/ at \in {"next", "dial", "auth"} \/ (at = "ready" /\ resumed)

\* A session that went silent never ends the window by itself, nor is it left behind: as
\* long as neither the user has left nor the link is over, the link is dialled again for it,
\* wherever the link thread was as the redial was asked for.
SilenceIsRedialled ==
  session = "Silent" => left \/ Settled \/ (viewer # "ended" /\ reattaching /\ BeingDialled)

\* A link that is not ready gets there or is over, within the times it has; but a client that
\* lost its connection and then has to be approved may wait for as long as the host cannot be
\* reached.
LinkComesToAnAnswer ==
  state # "Ready" ~>
    \/ state = "Ready" \/ at = "off"
    \/ state = "AwaitingApproval" /\ Recovering

\* A link that is over ends the window.
WindowEnds == Settled ~> viewer = "ended"

=============================================================================
