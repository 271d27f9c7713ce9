--------------------------- MODULE TerminalOutput ---------------------------
(***************************************************************************)
(* What a shell prints, from its terminal on the host to the screen of the *)
(* window that holds it (TerminalHost's pump, the connection's bounded     *)
(* outbox, TerminalViewer with its TerminalClient), across lost and new    *)
(* connections.  TerminalShells is about who holds which shell; here one   *)
(* window holds the one shell it opened, nobody closes it, and what        *)
(* matters is what the window shows of it.                                 *)
(*                                                                         *)
(* A screen is known by how much of the output it shows: a piece of output *)
(* is right only on the screen it was printed on, a repaint only whole and *)
(* in order.  (A piece printed while a change of size is on its way may be *)
(* wrapped at the one width here and at the other there; that, what is     *)
(* typed, and the answers of the emulator are left out.)                   *)
(***************************************************************************)
EXTENDS Integers, Sequences

CONSTANTS
  Sizes,        \* the sizes a window may have
  MaxPending,   \* kMaxPendingBytes, in pieces of kMaxTermDataBytes
  MaxWire,      \* kMaxStreamOutbox and the stream's window, in pieces
  PaintPieces,  \* how many pieces a repaint (RenderScreen) takes
  Rounds,       \* kPumpRounds
  MaxOutput,    \* bound on the pieces the shell prints
  MaxDials,     \* bound on the connections
  MaxResizes    \* bound on how often the user resizes the window

ASSUME OutputOK ==
  /\ Sizes # {}
  /\ MaxPending \in Nat \ {0} /\ MaxWire \in Nat \ {0}
  /\ PaintPieces \in Nat \ {0} /\ Rounds \in Nat \ {0}
  /\ MaxOutput \in Nat /\ MaxDials \in Nat \ {0} /\ MaxResizes \in Nat

VARIABLES
  mirror,   \* how much the shell has printed: what its mirror Screen shows
  shell,    \* its state, peer, size, pending_, behind
  rested,   \* kRepaintIntervalUs has passed since the last repaint
  gone,     \* gone_
  up,       \* connections the host has
  toHost,   \* connection -> messages on their way to the host
  wire,     \* connection -> messages on their way to the window, outbox and all
  viewer    \* the window: its client, its screen, its link; and doubled, whether on this
            \* connection it asks for its shell with an Open before that not answered

vars == <<mirror, shell, rested, gone, up, toHost, wire, viewer>>

Conns == 1..MaxDials

Open(size) == [type |-> "Open", size |-> size]
Resized(size) == [type |-> "Resize", size |-> size]

Out(n) == [type |-> "Out", n |-> n]
Paint(n, part) == [type |-> "Paint", n |-> n, part |-> part]
Ack(accepted) == [type |-> "Ack", accepted |-> accepted]
Exit == [type |-> "Exit"]

-----------------------------------------------------------------------------
(* Screens.                                                                *)

\* The first n pieces of output, of which a repaint has painted so many parts.
Showing(n, part) == [n |-> n, part |-> part]
Whole(n) == Showing(n, PaintPieces)
Garbled == Showing(0, 0)

\* What a piece makes of the screen it was printed for.
After(piece) == IF piece.type = "Out" THEN Whole(piece.n) ELSE Showing(piece.n, piece.part)

\* A repaint begins with an escape that ends whatever was cut short, and clears the screen.
Fits(screen, piece) ==
  IF piece.type = "Out" THEN screen = Whole(piece.n - 1)
  ELSE piece.part = 1 \/ screen = Showing(piece.n, piece.part - 1)

\* Screen::Write
Shown(screen, piece) == IF Fits(screen, piece) THEN After(piece) ELSE Garbled

\* RenderScreen
Repaint(n) == [part \in 1..PaintPieces |-> Paint(n, part)]

-----------------------------------------------------------------------------
(* The window.                                                             *)

Reaches(c) == c \in up /\ viewer.link /\ viewer.dial = c

\* SendRecord, FlushOutbox: the window becomes me; what it sends waits in the outbox for
\* a link that is ready, and is lost on a link whose host is gone.
Emit(me, messages) ==
  LET all == me.outbox \o messages
  IN  /\ viewer' = [me EXCEPT !.outbox = IF me.link THEN <<>> ELSE all]
      /\ toHost' = IF me.link /\ me.dial \in up
                   THEN [toHost EXCEPT ![me.dial] = @ \o all] ELSE toHost

\* An Open of an earlier connection, or of this one before the link was up.
OpenWaits == \E i \in 1..Len(viewer.outbox) : viewer.outbox[i].type = "Open"

\* An Open not answered yet: it waits, it is on its way, or its answer is.
Unanswered ==
  \/ OpenWaits
  \/ \E i \in 1..Len(toHost[viewer.dial]) : toHost[viewer.dial][i].type = "Open"
  \/ \E i \in 1..Len(wire[viewer.dial]) : wire[viewer.dial][i].type = "Ack"

\* Reattach, Resume, SendOpen
Reattach(me) ==
  Emit([me EXCEPT !.state = "Reattaching", !.sentSize = me.size,
                  !.doubled = @ \/ Unanswered], <<Open(me.size)>>)

\* What the link thread posted: HandleLinkReady and the client's LinkLost.  A window not
\* idle asks for the list if it was set up with one (deferOpen), and otherwise again for its
\* shell (resumeId).  (One that was to open a shell would open another, as one whose shell
\* has ended does; that is the end of this story.)
RunCommand ==
  LET me == [viewer EXCEPT !.posted = Tail(@)] IN
  /\ viewer.posted # <<>>
  /\ \/ /\ Head(viewer.posted) = "ready"
        /\ \/ me.state \in {"Idle", "Reattaching"} /\ Reattach(me)
           \/ me.state # "Idle" /\ Emit(me, <<>>)
     \/ /\ Head(viewer.posted) = "lost"
        /\ viewer' = [me EXCEPT !.state = IF @ = "Closed" THEN @ ELSE "Idle", !.lost = TRUE]
        /\ UNCHANGED toHost
  /\ UNCHANGED <<mirror, shell, rested, gone, up, wire>>

\* The Loop's own FlushOutbox.
Flush ==
  /\ viewer.link /\ viewer.outbox # <<>>
  /\ Emit(viewer, <<>>)
  /\ UNCHANGED <<mirror, shell, rested, gone, up, wire>>

\* TerminalViewer::Resize: a client not in its shell tells it when it is.
Resize(size) ==
  /\ size # viewer.size /\ viewer.resizes < MaxResizes
  /\ Emit([viewer EXCEPT !.size = size, !.resizes = @ + 1],
          IF viewer.state = "Open" THEN <<Resized(size)>> ELSE <<>>)
  /\ UNCHANGED <<mirror, shell, rested, gone, up, wire>>

\* Faulty variant of SizeToTell: what the window became while it waited is not told.
SizeUntold(me) == <<>>

\* HandleMessage, TermOpenAck: the window was resized since it asked.
SizeToTell(me) == IF me.size # me.sentSize THEN <<Resized(me.size)>> ELSE <<>>

\* Faulty variant of AskAgain: the refusal is taken for an answer.
AskNoMore(me) == [me EXCEPT !.state = "Idle"]

\* onRefused: the host may not have noticed the loss yet.
AskAgain(me) == [me EXCEPT !.state = "Idle", !.retry = @ \/ me.lost]

Acknowledged(me, accepted) ==
  IF me.state # "Reattaching" THEN Emit(me, <<>>)
  ELSE IF ~accepted THEN Emit(AskAgain(me), <<>>)
  ELSE Emit([me EXCEPT !.state = "Open", !.lost = FALSE, !.retry = FALSE], SizeToTell(me))

\* TerminalClient::HandleMessage with onOutput: output is for a client in its shell only.
ClientHandlesMessage ==
  /\ wire[viewer.dial] # <<>>
  /\ LET m == Head(wire[viewer.dial]) IN
     \/ m.type = "Ack" /\ Acknowledged(viewer, m.accepted)
     \/ m.type = "Exit" /\ Emit([viewer EXCEPT !.state = "Closed"], <<>>)
     \/ /\ m.type \in {"Out", "Paint"}
        /\ Emit([viewer EXCEPT !.screen =
                   IF viewer.state = "Open" THEN Shown(@, m) ELSE @], <<>>)
  /\ wire' = [wire EXCEPT ![viewer.dial] = Tail(@)]
  /\ UNCHANGED <<mirror, shell, rested, gone, up>>

\* The host still has the shell for this window.
Kept == shell.state \in {"Live", "Detached"}

\* RetryResume.  The window gives up after 120 s, when the host has noticed the lost
\* connection (30 s) long since.
RetryResume ==
  LET me == [viewer EXCEPT !.retry = FALSE] IN
  /\ viewer.retry
  /\ \/ /\ me.lost /\ me.link /\ me.state = "Idle"
        /\ Reattach(me)
     \/ /\ ~me.lost \/ ~Kept
        /\ viewer' = [me EXCEPT !.failed = me.lost]
        /\ UNCHANGED toHost
  /\ UNCHANGED <<mirror, shell, rested, gone, up, wire>>

-----------------------------------------------------------------------------
(* The link.  A viewer serves its messages every 10 ms and redials after   *)
(* 500 ms at the earliest: none is left over when the next one is up.      *)

DialAndAdmit ==
  /\ ~viewer.link /\ viewer.dial < MaxDials
  /\ viewer.posted = <<>> /\ wire[viewer.dial] = <<>>
  /\ viewer' = [viewer EXCEPT !.link = TRUE, !.dial = @ + 1, !.posted = <<"ready">>,
                               !.doubled = OpenWaits]
  /\ up' = up \cup {viewer.dial + 1}
  /\ UNCHANGED <<mirror, shell, rested, gone, toHost, wire>>

\* The window's end is gone; the rest of what is on its way is lost.
LinkLost ==
  LET c == viewer.dial IN
  /\ viewer.link
  /\ viewer' = [viewer EXCEPT !.link = FALSE, !.posted = Append(@, "lost")]
  /\ \E n \in 0..Len(toHost[c]), m \in 0..Len(wire[c]) :
       /\ toHost' = [toHost EXCEPT ![c] = SubSeq(@, 1, n)]
       /\ wire' = [wire EXCEPT ![c] = SubSeq(@, 1, m)]
  /\ UNCHANGED <<mirror, shell, rested, gone, up>>

\* onClosed, with TerminalHost::OnPeerGone.
OnPeerGone(c) ==
  /\ c \in up
  /\ up' = up \ {c}
  /\ toHost' = [toHost EXCEPT ![c] = <<>>]
  /\ gone' = gone \cup {c}
  /\ UNCHANGED <<mirror, shell, rested, wire, viewer>>

-----------------------------------------------------------------------------
(* The host.                                                               *)

Tell(c, messages) ==
  wire' = IF Reaches(c) THEN [wire EXCEPT ![c] = @ \o messages] ELSE wire

\* Faulty variant of Attached: what waited for the old connection goes out on the new one.
AttachedWithPending(c, size) ==
  [shell EXCEPT !.state = "Live", !.peer = c, !.size = size, !.behind = TRUE]

\* HandleMessage, TermOpen: its position in the output means nothing on a new connection.
Attached(c, size) ==
  [shell EXCEPT !.state = "Live", !.peer = c, !.size = size, !.pending = <<>>,
                !.behind = TRUE]

HandleOpen(c, size) ==
  IF shell.state = "Detached"
  THEN /\ shell' = Attached(c, size)
       /\ rested' = TRUE
       /\ Tell(c, <<Ack(TRUE)>>)
  ELSE /\ Tell(c, <<Ack(FALSE)>>)
       /\ UNCHANGED <<shell, rested>>

HandleResize(c, size) ==
  /\ shell' = IF shell.state \in {"Live", "Detached"} /\ shell.peer = c
              THEN [shell EXCEPT !.size = size] ELSE shell
  /\ UNCHANGED <<rested, wire>>

HostHandlesMessage(c) ==
  /\ toHost[c] # <<>>
  /\ LET m == Head(toHost[c]) IN
     \/ m.type = "Open" /\ HandleOpen(c, m.size)
     \/ m.type = "Resize" /\ HandleResize(c, m.size)
  /\ toHost' = [toHost EXCEPT ![c] = Tail(@)]
  /\ UNCHANGED <<mirror, gone, up, viewer>>

\* DrainGone
AfterGone(sh) ==
  IF sh.peer \in gone /\ sh.state = "Live" THEN [sh EXCEPT !.state = "Detached"] ELSE sh

\* How many of so many pieces SendToPeer takes, of a connection that has so many queued: a
\* connection that is gone none, one whose window is gone as many as still fit.
Takes(c, pieces, queued) ==
  IF c \notin up THEN {0}
  ELSE IF ~Reaches(c) THEN 0..pieces
  ELSE {IF pieces <= MaxWire - queued THEN pieces
        ELSE IF queued < MaxWire THEN MaxWire - queued ELSE 0}

\* FlushPending: the first k pieces are sent.
Flushed(sh, k) == [sh EXCEPT !.pending = SubSeq(@, k + 1, Len(@))]

\* QueueRepaint, once everything before it is sent.
Repainting(sh) == sh.behind /\ sh.pending = <<>> /\ rested

Repainted(sh) ==
  IF Repainting(sh) THEN [sh EXCEPT !.pending = Repaint(mirror), !.behind = FALSE] ELSE sh

\* Faulty variant of Queued: whatever is read is kept for the window.
QueuedWithoutEnd(sh, fresh) ==
  IF sh.behind THEN sh ELSE [sh EXCEPT !.pending = @ \o fresh]

\* QueueForPeer, for each piece read in turn.
Queued(sh, fresh) ==
  IF fresh = <<>> \/ sh.behind THEN sh
  ELSE IF Len(sh.pending) + Len(fresh) > MaxPending
       THEN [sh EXCEPT !.pending = <<>>, !.behind = TRUE]
  ELSE [sh EXCEPT !.pending = @ \o fresh]

Printed(got) == [i \in 1..got |-> Out(mirror + i)]

\* A turn of Loop for a shell of the window's: DrainGone, then PumpShells, which flushes,
\* repaints, reads so many pieces and flushes again.
Pump(got) ==
  LET s0 == AfterGone(shell)
      c == s0.peer
      was == Len(wire[c])
  IN  /\ shell.state \in {"Live", "Detached"}
      /\ got <= Rounds /\ mirror + got <= MaxOutput
      /\ \E k \in Takes(c, Len(s0.pending), was) :
           LET s1 == Repainted(Flushed(s0, k))
               s2 == Queued(s1, Printed(got))
           IN  \E l \in Takes(c, Len(s2.pending), was + k) :
                 /\ shell' = Flushed(s2, l)
                 /\ Tell(c, SubSeq(s0.pending, 1, k) \o SubSeq(s2.pending, 1, l))
                 /\ rested' = (rested /\ ~Repainting(Flushed(s0, k)))
      /\ mirror' = mirror + got
      /\ gone' = {}
      /\ UNCHANGED <<up, toHost, viewer>>

\* CloseShell, for a shell that ended or was kicked: what it still owes its window goes with
\* it, and the exit itself where the outbox has no room for it.
Ends ==
  /\ shell.state # "None"
  /\ shell' = [shell EXCEPT !.state = "None", !.pending = <<>>]
  /\ \/ shell.state # "Local" /\ Tell(shell.peer, <<Exit>>)
     \/ /\ shell.state = "Local" \/ Len(wire[shell.peer]) >= MaxWire
        /\ UNCHANGED wire
  /\ UNCHANGED <<mirror, rested, gone, up, toHost, viewer>>

\* Stop & attach: from now on the shell is shown at the host.
AttachLocal ==
  /\ shell.state \in {"Live", "Detached"}
  /\ shell' = [shell EXCEPT !.state = "Local"]
  /\ IF shell.state = "Live" THEN Tell(shell.peer, <<Exit>>) ELSE UNCHANGED wire
  /\ UNCHANGED <<mirror, rested, gone, up, toHost, viewer>>

IntervalPasses ==
  /\ ~rested
  /\ rested' = TRUE
  /\ UNCHANGED <<mirror, shell, gone, up, toHost, wire, viewer>>

-----------------------------------------------------------------------------
\* The window has just opened its shell, and shows it.
Init ==
  /\ mirror = 0 /\ rested = TRUE /\ gone = {} /\ up = {1}
  /\ toHost = [c \in Conns |-> <<>>] /\ wire = [c \in Conns |-> <<>>]
  /\ \E size \in Sizes :
       /\ shell = [state |-> "Live", peer |-> 1, size |-> size, pending |-> <<>>,
                   behind |-> FALSE]
       /\ viewer = [state |-> "Open", size |-> size, sentSize |-> size,
                    screen |-> Whole(0), dial |-> 1, link |-> TRUE, posted |-> <<>>,
                    outbox |-> <<>>, lost |-> FALSE, retry |-> FALSE, failed |-> FALSE,
                    resizes |-> 0, doubled |-> FALSE]

ViewerThread == RunCommand \/ ClientHandlesMessage \/ Flush \/ RetryResume

Next ==
  \/ ViewerThread \/ \E size \in Sizes : Resize(size)
  \/ DialAndAdmit \/ LinkLost \/ \E c \in Conns : OnPeerGone(c) \/ HostHandlesMessage(c)
  \/ \E got \in 0..Rounds : Pump(got)
  \/ Ends \/ AttachLocal \/ IntervalPasses

Spec == Init /\ [][Next]_vars

\* The threads run, messages arrive, the viewer redials, and the host notices sooner or
\* later that a connection is lost.  The pump turns whether or not the shell prints.
FairSpec ==
  /\ Spec
  /\ WF_vars(RunCommand) /\ WF_vars(ClientHandlesMessage)
  /\ WF_vars(Flush) /\ WF_vars(RetryResume) /\ WF_vars(DialAndAdmit)
  /\ \A c \in Conns : WF_vars(HostHandlesMessage(c)) /\ WF_vars(~Reaches(c) /\ OnPeerGone(c))
  /\ WF_vars(Pump(0)) /\ WF_vars(IntervalPasses)

-----------------------------------------------------------------------------
(* Properties.                                                             *)

Piece == [type : {"Out"}, n : 1..MaxOutput]
         \cup [type : {"Paint"}, n : 0..MaxOutput, part : 1..PaintPieces]
Answer == [type : {"Ack"}, accepted : BOOLEAN] \cup {Exit}
Request == [type : {"Open", "Resize"}, size : Sizes]

\* The values the variables may have, and how much may wait.
TypeOK ==
  /\ mirror \in 0..MaxOutput /\ rested \in BOOLEAN
  /\ gone \subseteq Conns /\ up \subseteq Conns
  /\ shell.state \in {"Live", "Detached", "Local", "None"}
  /\ shell.peer \in Conns /\ shell.size \in Sizes /\ shell.behind \in BOOLEAN
  /\ shell.pending \in Seq(Piece)
  /\ Len(shell.pending) <= MaxPending \/ Len(shell.pending) <= PaintPieces
  /\ toHost \in [Conns -> Seq(Request)] /\ wire \in [Conns -> Seq(Piece \cup Answer)]
  /\ viewer.state \in {"Open", "Idle", "Reattaching", "Closed"}
  /\ viewer.size \in Sizes /\ viewer.sentSize \in Sizes
  /\ viewer.screen \in [n : 0..MaxOutput, part : 0..PaintPieces]
  /\ viewer.dial \in Conns /\ viewer.link \in BOOLEAN
  /\ viewer.posted \in Seq({"ready", "lost"}) /\ viewer.outbox \in Seq(Request)
  /\ {viewer.lost, viewer.retry, viewer.failed, viewer.doubled} \subseteq BOOLEAN
  /\ viewer.resizes \in 0..MaxResizes

Conn == viewer.dial

\* The window is in its shell, and the host has it there.
InShell ==
  viewer.state = "Open" /\ Reaches(Conn) /\ shell.state = "Live" /\ shell.peer = Conn

IsPiece(m) == m.type \in {"Out", "Paint"}

\* What a window that showed screen shows when piece i of s was the latest.
At(screen, s, i) == IF i = 0 THEN screen ELSE After(s[i])

\* Place i is that of the latest piece before place j, or 0 when there is none.
Latest(s, i, j) ==
  /\ i < j /\ (i > 0 => IsPiece(s[i]))
  /\ \A k \in (i + 1)..(j - 1) : ~IsPiece(s[k])

\* Each piece of s finds the screen it was printed for, and the last leaves it as final.
Continues(screen, s) ==
  \A j \in 1..Len(s) : IsPiece(s[j]) =>
    \A i \in 0..(j - 1) : Latest(s, i, j) => Fits(At(screen, s, i), s[j])
EndsAs(screen, s, final) ==
  \A i \in 0..Len(s) : Latest(s, i, Len(s) + 1) => At(screen, s, i) = final

OnItsWay == wire[Conn] \o shell.pending

\* What a window shows is always some screen the shell had, whole or being repainted,
\* never output applied to the wrong one; and what is on its way to a window in its shell
\* goes on from there, up to the shell's screen of now, unless the host knows that it owes
\* a repaint.  So nothing the host drops, for want of room or with a connection, is
\* forgotten, and nothing is shown twice.
NothingIsMissed ==
  /\ viewer.screen # Garbled
  /\ InShell => /\ Continues(viewer.screen, OnItsWay)
                /\ shell.behind \/ EndsAs(viewer.screen, OnItsWay, Whole(mirror))

\* A window in its shell with nothing on its way has told it the size it has, however it
\* was resized while it waited to be let in.  (TERM_OPEN_ACK names no request: a window
\* that asked again meanwhile takes the answer to an Open of another size for its own.)
SizesAgree ==
  /\ InShell /\ ~viewer.doubled /\ viewer.outbox = <<>> /\ toHost[Conn] = <<>>
  => shell.size = viewer.size

\* The window is connected and the host still has its shell.
CouldShow ==
  Reaches(Conn) /\ Kept /\ ~viewer.failed /\ ~viewer.doubled

\* On a connection that lasts the window comes to show what the shell shows, once that
\* stops printing: it is let back in, the outbox drains, and the host repaints what it
\* dropped.
CatchesUp ==
  ~<>[](CouldShow /\ ~(viewer.state = "Open" /\ viewer.screen = Whole(mirror)))
=============================================================================
