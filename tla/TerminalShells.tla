--------------------------- MODULE TerminalShells ---------------------------
(***************************************************************************)
(* The shells a host keeps and the windows that hold them: TerminalHost    *)
(* with its TerminalSessions on the host, TerminalViewer with its          *)
(* TerminalClient on each client machine, and the connections between.     *)
(*                                                                         *)
(* A viewer that redials comes from a new address, so each dial is a       *)
(* connection of its own, named <<viewer, number of the dial>>.  The host  *)
(* learns of a lost connection later than the viewer, or earlier; what was *)
(* on its way is then lost from some message on.  A viewer serves its      *)
(* messages every 10 ms and redials after 500 ms at the earliest, so none  *)
(* is left over from one connection when the next is up.                   *)
(*                                                                         *)
(* The bytes of a shell, its size and the lists of shells are left out: a  *)
(* user may ask for any shell the host ever had, and learns from what he   *)
(* asks for, not from the list, that the terminal is no longer shared.     *)
(***************************************************************************)
EXTENDS Integers, Sequences, SequencesExt, FiniteSets

CONSTANTS
  Viewers,      \* client machines, one terminal window each
  NoPeer,       \* the address of a shell taken over by the host
  MaxSessions,  \* kMaxTerminalSessions
  DeferOpen,    \* TerminalViewerConfig::deferOpen: the user picks a shell first
  MaxDials,     \* viewer -> bound on its connections
  MaxPicks      \* viewer -> bound on what its user asks for

ASSUME ShellsOK ==
  /\ MaxSessions \in Nat \ {0}
  /\ MaxDials \in [Viewers -> Nat] /\ MaxPicks \in [Viewers -> Nat]
  /\ DeferOpen \in BOOLEAN

Conns == UNION {{v} \X (1..MaxDials[v]) : v \in Viewers}

ASSUME NoPeerOK == NoPeer \notin Conns

VARIABLES
  shells,    \* id -> record of the shell: its state and its peer
  nextId,    \* nextId_
  sharing,   \* TerminalHost::Running
  gone,      \* gone_: lost connections the pump thread has not looked at
  kicks,     \* kicks_: shells the user disconnected in the session table
  up,        \* connections the host has
  toHost,    \* connection -> messages on their way to the host
  toViewer,  \* connection -> messages on their way to the viewer
  viewer     \* viewer -> its client and its link

host == <<shells, nextId, sharing, gone, kicks>>
vars == <<shells, nextId, sharing, gone, kicks, up, toHost, toViewer, viewer>>

Open(id) == [type |-> "Open", id |-> id]       \* id 0: a new shell
Close(id) == [type |-> "Close", id |-> id]
Ack(id, reason) == [type |-> "Ack", id |-> id, reason |-> reason]
Exit(id) == [type |-> "Exit", id |-> id]

-----------------------------------------------------------------------------
(* The viewer.  Its link runs on a thread of its own and posts "ready" and *)
(* "lost" to the viewer's.                                                 *)

Conn(v) == <<v, viewer[v].dial>>

\* The connection still leads to its viewer.
Reaches(c) == c \in up /\ viewer[c[1]].link /\ Conn(c[1]) = c

\* SendRecord, FlushOutbox: viewer v becomes me; what it sends waits in the outbox
\* for a link that is ready, and is lost on a link whose host is gone.
Emit(v, me, messages) ==
  LET all == me.outbox \o messages
      c == <<v, me.dial>>
  IN  /\ viewer' = [viewer EXCEPT ![v] = [me EXCEPT !.outbox = IF me.link THEN <<>> ELSE all]]
      /\ toHost' = IF me.link /\ c \in up THEN [toHost EXCEPT ![c] = @ \o all] ELSE toHost

CanReattach(me) == me.term # 0 /\ me.state = "Idle"

\* TerminalClient::LinkLost
LostLink(me) == [me EXCEPT !.state = IF @ = "Closed" THEN @ ELSE "Idle"]

Reattach(v, me) == Emit(v, [me EXCEPT !.state = "Reattaching"], <<Open(me.term)>>)

OpenFresh(v, me) == Emit(v, [me EXCEPT !.state = "Opening", !.term = 0], <<Open(0)>>)

\* HandleLinkReady: back to its shell after a redial; else the list, or a shell at once.
\* The list is asked for unless the window has ended, and is shown when it comes; that it
\* comes is left out.
LinkReady(v, me) ==
  IF me.dial > 1 /\ CanReattach(me) THEN Reattach(v, me)
  ELSE IF DeferOpen THEN Emit(v, [me EXCEPT !.picker = @ \/ me.state # "Closed"], <<>>)
  ELSE OpenFresh(v, me)

RunCommand(v) ==
  LET me == [viewer[v] EXCEPT !.posted = Tail(@)] IN
  /\ viewer[v].posted # <<>>
  /\ \/ /\ Head(viewer[v].posted) = "ready"
        /\ LinkReady(v, me)
     \/ /\ Head(viewer[v].posted) = "lost"
        /\ viewer' = [viewer EXCEPT ![v] = [LostLink(me) EXCEPT !.lost = TRUE]]
        /\ UNCHANGED toHost
  /\ UNCHANGED <<host, up, toViewer>>

\* The Loop's own FlushOutbox.
Flush(v) ==
  /\ viewer[v].link /\ viewer[v].outbox # <<>>
  /\ Emit(v, viewer[v], <<>>)
  /\ UNCHANGED <<host, up, toViewer>>

\* onRefused, for a shell the client was reattaching.
AskAgain(me) == [me EXCEPT !.state = "Idle", !.retry = @ \/ me.lost]

\* HandleMessage, TermOpenAck, with onOpened and onRefused: a shell the host does not
\* know to be detached yet is asked for again.  A terminal not shared is refused even to a
\* client that has stopped waiting.
Acknowledged(me, ack) ==
  IF /\ me.state \notin {"Opening", "Reattaching"}
     /\ me.state # "Idle" \/ ack.reason # "NotShared"
  THEN me
  ELSE IF ack.reason = "Accepted"
       THEN [me EXCEPT !.state = "Open", !.term = ack.id, !.lost = FALSE, !.retry = FALSE]
  ELSE IF me.state = "Reattaching" /\ ack.reason = "NoSuchSession"
       THEN AskAgain(me)
  ELSE [me EXCEPT !.state = "Refused", !.term = 0]

\* HandleMessage, TermExit
Ended(me, id) == IF id = me.term THEN [me EXCEPT !.state = "Closed", !.term = 0] ELSE me

ClientHandlesMessage(v) ==
  LET m == Head(toViewer[Conn(v)]) IN
  /\ viewer[v].dial > 0
  /\ toViewer[Conn(v)] # <<>>
  /\ viewer' = [viewer EXCEPT ![v] =
                  IF m.type = "Ack" THEN Acknowledged(@, m) ELSE Ended(@, m.id)]
  /\ toViewer' = [toViewer EXCEPT ![Conn(v)] = Tail(@)]
  /\ UNCHANGED <<host, up, toHost>>

\* The shell v is asking for can still be had: nobody else has it.
Kept(v) ==
  LET id == viewer[v].term IN
  /\ id \in DOMAIN shells
  /\ \/ shells[id].state = "Detached"
     \/ shells[id].state = "Live" /\ shells[id].peer[1] = v

\* RetryResume.  The viewer gives up after kTerminalReattachGraceUs, 120 s, long after
\* the host has noticed the lost connection, which takes 30 s.
RetryResume(v) ==
  LET me == [viewer[v] EXCEPT !.retry = FALSE] IN
  /\ me # viewer[v]
  /\ \/ /\ me.lost /\ me.link /\ CanReattach(me)
        /\ Reattach(v, me)
     \/ /\ ~me.lost \/ ~Kept(v)
        /\ viewer' = [viewer EXCEPT ![v] = [me EXCEPT !.failed = me.lost]]
        /\ UNCHANGED toHost
  /\ UNCHANGED <<host, up, toViewer>>

\* The user picks from the list, which is hidden once a shell is picked.  (A list asked
\* for before that and answered later brings it back; that is left out.)
Picks(v) == viewer[v].picker /\ viewer[v].picks < MaxPicks[v]

Picked(v) == [viewer[v] EXCEPT !.picks = @ + 1, !.picker = FALSE]

OpenNew(v) ==
  /\ Picks(v)
  /\ OpenFresh(v, Picked(v))
  /\ UNCHANGED <<host, up, toViewer>>

\* TerminalClient::Resume does nothing for a window that has a shell or had one.
ResumeSession(v, id) ==
  /\ Picks(v)
  /\ \/ /\ viewer[v].state \notin {"Open", "Closed"}
        /\ Reattach(v, [Picked(v) EXCEPT !.term = id])
     \/ /\ viewer[v].state \in {"Open", "Closed"}
        /\ Emit(v, Picked(v), <<>>)
  /\ UNCHANGED <<host, up, toViewer>>

Left(me, id) == IF id = me.term THEN [me EXCEPT !.term = 0, !.state = "Closed"] ELSE me

\* A list comes after the answer to what was opened before it was asked for: it has no
\* shell of this connection that the window does not yet know to be its own.
CloseSession(v, id) ==
  /\ Picks(v) /\ viewer[v].state # "Closed"
  /\ id \in DOMAIN shells /\ shells[id].peer = Conn(v) => viewer[v].term = id
  /\ Emit(v, [Left(Picked(v), id) EXCEPT !.picker = TRUE], <<Close(id)>>)
  /\ UNCHANGED <<host, up, toViewer>>

-----------------------------------------------------------------------------
(* The link.                                                               *)

DialAndAdmit(v) ==
  LET me == viewer[v] IN
  /\ ~me.link /\ me.dial < MaxDials[v]
  /\ me.posted = <<>>
  /\ me.dial > 0 => toViewer[Conn(v)] = <<>>
  /\ viewer' = [viewer EXCEPT ![v] =
       [me EXCEPT !.link = TRUE, !.dial = @ + 1, !.posted = <<"ready">>]]
  /\ up' = up \cup {<<v, me.dial + 1>>}
  /\ UNCHANGED <<host, toHost, toViewer>>

\* The viewer's end of the connection is gone; on its way, the rest of what either
\* side sent is lost.
LinkLost(v) ==
  /\ viewer[v].link
  /\ viewer' = [viewer EXCEPT ![v].link = FALSE, ![v].posted = Append(@, "lost")]
  /\ \E n \in 0..Len(toHost[Conn(v)]), m \in 0..Len(toViewer[Conn(v)]) :
       /\ toHost' = [toHost EXCEPT ![Conn(v)] = SubSeq(@, 1, n)]
       /\ toViewer' = [toViewer EXCEPT ![Conn(v)] = SubSeq(@, 1, m)]
  /\ UNCHANGED <<host, up>>

\* The host closes a connection or finds it gone, whatever the viewer thinks: onClosed,
\* with TerminalHost::OnPeerGone.  What came on it before has been handled.
OnPeerGone(c) ==
  /\ c \in up
  /\ up' = up \ {c}
  /\ toHost' = [toHost EXCEPT ![c] = <<>>]
  /\ gone' = IF sharing THEN gone \cup {c} ELSE gone
  /\ UNCHANGED <<shells, nextId, sharing, kicks, toViewer, viewer>>

-----------------------------------------------------------------------------
(* The host.                                                               *)

Tell(c, message) ==
  toViewer' = IF c # NoPeer /\ Reaches(c)
              THEN [toViewer EXCEPT ![c] = Append(@, message)] ELSE toViewer

Without(ids) == [id \in DOMAIN shells \ ids |-> shells[id]]

\* TerminalSessions::Open with a resumeId, and the shell's new peer.
Attached(shell, c) == [state |-> "Live", peer |-> c]

\* Faulty variant of Resumable: any shell no client holds.
ResumableUnlessLive(id) == id \in DOMAIN shells /\ shells[id].state # "Live"

Resumable(id) == id \in DOMAIN shells /\ shells[id].state = "Detached"

HandleOpen(c, id) ==
  \/ /\ ~sharing
     /\ Tell(c, Ack(0, "NotShared"))
     /\ UNCHANGED <<shells, nextId>>
  \/ /\ sharing /\ id # 0 /\ Resumable(id)
     /\ shells' = [shells EXCEPT ![id] = Attached(@, c)]
     /\ Tell(c, Ack(id, "Accepted"))
     /\ UNCHANGED nextId
  \/ /\ sharing /\ id # 0 /\ ~Resumable(id)
     /\ Tell(c, Ack(0, "NoSuchSession"))
     /\ UNCHANGED <<shells, nextId>>
  \/ /\ sharing /\ id = 0 /\ Cardinality(DOMAIN shells) >= MaxSessions
     /\ Tell(c, Ack(0, "TooManySessions"))
     /\ UNCHANGED <<shells, nextId>>
  \/ /\ sharing /\ id = 0 /\ Cardinality(DOMAIN shells) < MaxSessions
     /\ nextId' = nextId + 1
     /\ \/ /\ shells' = [i \in DOMAIN shells \cup {nextId} |->
                IF i = nextId THEN [state |-> "Live", peer |-> c] ELSE shells[i]]
           /\ Tell(c, Ack(nextId, "Accepted"))
        \/ \* The shell process does not start.
           /\ Tell(c, Ack(0, "TooManySessions"))
           /\ UNCHANGED shells

\* Faulty variant of TellsOnClose: nobody is told.
TellsNobody(id, c) == FALSE

TellsOnClose(id, c) == shells[id].state = "Live" /\ shells[id].peer # c

\* A close is answered for any shell, whoever holds it.
HandleClose(c, id) ==
  /\ shells' = IF sharing THEN Without({id}) ELSE shells
  /\ IF sharing /\ id \in DOMAIN shells /\ TellsOnClose(id, c)
     THEN Tell(shells[id].peer, Exit(id)) ELSE UNCHANGED toViewer
  /\ UNCHANGED nextId

HostHandlesMessage(c) ==
  /\ toHost[c] # <<>>
  /\ LET m == Head(toHost[c]) IN
       \/ m.type = "Open" /\ HandleOpen(c, m.id)
       \/ m.type = "Close" /\ HandleClose(c, m.id)
  /\ toHost' = [toHost EXCEPT ![c] = Tail(@)]
  /\ UNCHANGED <<sharing, gone, kicks, up, viewer>>

\* DrainGone
AfterGone(shell) ==
  IF shell.peer \in gone /\ shell.state = "Live" THEN [shell EXCEPT !.state = "Detached"]
  ELSE shell

\* The ids closed, each in its turn, whose peer is c and is told.
Exits(ids, c) ==
  LET told == SetToSeq({id \in ids : shells[id].peer = c})
  IN  [i \in DOMAIN told |-> Exit(told[i])]

\* A turn of Loop: DrainGone, DrainKicks, and PumpShells, which finds that the shells of
\* finished ended on their own.
Turn(finished) ==
  LET kicked == kicks \cap DOMAIN shells
      over == finished \ kicked
  IN  /\ sharing
      /\ gone # {} \/ kicks # {} \/ finished # {}
      /\ shells' = [id \in DOMAIN shells \ (kicked \cup over) |-> AfterGone(shells[id])]
      /\ toViewer' = [c \in Conns |->
           IF Reaches(c) THEN toViewer[c] \o Exits(kicked, c) \o Exits(over, c) ELSE toViewer[c]]
      /\ gone' = {} /\ kicks' = {}
      /\ UNCHANGED <<nextId, sharing, up, toHost, viewer>>

KickSession(id) ==
  /\ id \in DOMAIN shells
  /\ kicks' = kicks \cup {id}
  /\ UNCHANGED <<shells, nextId, sharing, gone, up, toHost, toViewer, viewer>>

\* Faulty variant of TakenOver: the shell keeps its peer.
TakenOverButPeer(shell) == [shell EXCEPT !.state = "Local"]

TakenOver(shell) == [state |-> "Local", peer |-> NoPeer]

\* Stop & attach.
AttachLocal(id) ==
  /\ id \in DOMAIN shells /\ shells[id].state # "Local"
  /\ shells' = [shells EXCEPT ![id] = TakenOver(@)]
  /\ IF shells[id].state = "Live" THEN Tell(shells[id].peer, Exit(id)) ELSE UNCHANGED toViewer
  /\ UNCHANGED <<nextId, sharing, gone, kicks, up, toHost, viewer>>

CloseLocal(id) ==
  /\ id \in DOMAIN shells /\ shells[id].state = "Local"
  /\ shells' = Without({id})
  /\ UNCHANGED <<nextId, sharing, gone, kicks, up, toHost, toViewer, viewer>>

\* The terminal is shared no longer; nobody is told.
Stop ==
  /\ sharing
  /\ sharing' = FALSE /\ shells' = <<>> /\ kicks' = {}
  /\ UNCHANGED <<nextId, gone, up, toHost, toViewer, viewer>>

-----------------------------------------------------------------------------
NewViewer == [state |-> "Idle", term |-> 0, link |-> FALSE, dial |-> 0, outbox |-> <<>>,
              posted |-> <<>>, lost |-> FALSE, retry |-> FALSE, failed |-> FALSE,
              picker |-> FALSE, picks |-> 0]

Init ==
  /\ shells = <<>> /\ nextId = 1 /\ sharing = TRUE /\ gone = {} /\ kicks = {}
  /\ up = {}
  /\ toHost = [c \in Conns |-> <<>>] /\ toViewer = [c \in Conns |-> <<>>]
  /\ viewer = [v \in Viewers |-> NewViewer]

Ids == 1..(nextId - 1)

ViewerThread(v) == RunCommand(v) \/ ClientHandlesMessage(v) \/ Flush(v) \/ RetryResume(v)

User(v) == OpenNew(v) \/ \E id \in Ids : ResumeSession(v, id) \/ CloseSession(v, id)

Network == \/ \E v \in Viewers : DialAndAdmit(v) \/ LinkLost(v)
           \/ \E c \in Conns : OnPeerGone(c)

HostUser == Stop \/ \E id \in Ids : KickSession(id) \/ AttachLocal(id) \/ CloseLocal(id)

Next ==
  \/ \E v \in Viewers : ViewerThread(v) \/ User(v)
  \/ Network
  \/ \E c \in Conns : HostHandlesMessage(c)
  \/ \E finished \in SUBSET DOMAIN shells : Turn(finished)
  \/ HostUser

Spec == Init /\ [][Next]_vars

-----------------------------------------------------------------------------
(* Properties.                                                             *)

Message == [type : {"Open", "Close"}, id : Nat]
Answer == [type : {"Ack"}, id : Nat,
           reason : {"Accepted", "NoSuchSession", "TooManySessions", "NotShared"}]
          \cup [type : {"Exit"}, id : Nat]

\* The values the variables may have; only a live shell or a detached one has a peer.
TypeOK ==
  /\ nextId \in Nat /\ sharing \in BOOLEAN
  /\ DOMAIN shells \subseteq Ids
  /\ \A id \in DOMAIN shells :
       \/ shells[id].state \in {"Live", "Detached"} /\ shells[id].peer \in Conns
       \/ shells[id].state = "Local" /\ shells[id].peer = NoPeer
  /\ gone \subseteq Conns /\ up \subseteq Conns
  /\ kicks \subseteq Ids
  /\ \A c \in Conns : toHost[c] \in Seq(Message) /\ toViewer[c] \in Seq(Answer)
  /\ \A v \in Viewers :
       /\ viewer[v].state \in {"Idle", "Opening", "Open", "Reattaching", "Refused", "Closed"}
       /\ viewer[v].term \in 0..(nextId - 1)
       /\ viewer[v].dial \in 0..MaxDials[v]

\* Nothing is on its way between viewer v and the host.
Quiet(v) ==
  LET me == viewer[v] IN
  /\ me.link /\ Conn(v) \in up
  /\ me.outbox = <<>> /\ me.posted = <<>>
  /\ toHost[Conn(v)] = <<>> /\ toViewer[Conn(v)] = <<>>

\* Viewer v asked for no second shell on a later connection.  One that did may take the
\* answer to its first request for the answer to its second: TERM_OPEN_ACK names no
\* request.
AskedOnce(v) == viewer[v].picks <= 1 \/ viewer[v].dial = 1

\* A window that shows a shell has it: on a live connection with nothing on its way, the
\* host holds that shell for this very connection (TerminalHost::HandleMessage drops the
\* keystrokes of any other), whoever closed, took over or resumed what before.  Only
\* when the host stops sharing the terminal is the window not told.
HolderIsOwner ==
  \A v \in Viewers :
    sharing /\ Quiet(v) /\ AskedOnce(v) /\ viewer[v].state = "Open" =>
      LET id == viewer[v].term IN
      id \in DOMAIN shells /\ shells[id] = [state |-> "Live", peer |-> Conn(v)]

\* A shell taken over at the host belongs to the host until it ends (H-14): no client
\* resumes it, and no lost connection detaches it.
LocalIsForGood ==
  [][\A id \in DOMAIN shells :
       shells[id].state = "Local" => id \notin DOMAIN shells' \/ shells'[id] = shells[id]]_vars

\* A live shell whose connection is lost is on the list of those the pump thread has to
\* detach (TerminalHost::DrainGone): no shell stays live for a peer that is gone.
LostIsNoticed ==
  \A id \in DOMAIN shells :
    shells[id].state = "Live" => shells[id].peer \in up \cup gone

\* A shell live for the first connection of a window is in that window once nothing is
\* on its way: none runs on unseen, whatever other windows, which may have redialled,
\* opened, resumed or closed.  (On a later connection one may: what an outbox kept from
\* the connection before opens a shell the window has stopped waiting for.)
LiveIsSeen ==
  \A id \in DOMAIN shells :
    LET v == shells[id].peer[1] IN
    shells[id].state = "Live" /\ viewer[v].dial = 1 /\ Quiet(v) =>
      viewer[v].state = "Open" /\ viewer[v].term = id

\* What a window shows and what the host keeps for it are the same, both ways.
WindowsMatchShells == HolderIsOwner /\ LiveIsSeen
=============================================================================
