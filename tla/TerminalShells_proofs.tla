------------------------ MODULE TerminalShells_proofs ------------------------
(***************************************************************************)
(* What holds of the shells a host keeps for any number of viewers, shells *)
(* and connections.  For the host's own bookkeeping nothing the viewers do  *)
(* matters but that a message reaches the host on a connection it has.  The *)
(* types and the agreement of windows and shells follow both ends and what  *)
(* is on its way between them.                                              *)
(***************************************************************************)
EXTENDS TerminalShells, FiniteSetTheorems, SequenceTheorems, TLAPS

Shell == [state : {"Live", "Detached"}, peer : Conns] \cup [state : {"Local"}, peer : {NoPeer}]

ShellsInv ==
  /\ nextId \in Nat \ {0}
  /\ DOMAIN shells \subseteq 1..(nextId - 1)
  /\ \A id \in DOMAIN shells : shells[id] \in Shell
  /\ ~sharing => DOMAIN shells = {}

\* What waits for the host waits on a connection the host has.
ArrivesOnLive ==
  /\ DOMAIN toHost = Conns
  /\ \A c \in Conns : toHost[c] # <<>> => c \in up

IInv == ShellsInv /\ ArrivesOnLive /\ LostIsNoticed

\* A viewer's message is put only on a connection the host has (FlushOutbox).
LEMMA EmitArrives ==
  ASSUME ArrivesOnLive, UNCHANGED up, NEW v, NEW me, NEW messages, Emit(v, me, messages)
  PROVE  ArrivesOnLive'
BY DEF ArrivesOnLive, Emit

\* A viewer's thread and its user change nothing at the host.
LEMMA ViewerSteps ==
  ASSUME IInv, NEW v \in Viewers, ViewerThread(v) \/ User(v)
  PROVE  IInv' /\ UNCHANGED shells
<1>1. UNCHANGED <<host, up>> /\ ArrivesOnLive'
  <2>1. CASE RunCommand(v)
    BY <2>1, EmitArrives DEF RunCommand, LinkReady, Reattach, OpenFresh, IInv, ArrivesOnLive
  <2>2. CASE ClientHandlesMessage(v)
    BY <2>2 DEF ClientHandlesMessage, IInv, ArrivesOnLive
  <2>3. CASE Flush(v)
    BY <2>3, EmitArrives DEF Flush, IInv
  <2>4. CASE RetryResume(v)
    BY <2>4, EmitArrives DEF RetryResume, Reattach, IInv, ArrivesOnLive
  <2>5. CASE OpenNew(v)
    BY <2>5, EmitArrives DEF OpenNew, OpenFresh, IInv
  <2>6. CASE \E id \in Ids : ResumeSession(v, id)
    BY <2>6, EmitArrives DEF ResumeSession, Reattach, IInv
  <2>7. CASE \E id \in Ids : CloseSession(v, id)
    BY <2>7, EmitArrives DEF CloseSession, IInv
  <2> QED
    BY <2>1, <2>2, <2>3, <2>4, <2>5, <2>6, <2>7 DEF ViewerThread, User
<1> QED
  BY <1>1 DEF host, IInv, ShellsInv, LostIsNoticed

\* Connections come and go; one that goes is on the list before it is given up.
LEMMA NetworkSteps ==
  ASSUME IInv, Network
  PROVE  IInv' /\ UNCHANGED shells
<1>1. CASE \E v \in Viewers : DialAndAdmit(v)
  BY <1>1 DEF DialAndAdmit, host, IInv, ShellsInv, ArrivesOnLive, LostIsNoticed
<1>2. CASE \E v \in Viewers : LinkLost(v)
  <2>1. PICK v \in Viewers : LinkLost(v)
    BY <1>2
  <2>2. PICK n \in 0..Len(toHost[Conn(v)]) :
          toHost' = [toHost EXCEPT ![Conn(v)] = SubSeq(@, 1, n)]
    BY <2>1 DEF LinkLost
  <2>3. UNCHANGED <<host, up>>
    BY <2>1 DEF LinkLost
  <2>4. ASSUME NEW c \in Conns, toHost'[c] # <<>>
        PROVE  c \in up
    <3>1. CASE c = Conn(v) /\ toHost[c] = <<>>
      <4>1. n = 0
        BY <3>1
      <4>2. toHost'[c] = <<>>
        BY <2>2, <3>1, <4>1 DEF IInv, ArrivesOnLive
      <4> QED
        BY <2>4, <4>2
    <3>2. CASE c # Conn(v) \/ toHost[c] # <<>>
      BY <2>2, <2>4, <3>2 DEF IInv, ArrivesOnLive
    <3> QED
      BY <3>1, <3>2
  <2> QED
    BY <2>2, <2>3, <2>4 DEF host, IInv, ShellsInv, ArrivesOnLive, LostIsNoticed
<1>3. CASE \E c \in Conns : OnPeerGone(c)
  BY <1>3 DEF OnPeerGone, IInv, ShellsInv, ArrivesOnLive, LostIsNoticed
<1> QED
  BY <1>1, <1>2, <1>3 DEF Network

\* What the shells may do in a step of the host: each that is still there is detached
\* from a connection on the list, or attached to one the host has, or as it was, and a
\* shell of the host's own stays what it is.
KeepsFaith ==
  /\ ShellsInv'
  /\ LostIsNoticed'
  /\ \A id \in DOMAIN shells :
       shells[id].state = "Local" => id \notin DOMAIN shells' \/ shells'[id] = shells[id]

LEMMA OpenKeepsFaith ==
  ASSUME IInv, NEW c \in up, c \in Conns, NEW id, HandleOpen(c, id),
         UNCHANGED <<sharing, gone, up>>
  PROVE  KeepsFaith
<1>1. CASE UNCHANGED <<shells, nextId>>
  BY <1>1 DEF KeepsFaith, IInv, ShellsInv, LostIsNoticed
<1>2. CASE /\ sharing /\ Resumable(id) /\ UNCHANGED nextId
           /\ shells' = [shells EXCEPT ![id] = Attached(@, c)]
  <2>1. Attached(shells[id], c) = [state |-> "Live", peer |-> c]
    BY DEF Attached
  <2>2. DOMAIN shells' = DOMAIN shells /\ id \in DOMAIN shells
    BY <1>2 DEF Resumable
  <2>3. \A i \in DOMAIN shells :
          shells'[i] = IF i = id THEN [state |-> "Live", peer |-> c] ELSE shells[i]
    BY <1>2, <2>1, <2>2
  <2> QED
    BY <1>2, <2>2, <2>3 DEF KeepsFaith, Resumable, IInv, ShellsInv, Shell, LostIsNoticed
<1>3. CASE /\ sharing /\ nextId' = nextId + 1
           /\ shells' = [i \in DOMAIN shells \cup {nextId} |->
                IF i = nextId THEN [state |-> "Live", peer |-> c] ELSE shells[i]]
  <2>1. nextId \notin DOMAIN shells
    BY DEF IInv, ShellsInv
  <2>2. DOMAIN shells' = DOMAIN shells \cup {nextId} /\ nextId' \in Nat \ {0}
    BY <1>3 DEF IInv, ShellsInv
  <2>3. shells'[nextId] = [state |-> "Live", peer |-> c]
    BY <1>3
  <2>4. \A i \in DOMAIN shells : shells'[i] = shells[i]
    BY <1>3, <2>1
  <2>5. DOMAIN shells' \subseteq 1..(nextId' - 1)
    BY <1>3, <2>2 DEF IInv, ShellsInv
  <2>6. ShellsInv'
    BY <1>3, <2>2, <2>3, <2>4, <2>5 DEF IInv, ShellsInv, Shell
  <2>7. LostIsNoticed'
    BY <2>2, <2>3, <2>4 DEF IInv, LostIsNoticed
  <2> QED
    BY <2>1, <2>4, <2>6, <2>7 DEF KeepsFaith
<1>4. CASE UNCHANGED shells /\ nextId' = nextId + 1
  BY <1>4 DEF KeepsFaith, IInv, ShellsInv, LostIsNoticed
<1> QED
  BY <1>1, <1>2, <1>3, <1>4 DEF HandleOpen

\* Closing shells.
LEMMA ClosingKeepsFaith ==
  ASSUME IInv, NEW ids, shells' = Without(ids), UNCHANGED <<nextId, sharing, up>>,
         gone \subseteq gone'
  PROVE  KeepsFaith
BY DEF Without, KeepsFaith, IInv, ShellsInv, LostIsNoticed

LEMMA MessageSteps ==
  ASSUME IInv, NEW c \in Conns, HostHandlesMessage(c)
  PROVE  IInv' /\ KeepsFaith
<1>1. c \in up
  BY DEF HostHandlesMessage, IInv, ArrivesOnLive
<1>2. ArrivesOnLive'
  BY <1>1 DEF HostHandlesMessage, IInv, ArrivesOnLive
<1>3. KeepsFaith
  <2>1. CASE HandleOpen(c, Head(toHost[c]).id)
    BY <1>1, <2>1, OpenKeepsFaith DEF HostHandlesMessage
  <2>2. CASE HandleClose(c, Head(toHost[c]).id)
    <3>1. CASE sharing
      BY <2>2, <3>1, ClosingKeepsFaith DEF HandleClose, HostHandlesMessage
    <3>2. CASE ~sharing
      BY <2>2, <3>2 DEF HandleClose, HostHandlesMessage, KeepsFaith, IInv, ShellsInv,
                        LostIsNoticed
    <3> QED
      BY <3>1, <3>2
  <2> QED
    BY <2>1, <2>2 DEF HostHandlesMessage
<1> QED
  BY <1>2, <1>3 DEF IInv, KeepsFaith

\* The pump thread's turn empties the list, having detached every shell on it.
LEMMA TurnSteps ==
  ASSUME IInv, NEW finished, Turn(finished)
  PROVE  IInv' /\ KeepsFaith
<1> DEFINE over == finished \ (kicks \cap DOMAIN shells)
           left == DOMAIN shells \ ((kicks \cap DOMAIN shells) \cup over)
<1>1. shells' = [id \in left |-> AfterGone(shells[id])]
  BY DEF Turn
<1>2. UNCHANGED <<nextId, sharing, up, toHost>> /\ sharing /\ gone' = {}
  BY DEF Turn
<1>3. ASSUME NEW id \in left
      PROVE  /\ AfterGone(shells[id]) \in Shell
             /\ AfterGone(shells[id]).state = "Live" => AfterGone(shells[id]).peer \in up
             /\ shells[id].state = "Local" => AfterGone(shells[id]) = shells[id]
  BY DEF AfterGone, IInv, ShellsInv, Shell, LostIsNoticed
<1> HIDE DEF left
<1>4. left \subseteq DOMAIN shells
  BY DEF left
<1>5. KeepsFaith
  BY <1>1, <1>2, <1>3, <1>4 DEF KeepsFaith, IInv, ShellsInv, LostIsNoticed
<1> QED
  BY <1>2, <1>5 DEF IInv, KeepsFaith, ArrivesOnLive

\* What the user of the host does.
LEMMA HostUserSteps ==
  ASSUME IInv, HostUser
  PROVE  IInv' /\ KeepsFaith
<1>1. UNCHANGED <<up, toHost>>
  BY DEF HostUser, Stop, KickSession, AttachLocal, CloseLocal
<1>2. KeepsFaith
  <2>1. CASE Stop
    BY <2>1 DEF Stop, KeepsFaith, IInv, ShellsInv, LostIsNoticed
  <2>2. CASE \E id \in Ids : KickSession(id)
    BY <2>2 DEF KickSession, KeepsFaith, IInv, ShellsInv, LostIsNoticed
  <2>3. CASE \E id \in Ids : AttachLocal(id)
    BY <2>3 DEF AttachLocal, TakenOver, KeepsFaith, IInv, ShellsInv, Shell, LostIsNoticed
  <2>4. CASE \E id \in Ids : CloseLocal(id)
    BY <2>4, ClosingKeepsFaith DEF CloseLocal
  <2> QED
    BY <2>1, <2>2, <2>3, <2>4 DEF HostUser
<1> QED
  BY <1>1, <1>2 DEF IInv, KeepsFaith, ArrivesOnLive

\* Every step keeps the invariant, and the shells the host took over.
LEMMA EveryStep ==
  ASSUME IInv, [Next]_vars
  PROVE  /\ IInv'
         /\ \A id \in DOMAIN shells :
              shells[id].state = "Local" => id \notin DOMAIN shells' \/ shells'[id] = shells[id]
<1>1. CASE \E v \in Viewers : ViewerThread(v) \/ User(v)
  BY <1>1, ViewerSteps
<1>2. CASE Network
  BY <1>2, NetworkSteps
<1>3. CASE \E c \in Conns : HostHandlesMessage(c)
  BY <1>3, MessageSteps DEF KeepsFaith
<1>4. CASE \E finished \in SUBSET DOMAIN shells : Turn(finished)
  BY <1>4, TurnSteps DEF KeepsFaith
<1>5. CASE HostUser
  BY <1>5, HostUserSteps DEF KeepsFaith
<1>6. CASE UNCHANGED vars
  BY <1>6 DEF vars, IInv, ShellsInv, ArrivesOnLive, LostIsNoticed
<1> QED
  BY <1>1, <1>2, <1>3, <1>4, <1>5, <1>6 DEF Next

LEMMA Inductive == Spec => []IInv
<1>1. Init => IInv
  BY DEF Init, IInv, ShellsInv, ArrivesOnLive, LostIsNoticed
<1>2. IInv /\ [Next]_vars => IInv'
  BY EveryStep
<1> QED
  BY <1>1, <1>2, PTL DEF Spec

\* No shell stays live for a peer that is gone: until the pump thread has detached it,
\* the lost connection is on its list (TerminalHost::OnPeerGone, DrainGone).
THEOREM GoneIsNeverForgotten == Spec => []LostIsNoticed
<1>1. IInv => LostIsNoticed
  BY DEF IInv
<1> QED
  BY <1>1, Inductive, PTL

\* A shell taken over at the host is never a client's again
\* (TerminalHost::AttachLocal, TerminalSessions::Open).
THEOREM TakenOverForGood == Spec => LocalIsForGood
<1>1. IInv /\ [Next]_vars =>
        [\A id \in DOMAIN shells :
           shells[id].state = "Local" => id \notin DOMAIN shells' \/ shells'[id] = shells[id]]_vars
  BY EveryStep
<1> QED
  BY <1>1, Inductive, PTL DEF Spec, LocalIsForGood

-----------------------------------------------------------------------------
(* Types.                                                                  *)

Client ==
  [state : {"Idle", "Opening", "Open", "Reattaching", "Refused", "Closed"},
   term : Nat, link : BOOLEAN, dial : Nat, outbox : Seq(Message),
   posted : Seq({"ready", "lost"}),
   lost : BOOLEAN, retry : BOOLEAN, failed : BOOLEAN, picker : BOOLEAN, picks : Nat]

\* What the host says of shells, it says of those it has given a number.
Said == {m \in Answer : m.id < nextId}

\* That a link was lost is posted last, and served last.
PostedOK(me) ==
  /\ me.link => Len(me.posted) <= 1
  /\ \A i \in 1..Len(me.posted) :
       me.posted[i] = IF ~me.link /\ i = Len(me.posted) THEN "lost" ELSE "ready"

MailTyped ==
  /\ toHost \in [Conns -> Seq(Message)]
  /\ toViewer \in [Conns -> Seq(Said)]

ViewersTyped ==
  /\ viewer \in [Viewers -> Client]
  /\ \A v \in Viewers :
       /\ viewer[v].term < nextId
       /\ viewer[v].dial <= MaxDials[v]
       /\ PostedOK(viewer[v])

HostTyped ==
  /\ sharing \in BOOLEAN /\ gone \subseteq Conns /\ up \subseteq Conns
  /\ kicks \subseteq Ids

Typed == HostTyped /\ MailTyped /\ ViewersTyped

LEMMA ConnShape ==
  /\ \A v \in Viewers : MaxDials[v] \in Nat /\ MaxPicks[v] \in Nat
  /\ \A c \in Conns : /\ c[1] \in Viewers /\ c[2] \in 1..MaxDials[c[1]]
                      /\ c = <<c[1], c[2]>>
  /\ \A v \in Viewers : \A n \in 1..MaxDials[v] : <<v, n>> \in Conns
BY ShellsOK DEF ShellsOK, Conns

LEMMA ConnTyped ==
  ASSUME Typed, NEW v \in Viewers, viewer[v].dial > 0
  PROVE  Conn(v) \in Conns
<1>1. viewer[v].dial \in Nat
  BY DEF Typed, ViewersTyped, Client
<1>2. viewer[v].dial \in 1..MaxDials[v]
  BY <1>1, ConnShape DEF Typed, ViewersTyped
<1> QED
  BY <1>2, ConnShape DEF Conn

LEMMA MessagesTyped ==
  ASSUME NEW id \in Nat
  PROVE  /\ Open(id) \in Message /\ Close(id) \in Message
         /\ Exit(id) \in Answer
         /\ \A reason \in {"Accepted", "NoSuchSession", "TooManySessions", "NotShared"} :
              Ack(id, reason) \in Answer
BY DEF Open, Close, Exit, Ack, Message, Answer

\* The viewer's messages wait in the outbox or go to the host.
LEMMA EmitTyped ==
  ASSUME Typed, NEW v \in Viewers, NEW me \in Client, me.term < nextId,
         me.dial = viewer[v].dial, PostedOK(me), NEW messages \in Seq(Message),
         Emit(v, me, messages), UNCHANGED <<host, up, toViewer>>
  PROVE  Typed'
<1> DEFINE all == me.outbox \o messages
           left == IF me.link THEN <<>> ELSE all
           sent == [me EXCEPT !.outbox = left]
<1>1. me.outbox \in Seq(Message)
  BY DEF Client
<1>2. all \in Seq(Message) /\ left \in Seq(Message)
  BY <1>1
<1> HIDE DEF all, left
<1>3. sent \in Client
  BY <1>2 DEF Client
<1>4. sent.term = me.term /\ sent.dial = me.dial /\ sent.posted = me.posted /\ sent.link = me.link
  BY <1>2 DEF Client
<1> HIDE DEF sent
<1>5. viewer' = [viewer EXCEPT ![v] = sent]
  BY DEF Emit, sent, left, all
<1>6. UNCHANGED nextId
  BY DEF host
<1>7. ViewersTyped'
  <2>1. viewer' \in [Viewers -> Client]
    BY <1>3, <1>5 DEF Typed, ViewersTyped
  <2>2. ASSUME NEW w \in Viewers
        PROVE  /\ viewer'[w].term < nextId /\ viewer'[w].dial <= MaxDials[w]
               /\ PostedOK(viewer'[w])
    <3>1. CASE w = v
      <4>1. viewer'[w] = sent
        BY <1>5, <3>1 DEF Typed, ViewersTyped
      <4>2. PostedOK(sent)
        BY <1>4 DEF PostedOK
      <4> QED
        BY <1>4, <3>1, <4>1, <4>2 DEF Typed, ViewersTyped
    <3>2. CASE w # v
      <4>1. viewer'[w] = viewer[w]
        BY <1>5, <3>2 DEF Typed, ViewersTyped
      <4> QED
        BY <4>1 DEF Typed, ViewersTyped
    <3> QED
      BY <3>1, <3>2
  <2> QED
    BY <1>6, <2>1, <2>2 DEF ViewersTyped, PostedOK
<1>8. toHost' \in [Conns -> Seq(Message)]
  <2>1. CASE me.link /\ <<v, me.dial>> \in up
    <3>1. toHost' = [toHost EXCEPT ![<<v, me.dial>>] = @ \o all]
      BY <2>1 DEF Emit, all
    <3>2. \A s \in Seq(Message) : s \o all \in Seq(Message)
      BY <1>2
    <3> QED
      BY <3>1, <3>2 DEF Typed, MailTyped
  <2>2. CASE ~(me.link /\ <<v, me.dial>> \in up)
    BY <2>2 DEF Emit, Typed, MailTyped
  <2> QED
    BY <2>1, <2>2
<1> QED
  BY <1>6, <1>7, <1>8 DEF Typed, HostTyped, MailTyped, host, Said, Ids

\* Each operation of the client leaves a client.
LEMMA ClientsStayClients ==
  ASSUME NEW me \in Client
  PROVE  /\ [me EXCEPT !.retry = FALSE] \in Client
         /\ \A b \in BOOLEAN : [me EXCEPT !.picker = b] \in Client
         /\ [me EXCEPT !.picks = @ + 1, !.picker = FALSE] \in Client
         /\ [me EXCEPT !.state = "Reattaching"] \in Client
         /\ [me EXCEPT !.state = "Opening", !.term = 0] \in Client
         /\ \A id \in Nat : [me EXCEPT !.term = id] \in Client /\ Left(me, id) \in Client
         /\ \A id \in Nat : Ended(me, id) \in Client
         /\ [LostLink(me) EXCEPT !.lost = TRUE] \in Client
         /\ AskAgain(me) \in Client
<1>1. [me EXCEPT !.retry = FALSE] \in Client
  BY DEF Client
<1>2. \A b \in BOOLEAN : [me EXCEPT !.picker = b] \in Client
  BY DEF Client
<1>3. [me EXCEPT !.picks = @ + 1, !.picker = FALSE] \in Client
  <2>1. \A n \in Nat : [me EXCEPT !.picks = n] \in Client
    BY DEF Client
  <2> me.picks + 1 \in Nat
    BY DEF Client
  <2>2. \A he \in Client : [he EXCEPT !.picker = FALSE] \in Client
    BY DEF Client
  <2> QED
    BY <2>1, <2>2
<1>4. [me EXCEPT !.state = "Reattaching"] \in Client
  BY DEF Client
<1>5. [me EXCEPT !.state = "Opening", !.term = 0] \in Client
  BY DEF Client
<1>6. ASSUME NEW id \in Nat
      PROVE  [me EXCEPT !.term = id] \in Client
  BY DEF Client
<1>7. ASSUME NEW id \in Nat
      PROVE  Left(me, id) \in Client /\ Ended(me, id) \in Client
  BY DEF Client, Left, Ended
<1>8. [LostLink(me) EXCEPT !.lost = TRUE] \in Client
  BY DEF Client, LostLink
<1>9. AskAgain(me) \in Client
  BY DEF Client, AskAgain
<1> QED
  BY <1>1, <1>2, <1>3, <1>4, <1>5, <1>6, <1>7, <1>8, <1>9

LEMMA AcknowledgedTyped ==
  ASSUME NEW me \in Client, NEW ack \in Answer, ack.type = "Ack"
  PROVE  /\ Acknowledged(me, ack) \in Client
         /\ Acknowledged(me, ack).term \in {me.term, ack.id, 0}
         /\ Acknowledged(me, ack).posted = me.posted /\ Acknowledged(me, ack).link = me.link
         /\ Acknowledged(me, ack).dial = me.dial
<1>1. ack.id \in Nat
  BY DEF Answer
<1> QED
  BY <1>1 DEF Acknowledged, AskAgain, Client

LEMMA SamePosted ==
  ASSUME NEW me, NEW he, PostedOK(me), he.posted = me.posted, he.link = me.link
  PROVE  PostedOK(he)
BY DEF PostedOK

\* A command is taken off, or the link thread puts one there.
LEMMA CommandServed ==
  ASSUME NEW me \in Client, PostedOK(me), me.posted # <<>>
  PROVE  LET rest == [me EXCEPT !.posted = Tail(@)] IN
         /\ rest \in Client /\ PostedOK(rest)
         /\ Head(me.posted) \in {"ready", "lost"}
         /\ Head(me.posted) = "lost" => ~me.link /\ rest.posted = <<>>
         /\ Head(me.posted) = "ready" => (me.link <=> rest.posted = <<>>)
<1> DEFINE s == Tail(me.posted)
           rest == [me EXCEPT !.posted = s]
           n == Len(me.posted)
<1>1. me.posted \in Seq({"ready", "lost"}) /\ n \in Nat \ {0} /\ Head(me.posted) = me.posted[1]
  BY DEF Client
<1>2. /\ s \in Seq({"ready", "lost"}) /\ Len(s) = n - 1
      /\ \A i \in 1..Len(s) : s[i] = me.posted[i + 1]
  BY <1>1, HeadTailProperties, Zenon
<1>3. s = <<>> <=> n = 1
  <2>1. s = <<>> => Len(s) = 0
    BY EmptySeq, Zenon
  <2>2. s # <<>> => Len(s) \in Nat \ {0}
    BY <1>2, EmptySeq, Zenon
  <2> QED
    BY <1>1, <1>2, <2>1, <2>2
<1> HIDE DEF s
<1>4. rest \in Client
  BY <1>2 DEF Client
<1>5. rest.posted = s /\ rest.link = me.link
  BY DEF Client
<1> HIDE DEF n
<1>6. PostedOK(me) <=> /\ me.link => n <= 1
                       /\ \A i \in 1..n : me.posted[i] = IF ~me.link /\ i = n THEN "lost" ELSE "ready"
  BY DEF PostedOK, n
<1>7. PostedOK(rest)
  <2> HIDE DEF rest
  <2>1. me.link => Len(rest.posted) <= 1
    BY <1>1, <1>2, <1>5, <1>6
  <2>2. ASSUME NEW i \in 1..Len(s)
        PROVE  s[i] = IF ~me.link /\ i = Len(s) THEN "lost" ELSE "ready"
    <3>1. i + 1 \in 1..n /\ (i + 1 = n <=> i = Len(s))
      BY <1>1, <1>2
    <3> QED
      BY <1>2, <1>6, <3>1
  <2> QED
    BY <1>5, <2>1, <2>2 DEF PostedOK
<1>8. Head(me.posted) = IF ~me.link /\ n = 1 THEN "lost" ELSE "ready"
  BY <1>1, <1>6
<1>9. Head(me.posted) = "ready" => (me.link <=> s = <<>>)
  BY <1>1, <1>3, <1>6, <1>8
<1>10. rest = [me EXCEPT !.posted = Tail(@)]
  BY DEF rest, s
<1> QED
  BY <1>3, <1>4, <1>5, <1>7, <1>8, <1>9, <1>10

LEMMA CutTyped ==
  ASSUME NEW me \in Client, PostedOK(me), me.link
  PROVE  LET cut == [me EXCEPT !.link = FALSE, !.posted = Append(@, "lost")] IN
         cut \in Client /\ PostedOK(cut) /\ cut.posted # <<>>
<1> DEFINE s == Append(me.posted, "lost")
           cut == [me EXCEPT !.link = FALSE, !.posted = s]
           n == Len(me.posted)
<1>1. me.posted \in Seq({"ready", "lost"}) /\ n \in Nat /\ "lost" \in {"ready", "lost"}
  BY DEF Client
<1>2. /\ s \in Seq({"ready", "lost"}) /\ s # <<>> /\ Len(s) = n + 1 /\ s[n + 1] = "lost"
      /\ \A i \in 1..n : s[i] = me.posted[i]
  <2>1. s \in Seq({"ready", "lost"}) /\ Len(s) = n + 1
    BY <1>1
  <2>2. s[n + 1] = "lost" /\ \A i \in 1..n : s[i] = me.posted[i]
    BY <1>1
  <2>3. s # <<>>
    BY <1>1, <2>1
  <2> QED
    BY <2>1, <2>2, <2>3
<1> HIDE DEF s
<1>3. cut \in Client
  BY <1>2 DEF Client
<1>4. cut.link = FALSE /\ cut.posted = s
  BY DEF Client
<1> HIDE DEF n
<1>5. \A i \in 1..n : me.posted[i] = "ready"
  BY DEF PostedOK, n
<1>6. PostedOK(cut)
  BY <1>1, <1>2, <1>4, <1>5 DEF PostedOK
<1>7. cut = [me EXCEPT !.link = FALSE, !.posted = Append(@, "lost")]
  BY DEF cut, s
<1> QED
  BY <1>2, <1>3, <1>4, <1>6, <1>7

\* A viewer that changes without sending anything.
LEMMA QuietStepTyped ==
  ASSUME Typed, NEW v \in Viewers, NEW me \in Client, me.term < nextId,
         me.dial <= MaxDials[v], PostedOK(me), viewer' = [viewer EXCEPT ![v] = me],
         UNCHANGED nextId
  PROVE  ViewersTyped'
<1>1. viewer' \in [Viewers -> Client]
  BY DEF Typed, ViewersTyped
<1>2. ASSUME NEW w \in Viewers
      PROVE  /\ viewer'[w].term < nextId /\ viewer'[w].dial <= MaxDials[w]
             /\ PostedOK(viewer'[w])
  <2>1. CASE w = v
    BY <2>1 DEF Typed, ViewersTyped
  <2>2. CASE w # v
    <3>1. viewer'[w] = viewer[w]
      BY <2>2 DEF Typed, ViewersTyped
    <3> QED
      BY <3>1 DEF Typed, ViewersTyped
  <2> QED
    BY <2>1, <2>2
<1> QED
  BY <1>1, <1>2 DEF ViewersTyped, PostedOK

LEMMA ReattachTyped ==
  ASSUME Typed, NEW v \in Viewers, NEW me \in Client, me.term < nextId,
         me.dial = viewer[v].dial, PostedOK(me),
         Reattach(v, me), UNCHANGED <<host, up, toViewer>>
  PROVE  Typed'
<1> DEFINE asks == [me EXCEPT !.state = "Reattaching"]
<1>1. asks \in Client /\ asks.term = me.term /\ asks.dial = me.dial /\ PostedOK(asks)
  <2>1. asks \in Client
    BY DEF Client
  <2>2. /\ asks.term = me.term /\ asks.dial = me.dial
        /\ asks.posted = me.posted /\ asks.link = me.link
    BY DEF Client
  <2> QED
    BY <2>1, <2>2 DEF PostedOK
<1>2. <<Open(me.term)>> \in Seq(Message)
  BY MessagesTyped DEF Client
<1>3. Emit(v, asks, <<Open(me.term)>>)
  BY DEF Reattach
<1> HIDE DEF asks
<1> QED
  BY <1>1, <1>2, <1>3, EmitTyped

LEMMA OpenFreshTyped ==
  ASSUME Typed, nextId \in Nat \ {0}, NEW v \in Viewers, NEW me \in Client,
         me.dial = viewer[v].dial, PostedOK(me),
         OpenFresh(v, me), UNCHANGED <<host, up, toViewer>>
  PROVE  Typed'
<1> DEFINE asks == [me EXCEPT !.state = "Opening", !.term = 0]
<1>1. asks \in Client /\ asks.term = 0 /\ asks.dial = me.dial /\ PostedOK(asks)
  <2>1. asks \in Client
    BY DEF Client
  <2>2. /\ asks.term = 0 /\ asks.dial = me.dial
        /\ asks.posted = me.posted /\ asks.link = me.link
    BY DEF Client
  <2> QED
    BY <2>1, <2>2 DEF PostedOK
<1>2. <<Open(0)>> \in Seq(Message)
  BY MessagesTyped
<1>3. Emit(v, asks, <<Open(0)>>)
  BY DEF OpenFresh
<1> HIDE DEF asks
<1>4. asks.term < nextId /\ asks.dial = viewer[v].dial
  BY <1>1
<1> QED
  BY <1>1, <1>2, <1>3, <1>4, EmitTyped

\* Steps of a viewer's thread.
LEMMA RunCommandTyped ==
  ASSUME IInv, Typed, NEW v \in Viewers, RunCommand(v)
  PROVE  Typed'
<1> DEFINE me == [viewer[v] EXCEPT !.posted = Tail(@)]
<1>1. viewer[v] \in Client /\ PostedOK(viewer[v]) /\ viewer[v].posted # <<>>
  BY DEF Typed, ViewersTyped, RunCommand
<1>2. me \in Client /\ PostedOK(me)
  BY <1>1, CommandServed
<1>3. me.term = viewer[v].term /\ me.dial = viewer[v].dial
  BY <1>1 DEF Client
<1>4. UNCHANGED <<host, up, toViewer>>
  BY DEF RunCommand
<1>5. LinkReady(v, me) \/ /\ viewer' = [viewer EXCEPT ![v] = [LostLink(me) EXCEPT !.lost = TRUE]]
                          /\ UNCHANGED toHost
  BY DEF RunCommand
<1> HIDE DEF me
<1>6. me.term < nextId /\ me.dial <= MaxDials[v]
  BY <1>3 DEF Typed, ViewersTyped
<1>7. CASE Reattach(v, me)
  BY <1>2, <1>3, <1>4, <1>6, <1>7, ReattachTyped
<1>8. CASE OpenFresh(v, me)
  BY <1>2, <1>3, <1>4, <1>8, OpenFreshTyped DEF IInv, ShellsInv
<1>9. CASE Emit(v, [me EXCEPT !.picker = @ \/ me.state # "Closed"], <<>>)
  <2> DEFINE b == me.picker \/ me.state # "Closed"
             he == [me EXCEPT !.picker = b]
  <2>1. b \in BOOLEAN
    OBVIOUS
  <2> HIDE DEF b
  <2>2. he \in Client
    BY <1>2, <2>1 DEF Client
  <2>3. /\ he.term = me.term /\ he.dial = me.dial
        /\ he.posted = me.posted /\ he.link = me.link
    BY <1>2 DEF Client
  <2>4. PostedOK(he)
    BY <1>2, <2>3 DEF PostedOK
  <2>5. Emit(v, he, <<>>)
    BY <1>9, <1>2 DEF b, Client
  <2>6. <<>> \in Seq(Message)
    BY EmptySeq, Zenon
  <2> HIDE DEF he
  <2> QED
    BY <1>3, <1>4, <1>6, <2>2, <2>3, <2>4, <2>5, <2>6, EmitTyped
<1>10. CASE /\ viewer' = [viewer EXCEPT ![v] = [LostLink(me) EXCEPT !.lost = TRUE]]
            /\ UNCHANGED toHost
  <2> DEFINE he == [LostLink(me) EXCEPT !.lost = TRUE]
  <2>1. he \in Client
    BY <1>2, ClientsStayClients
  <2>2. /\ he.term = me.term /\ he.dial = me.dial
        /\ he.posted = me.posted /\ he.link = me.link
    BY <1>2 DEF Client, LostLink
  <2>3. PostedOK(he)
    BY <1>2, <2>2 DEF PostedOK
  <2>4. viewer' = [viewer EXCEPT ![v] = he]
    BY <1>10
  <2> HIDE DEF he
  <2>5. ViewersTyped'
    BY <1>4, <1>6, <2>1, <2>2, <2>3, <2>4, QuietStepTyped DEF host
  <2> QED
    BY <1>4, <1>10, <2>5 DEF Typed, HostTyped, MailTyped, host, Said, Ids
<1> QED
  BY <1>5, <1>7, <1>8, <1>9, <1>10 DEF LinkReady

LEMMA ClientHandlesTyped ==
  ASSUME IInv, Typed, NEW v \in Viewers, ClientHandlesMessage(v)
  PROVE  Typed'
<1> DEFINE c == Conn(v)
           m == Head(toViewer[c])
           he == IF m.type = "Ack" THEN Acknowledged(viewer[v], m) ELSE Ended(viewer[v], m.id)
<1>1. c \in Conns /\ toViewer[c] # <<>>
  BY ConnTyped DEF ClientHandlesMessage
<1>2. toViewer[c] \in Seq(Said)
  BY <1>1 DEF Typed, MailTyped
<1>3. m \in Said /\ Tail(toViewer[c]) \in Seq(Said)
  BY <1>1, <1>2, HeadTailProperties, Zenon
<1>4. viewer' = [viewer EXCEPT ![v] = he]
  BY DEF ClientHandlesMessage
<1>5. /\ toViewer' = [toViewer EXCEPT ![c] = Tail(@)]
      /\ UNCHANGED <<host, up, toHost>>
  BY DEF ClientHandlesMessage
<1> HIDE DEF c, m
<1>6. m \in Answer /\ m.id < nextId /\ m.id \in Nat
  BY <1>3 DEF Said, Answer
<1>7. viewer[v] \in Client /\ viewer[v].term < nextId /\ PostedOK(viewer[v])
  BY DEF Typed, ViewersTyped
<1>8. /\ he \in Client /\ he.term \in {viewer[v].term, m.id, 0}
      /\ he.posted = viewer[v].posted /\ he.link = viewer[v].link /\ he.dial = viewer[v].dial
  <2>1. CASE m.type = "Ack"
    BY <1>6, <1>7, <2>1, AcknowledgedTyped
  <2>2. CASE m.type # "Ack"
    <3>1. Ended(viewer[v], m.id) \in Client
      BY <1>6, <1>7, ClientsStayClients
    <3>2. LET h == Ended(viewer[v], m.id) IN
          /\ h.term \in {viewer[v].term, 0} /\ h.posted = viewer[v].posted
          /\ h.link = viewer[v].link /\ h.dial = viewer[v].dial
      BY <1>7 DEF Ended, Client
    <3> QED
      BY <2>2, <3>1, <3>2
  <2> QED
    BY <2>1, <2>2
<1> HIDE DEF he
<1>9. he.term < nextId
  BY <1>6, <1>7, <1>8 DEF IInv, ShellsInv
<1>10. PostedOK(he) /\ he.dial <= MaxDials[v]
  BY <1>7, <1>8 DEF PostedOK, Typed, ViewersTyped
<1>11. ViewersTyped'
  BY <1>4, <1>5, <1>8, <1>9, <1>10, QuietStepTyped DEF host
<1>12. toViewer' \in [Conns -> Seq(Said)]
  BY <1>3, <1>5 DEF Typed, MailTyped
<1> QED
  BY <1>5, <1>11, <1>12 DEF Typed, HostTyped, MailTyped, host, Said, Ids

LEMMA RetryTyped ==
  ASSUME IInv, Typed, NEW v \in Viewers, RetryResume(v)
  PROVE  Typed'
<1> DEFINE me == [viewer[v] EXCEPT !.retry = FALSE]
<1>1. viewer[v] \in Client /\ PostedOK(viewer[v])
  BY DEF Typed, ViewersTyped
<1>2. me \in Client
  BY <1>1 DEF Client
<1>3. /\ me.term = viewer[v].term /\ me.dial = viewer[v].dial
      /\ me.posted = viewer[v].posted /\ me.link = viewer[v].link
  BY <1>1 DEF Client
<1>4. UNCHANGED <<host, up, toViewer>>
  BY DEF RetryResume
<1>5. Reattach(v, me) \/ /\ viewer' = [viewer EXCEPT ![v] = [me EXCEPT !.failed = me.lost]]
                         /\ UNCHANGED toHost
  BY DEF RetryResume
<1> HIDE DEF me
<1>6. me.term < nextId /\ me.dial <= MaxDials[v] /\ PostedOK(me)
  BY <1>1, <1>3 DEF Typed, ViewersTyped, PostedOK
<1>7. CASE Reattach(v, me)
  BY <1>2, <1>3, <1>4, <1>6, <1>7, ReattachTyped
<1>8. CASE /\ viewer' = [viewer EXCEPT ![v] = [me EXCEPT !.failed = me.lost]]
           /\ UNCHANGED toHost
  <2> DEFINE he == [me EXCEPT !.failed = me.lost]
  <2>1. he \in Client
    BY <1>2 DEF Client
  <2>2. /\ he.term = me.term /\ he.dial = me.dial
        /\ he.posted = me.posted /\ he.link = me.link
    BY <1>2 DEF Client
  <2>3. PostedOK(he)
    BY <1>6, <2>2 DEF PostedOK
  <2>4. viewer' = [viewer EXCEPT ![v] = he]
    BY <1>8
  <2> HIDE DEF he
  <2>5. ViewersTyped'
    BY <1>4, <1>6, <2>1, <2>2, <2>3, <2>4, QuietStepTyped DEF host
  <2> QED
    BY <1>4, <1>8, <2>5 DEF Typed, HostTyped, MailTyped, host, Said, Ids
<1> QED
  BY <1>5, <1>7, <1>8

\* Steps of a viewer's user.
LEMMA PickedTyped ==
  ASSUME Typed, NEW v \in Viewers
  PROVE  /\ Picked(v) \in Client /\ PostedOK(Picked(v))
         /\ Picked(v).term = viewer[v].term /\ Picked(v).dial = viewer[v].dial
         /\ Picked(v).link = viewer[v].link /\ Picked(v).outbox = viewer[v].outbox
         /\ Picked(v).state = viewer[v].state /\ Picked(v).posted = viewer[v].posted
         /\ Picked(v).lost = viewer[v].lost /\ Picked(v).retry = viewer[v].retry
         /\ Picked(v).picks = viewer[v].picks + 1 /\ Picked(v).picker = FALSE
<1>1. viewer[v] \in Client /\ PostedOK(viewer[v])
  BY DEF Typed, ViewersTyped
<1> DEFINE n == viewer[v].picks + 1
<1>2. n \in Nat
  BY <1>1 DEF Client
<1>3. Picked(v) = [viewer[v] EXCEPT !.picks = n, !.picker = FALSE]
  BY DEF Picked
<1> HIDE DEF n
<1>4. [viewer[v] EXCEPT !.picks = n] \in Client
  BY <1>1, <1>2 DEF Client
<1>5. Picked(v) \in Client
  <2>1. \A he \in Client : [he EXCEPT !.picker = FALSE] \in Client
    BY DEF Client
  <2> QED
    BY <1>3, <1>4, <2>1
<1>6. /\ Picked(v).term = viewer[v].term /\ Picked(v).dial = viewer[v].dial
      /\ Picked(v).link = viewer[v].link /\ Picked(v).outbox = viewer[v].outbox
      /\ Picked(v).state = viewer[v].state /\ Picked(v).posted = viewer[v].posted
  BY <1>1, <1>3 DEF Client
<1>7. /\ Picked(v).lost = viewer[v].lost /\ Picked(v).retry = viewer[v].retry
      /\ Picked(v).picks = n /\ Picked(v).picker = FALSE
  BY <1>1, <1>3 DEF Client
<1> QED
  BY <1>1, <1>5, <1>6, <1>7 DEF n, PostedOK

LEMMA PicksTyped ==
  ASSUME IInv, Typed, NEW v \in Viewers, User(v) \/ Flush(v)
  PROVE  Typed'
<1>1. /\ viewer[v] \in Client /\ PostedOK(viewer[v]) /\ viewer[v].term < nextId
      /\ <<>> \in Seq(Message)
  BY EmptySeq DEF Typed, ViewersTyped
<1>2. /\ Picked(v).term < nextId /\ Picked(v).dial = viewer[v].dial
      /\ PostedOK(Picked(v))
  BY <1>1, PickedTyped
<1>3. CASE Flush(v)
  BY <1>1, <1>3, EmitTyped DEF Flush
<1>4. CASE OpenNew(v)
  BY <1>4, PickedTyped, OpenFreshTyped DEF OpenNew, IInv, ShellsInv
<1>5. ASSUME NEW id \in Ids, ResumeSession(v, id)
      PROVE  Typed'
  <2> DEFINE me == [Picked(v) EXCEPT !.term = id]
  <2>1. id \in Nat /\ id < nextId
    BY DEF Ids, IInv, ShellsInv
  <2>2. me \in Client
    BY <2>1, PickedTyped DEF Client
  <2>3. /\ me.term = id /\ me.dial = Picked(v).dial
        /\ me.posted = Picked(v).posted /\ me.link = Picked(v).link
    BY PickedTyped DEF Client
  <2>4. PostedOK(me)
    BY <1>2, <2>3, SamePosted
  <2>5. Reattach(v, me) \/ Emit(v, Picked(v), <<>>)
    BY <1>5 DEF ResumeSession
  <2>6. UNCHANGED <<host, up, toViewer>>
    BY <1>5 DEF ResumeSession
  <2> HIDE DEF me
  <2>7. CASE Reattach(v, me)
    <3>1. me.term < nextId /\ me.dial = viewer[v].dial
      BY <2>1, <2>3, PickedTyped
    <3> QED
      BY <2>2, <2>4, <2>6, <2>7, <3>1, ReattachTyped
  <2>8. CASE Emit(v, Picked(v), <<>>)
    BY <1>1, <1>2, <2>6, <2>8, PickedTyped, EmitTyped
  <2> QED
    BY <2>5, <2>7, <2>8
<1>6. ASSUME NEW id \in Ids, CloseSession(v, id)
      PROVE  Typed'
  <2> DEFINE left == Left(Picked(v), id)
             me == [left EXCEPT !.picker = TRUE]
  <2>1. id \in Nat /\ nextId \in Nat \ {0}
    BY DEF Ids, IInv, ShellsInv
  <2>2. left \in Client
    BY <2>1, PickedTyped, ClientsStayClients
  <2>3. /\ left.term \in {0, Picked(v).term} /\ left.dial = Picked(v).dial
        /\ left.posted = Picked(v).posted /\ left.link = Picked(v).link
    BY PickedTyped DEF Left, Client
  <2>4. Emit(v, me, <<Close(id)>>) /\ UNCHANGED <<host, up, toViewer>>
    BY <1>6 DEF CloseSession
  <2> HIDE DEF left
  <2>5. me \in Client
    BY <2>2 DEF Client
  <2>6. /\ me.term = left.term /\ me.dial = left.dial
        /\ me.posted = left.posted /\ me.link = left.link
    BY <2>2 DEF Client
  <2> HIDE DEF me
  <2>7. PostedOK(me)
    BY <1>2, <2>3, <2>6, SamePosted
  <2>8. me.term < nextId /\ me.dial = viewer[v].dial
    BY <1>2, <2>1, <2>3, <2>6
  <2>9. <<Close(id)>> \in Seq(Message)
    BY <2>1, MessagesTyped
  <2> QED
    BY <2>4, <2>5, <2>7, <2>8, <2>9, EmitTyped
<1> QED
  BY <1>3, <1>4, <1>5, <1>6 DEF User

\* Connections come and go.
LEMMA NetworkTyped ==
  ASSUME IInv, Typed, Network
  PROVE  Typed'
<1>1. ASSUME NEW v \in Viewers, DialAndAdmit(v)
      PROVE  Typed'
  <2> DEFINE me == viewer[v]
             n == me.dial + 1
             he == [me EXCEPT !.link = TRUE, !.dial = n, !.posted = <<"ready">>]
  <2>1. me \in Client /\ me.term < nextId
    BY DEF Typed, ViewersTyped
  <2>2. n \in Nat /\ n <= MaxDials[v] /\ n \in 1..MaxDials[v]
    BY <1>1, <2>1, ConnShape DEF DialAndAdmit, Client
  <2>3. viewer' = [viewer EXCEPT ![v] = he]
    BY <1>1 DEF DialAndAdmit
  <2>4. up' = up \cup {<<v, n>>} /\ UNCHANGED <<host, toHost, toViewer>>
    BY <1>1 DEF DialAndAdmit
  <2> HIDE DEF n
  <2>5. <<"ready">> \in Seq({"ready", "lost"})
    OBVIOUS
  <2>6. he \in Client
    <3>1. \A s \in Seq({"ready", "lost"}) :
            [me EXCEPT !.link = TRUE, !.dial = n, !.posted = s] \in Client
      BY <2>1, <2>2 DEF Client
    <3> QED
      BY <2>5, <3>1
  <2>7. he.link = TRUE /\ he.dial = n /\ he.posted = <<"ready">> /\ he.term = me.term
    BY <2>1 DEF Client
  <2>8. PostedOK(he)
    BY <2>7 DEF PostedOK
  <2> HIDE DEF he
  <2>9. ViewersTyped'
    BY <2>1, <2>2, <2>3, <2>4, <2>6, <2>7, <2>8, QuietStepTyped DEF host
  <2>10. up' \subseteq Conns
    BY <2>2, <2>4, ConnShape DEF Typed, HostTyped
  <2> QED
    BY <2>4, <2>9, <2>10 DEF Typed, HostTyped, MailTyped, host, Said, Ids
<1>2. ASSUME NEW v \in Viewers, LinkLost(v)
      PROVE  Typed'
  <2> DEFINE me == viewer[v]
             he == [me EXCEPT !.link = FALSE, !.posted = Append(@, "lost")]
             c == Conn(v)
  <2>1. me \in Client /\ me.term < nextId /\ me.link /\ PostedOK(me) /\ me.dial <= MaxDials[v]
    BY <1>2 DEF Typed, ViewersTyped, LinkLost
  <2>2. viewer' = [viewer EXCEPT ![v] = he] /\ UNCHANGED <<host, up>>
    BY <1>2 DEF LinkLost
  <2>3. he \in Client /\ PostedOK(he)
    BY <2>1, CutTyped
  <2>4. he.term = me.term /\ he.dial = me.dial
    BY <2>1 DEF Client
  <2> HIDE DEF he
  <2>5. ViewersTyped'
    BY <2>1, <2>2, <2>3, <2>4, QuietStepTyped DEF host
  <2>6. PICK n \in 0..Len(toHost[c]), m \in 0..Len(toViewer[c]) :
          /\ toHost' = [toHost EXCEPT ![c] = SubSeq(@, 1, n)]
          /\ toViewer' = [toViewer EXCEPT ![c] = SubSeq(@, 1, m)]
    BY <1>2 DEF LinkLost
  <2>7. toHost' \in [Conns -> Seq(Message)]
    <3>1. c \in Conns => SubSeq(toHost[c], 1, n) \in Seq(Message)
      BY DEF Typed, MailTyped
    <3> QED
      BY <2>6, <3>1 DEF Typed, MailTyped
  <2>8. toViewer' \in [Conns -> Seq(Said)]
    <3>1. c \in Conns => SubSeq(toViewer[c], 1, m) \in Seq(Said)
      BY DEF Typed, MailTyped
    <3> QED
      BY <2>6, <3>1 DEF Typed, MailTyped
  <2> QED
    BY <2>2, <2>5, <2>7, <2>8 DEF Typed, HostTyped, MailTyped, host, Said, Ids
<1>3. ASSUME NEW c \in Conns, OnPeerGone(c)
      PROVE  Typed'
  <2>1. toHost' \in [Conns -> Seq(Message)]
    <3>1. <<>> \in Seq(Message)
      BY EmptySeq, Zenon
    <3> QED
      BY <1>3, <3>1 DEF OnPeerGone, Typed, MailTyped
  <2>2. UNCHANGED <<shells, nextId, sharing, kicks, toViewer, viewer>>
    BY <1>3 DEF OnPeerGone
  <2>3. gone' \subseteq Conns /\ up' \subseteq Conns
    BY <1>3 DEF OnPeerGone, Typed, HostTyped
  <2> QED
    BY <2>1, <2>2, <2>3 DEF Typed, HostTyped, MailTyped, ViewersTyped, Said, Ids
<1> QED
  BY <1>1, <1>2, <1>3 DEF Network

\* The messages x tell that each of the shells ids whose peer is c has come to an end.
TellsOf(ids, c, x) ==
  /\ x \in Seq(Answer)
  /\ \A i \in 1..Len(x) : \E id \in ids : shells[id].peer = c /\ x[i] = Exit(id)
  /\ \A id \in ids : shells[id].peer = c => \E i \in 1..Len(x) : x[i] = Exit(id)

LEMMA ExitsTell ==
  ASSUME IInv, NEW ids \in SUBSET DOMAIN shells, NEW c
  PROVE  TellsOf(ids, c, Exits(ids, c))
<1> DEFINE S == {id \in ids : shells[id].peer = c}
           n == Cardinality(S)
           told == SetToSeq(S)
           said == [i \in 1..n |-> Exit(told[i])]
<1>1. IsFiniteSet(S)
  <2>1. nextId \in Nat \ {0} /\ S \subseteq 1..(nextId - 1)
    BY DEF IInv, ShellsInv
  <2>2. IsFiniteSet(1..(nextId - 1))
    BY <2>1, FS_Interval
  <2> QED
    BY <2>1, <2>2, FS_Subset
<1>2. n \in Nat /\ ExistsBijection(1..n, S)
  BY <1>1, FS_CardinalityType, Zenon
<1>3. told \in Injection(1..n, S)
  <2>1. \E f \in [1..n -> S] : IsInjective(f)
    BY <1>2, Zenon DEF ExistsBijection, Bijection, Injection
  <2>2. told = CHOOSE f \in [1..n -> S] : IsInjective(f)
    BY DEF SetToSeq
  <2> HIDE DEF told, n
  <2>3. told \in [1..n -> S] /\ IsInjective(told)
    BY <2>1, <2>2, Zenon
  <2> QED
    BY <2>3 DEF Injection
<1>4. told \in Surjection(1..n, S)
  <2>1. IsFiniteSet(1..n) /\ Cardinality(1..n) = n
    BY <1>2, FS_Interval
  <2>2. Cardinality(1..n) = Cardinality(S) <=> told \in Surjection(1..n, S)
    BY <1>1, <1>3, FS_Injection, Zenon
  <2> QED
    BY <2>1, <2>2
<1>5. told \in [1..n -> S] /\ \A id \in S : \E i \in 1..n : told[i] = id
  BY <1>4 DEF Surjection
<1>6. Exits(ids, c) = said
  BY <1>5 DEF Exits
<1>7. \A id \in S : Exit(id) \in Answer
  BY MessagesTyped DEF IInv, ShellsInv
<1> HIDE DEF told, n
<1>8. said \in [1..n -> Answer] /\ \A i \in 1..n : said[i] = Exit(told[i])
  BY <1>5, <1>7
<1> HIDE DEF said
<1>9. said \in Seq(Answer) /\ Len(said) = n
  BY <1>2, <1>8
<1> QED
  BY <1>5, <1>6, <1>8, <1>9 DEF TellsOf

\* A message to a peer.
LEMMA TellTyped ==
  ASSUME Typed, NEW c, c \in Conns \cup {NoPeer}, NEW m \in Answer, NEW n \in Nat,
         m.id < n, nextId \in Nat, nextId <= n, Tell(c, m)
  PROVE  toViewer' \in [Conns -> Seq({a \in Answer : a.id < n})]
<1> DEFINE S == {a \in Answer : a.id < n}
<1>1. Said \subseteq S
  BY DEF Said, Answer
<1>2. m \in S
  OBVIOUS
<1> HIDE DEF S
<1>3. toViewer \in [Conns -> Seq(S)]
  <2>1. \A s \in Seq(Said) : s \in Seq(S)
    BY <1>1, SeqMonotonic, Zenon
  <2> QED
    BY <2>1 DEF Typed, MailTyped
<1>4. CASE c # NoPeer /\ Reaches(c)
  <2>1. Append(toViewer[c], m) \in Seq(S)
    BY <1>2, <1>3, <1>4
  <2>2. toViewer' = [toViewer EXCEPT ![c] = Append(toViewer[c], m)]
    BY <1>4 DEF Tell
  <2>3. toViewer' \in [Conns -> Seq(S)]
    BY <1>3, <2>1, <2>2
  <2> QED
    BY <2>3 DEF S
<1>5. CASE ~(c # NoPeer /\ Reaches(c))
  BY <1>3, <1>5 DEF Tell, S
<1> QED
  BY <1>4, <1>5

LEMMA HostMessagesTyped ==
  ASSUME IInv, Typed, IInv', NEW c \in Conns, HostHandlesMessage(c)
  PROVE  Typed'
<1> DEFINE m == Head(toHost[c])
<1>1. toHost[c] \in Seq(Message) /\ toHost[c] # <<>>
  BY DEF HostHandlesMessage, Typed, MailTyped
<1>2. m \in Message /\ Tail(toHost[c]) \in Seq(Message)
  BY <1>1, HeadTailProperties, Zenon
<1>3. HandleOpen(c, m.id) \/ HandleClose(c, m.id)
  BY DEF HostHandlesMessage
<1>4. /\ toHost' = [toHost EXCEPT ![c] = Tail(@)]
      /\ UNCHANGED <<sharing, gone, kicks, up, viewer>>
  BY DEF HostHandlesMessage
<1>5. m.id \in Nat
  BY <1>2 DEF Message
<1> HIDE DEF m
<1>6. /\ nextId \in Nat \ {0} /\ nextId' \in {nextId, nextId + 1}
  BY <1>3 DEF HandleOpen, HandleClose, IInv, ShellsInv
<1>7. toHost' \in [Conns -> Seq(Message)]
  BY <1>2, <1>4 DEF Typed, MailTyped
<1>8. toViewer' \in [Conns -> Seq(Said')]
  <2>1. ASSUME NEW reason \in {"Accepted", "NoSuchSession", "TooManySessions", "NotShared"},
               NEW id \in Nat, id < nextId', Tell(c, Ack(id, reason))
        PROVE  toViewer' \in [Conns -> Seq(Said')]
    <3>1. Ack(id, reason) \in Answer /\ Ack(id, reason).id = id
      BY MessagesTyped DEF Ack
    <3>2. nextId \in Nat /\ nextId <= nextId' /\ nextId' \in Nat
      BY <1>6
    <3> QED
      BY <2>1, <3>1, <3>2, TellTyped DEF Said
  <2>2. CASE HandleOpen(c, m.id)
    <3>1. 0 < nextId' /\ nextId < nextId + 1
      BY <1>6
    <3>2. Resumable(m.id) => m.id < nextId
      BY <1>5 DEF Resumable, IInv, ShellsInv
    <3>3. CASE Tell(c, Ack(0, "NotShared"))
      BY <2>1, <3>1, <3>3
    <3>4. CASE Tell(c, Ack(0, "NoSuchSession"))
      BY <2>1, <3>1, <3>4
    <3>5. CASE Tell(c, Ack(0, "TooManySessions"))
      BY <2>1, <3>1, <3>5
    <3>6. CASE Tell(c, Ack(m.id, "Accepted")) /\ Resumable(m.id) /\ UNCHANGED nextId
      BY <1>5, <2>1, <3>2, <3>6
    <3>7. CASE Tell(c, Ack(nextId, "Accepted")) /\ nextId' = nextId + 1
      BY <1>6, <2>1, <3>1, <3>7
    <3> QED
      BY <2>2, <3>3, <3>4, <3>5, <3>6, <3>7 DEF HandleOpen
  <2>3. CASE HandleClose(c, m.id)
    <3>1. UNCHANGED nextId
      BY <2>3 DEF HandleClose
    <3>2. CASE sharing /\ m.id \in DOMAIN shells /\ TellsOnClose(m.id, c)
      <4>1. Tell(shells[m.id].peer, Exit(m.id))
        BY <2>3, <3>2 DEF HandleClose
      <4>2. shells[m.id].peer \in Conns \cup {NoPeer} /\ m.id < nextId
        BY <1>5, <3>2 DEF IInv, ShellsInv, Shell
      <4>3. Exit(m.id) \in Answer /\ Exit(m.id).id = m.id
        BY <1>5, MessagesTyped DEF Exit
      <4> QED
        BY <1>6, <3>1, <4>1, <4>2, <4>3, TellTyped DEF Said
    <3>3. CASE ~(sharing /\ m.id \in DOMAIN shells /\ TellsOnClose(m.id, c))
      BY <2>3, <3>1, <3>3 DEF HandleClose, Typed, MailTyped, Said
    <3> QED
      BY <3>2, <3>3
  <2> QED
    BY <1>3, <2>2, <2>3
<1>9. ViewersTyped'
  <2>1. viewer \in [Viewers -> Client]
    BY DEF Typed, ViewersTyped
  <2>2. \A v \in Viewers : viewer[v].term \in Nat
    BY <2>1 DEF Client
  <2>3. nextId' \in Nat /\ nextId <= nextId'
    BY <1>6
  <2> QED
    BY <1>4, <1>6, <2>1, <2>2, <2>3 DEF Typed, ViewersTyped, PostedOK
<1>10. HostTyped'
  <2>1. \A i \in Ids : i \in Ids'
    <3>1. CASE nextId' = nextId
      BY <3>1 DEF Ids
    <3>2. CASE nextId' = nextId + 1
      BY <1>6, <3>2 DEF Ids
    <3> QED
      BY <1>6, <3>1, <3>2
  <2> QED
    BY <1>4, <2>1 DEF Typed, HostTyped
<1> QED
  BY <1>7, <1>8, <1>9, <1>10 DEF Typed, MailTyped, Said

LEMMA HostUserTyped ==
  ASSUME IInv, Typed, HostUser
  PROVE  Typed'
<1>1. UNCHANGED <<nextId, up, toHost, viewer>>
  BY DEF HostUser, Stop, KickSession, AttachLocal, CloseLocal
<1>2. toViewer' \in [Conns -> Seq(Said)]
  <2>1. ASSUME NEW id \in Ids, AttachLocal(id)
        PROVE  toViewer' \in [Conns -> Seq(Said)]
    <3>1. id \in DOMAIN shells /\ id \in Nat /\ id < nextId /\ nextId \in Nat
      BY <2>1 DEF AttachLocal, Ids, IInv, ShellsInv
    <3>2. shells[id].peer \in Conns \cup {NoPeer}
      BY <3>1 DEF IInv, ShellsInv, Shell
    <3>3. Exit(id) \in Answer /\ Exit(id).id = id
      BY <3>1, MessagesTyped DEF Exit
    <3>4. CASE Tell(shells[id].peer, Exit(id))
      <4>1. nextId <= nextId /\ Exit(id).id < nextId
        BY <3>1, <3>3
      <4>2. toViewer' \in [Conns -> Seq({a \in Answer : a.id < nextId})]
        BY <3>1, <3>2, <3>3, <3>4, <4>1, TellTyped, Zenon
      <4> QED
        BY <4>2 DEF Said
    <3>5. CASE UNCHANGED toViewer
      BY <3>5 DEF Typed, MailTyped
    <3> QED
      BY <2>1, <3>4, <3>5 DEF AttachLocal
  <2> QED
    BY <2>1 DEF HostUser, Stop, KickSession, CloseLocal, Typed, MailTyped
<1>3. HostTyped'
  BY <1>1 DEF HostUser, Stop, KickSession, AttachLocal, CloseLocal, Typed, HostTyped, Ids
<1> QED
  BY <1>1, <1>2, <1>3 DEF Typed, MailTyped, ViewersTyped, PostedOK, Said

LEMMA TurnTyped ==
  ASSUME IInv, Typed, NEW finished \in SUBSET DOMAIN shells, Turn(finished)
  PROVE  Typed'
<1> DEFINE kicked == kicks \cap DOMAIN shells
           over == finished \ kicked
<1>1. UNCHANGED <<nextId, sharing, up, toHost, viewer>> /\ gone' = {} /\ kicks' = {}
  BY DEF Turn
<1>2. toViewer' = [c \in Conns |->
        IF Reaches(c) THEN toViewer[c] \o Exits(kicked, c) \o Exits(over, c) ELSE toViewer[c]]
  BY DEF Turn
<1>3. kicked \in SUBSET DOMAIN shells /\ over \in SUBSET DOMAIN shells
  OBVIOUS
<1> HIDE DEF kicked, over
<1>4. ASSUME NEW ids \in SUBSET DOMAIN shells, NEW c
      PROVE  Exits(ids, c) \in Seq(Said)
  <2>1. PICK x : x = Exits(ids, c)
    OBVIOUS
  <2>2. x \in Seq(Answer) /\ \A i \in 1..Len(x) : \E id \in ids : x[i] = Exit(id)
    <3>1. TellsOf(ids, c, x)
      BY <2>1, ExitsTell
    <3> QED
      BY <3>1 DEF TellsOf
  <2>3. \A id \in ids : Exit(id) \in Said
    <3>1. \A id \in ids : id \in Nat /\ id < nextId
      BY DEF IInv, ShellsInv
    <3> QED
      BY <3>1, MessagesTyped DEF Said, Exit
  <2> QED
    BY <2>1, <2>2, <2>3
<1>5. ASSUME NEW c \in Conns
      PROVE  toViewer[c] \o Exits(kicked, c) \o Exits(over, c) \in Seq(Said)
  BY <1>3, <1>4 DEF Typed, MailTyped
<1>6. toViewer' \in [Conns -> Seq(Said)]
  BY <1>2, <1>5 DEF Typed, MailTyped
<1> QED
  BY <1>1, <1>6 DEF Typed, HostTyped, MailTyped, ViewersTyped, PostedOK, Said, Ids

LEMMA EveryStepTyped ==
  ASSUME IInv, Typed, [Next]_vars
  PROVE  Typed'
<1>1. CASE \E v \in Viewers : ViewerThread(v) \/ User(v)
  BY <1>1, RunCommandTyped, ClientHandlesTyped, RetryTyped, PicksTyped DEF ViewerThread
<1>2. CASE Network
  BY <1>2, NetworkTyped
<1>3. CASE \E c \in Conns : HostHandlesMessage(c)
  BY <1>3, EveryStep, HostMessagesTyped
<1>4. CASE \E finished \in SUBSET DOMAIN shells : Turn(finished)
  BY <1>4, TurnTyped
<1>5. CASE HostUser
  BY <1>5, HostUserTyped
<1>6. CASE UNCHANGED vars
  BY <1>6 DEF vars, host, Typed, HostTyped, MailTyped, ViewersTyped, PostedOK, Said, Ids
<1> QED
  BY <1>1, <1>2, <1>3, <1>4, <1>5, <1>6 DEF Next

LEMMA InitTyped == Init => Typed
<1> SUFFICES ASSUME Init PROVE Typed
  OBVIOUS
<1>1. \A S : <<>> \in Seq(S)
  BY EmptySeq, Zenon
<1>2. NewViewer \in Client
  BY <1>1 DEF NewViewer, Client
<1>3. /\ NewViewer.term = 0 /\ NewViewer.dial = 0
      /\ NewViewer.posted = <<>> /\ NewViewer.link = FALSE
  BY DEF NewViewer
<1>4. Len(<<>>) = 0
  BY EmptySeq, Zenon
<1>5. PostedOK(NewViewer)
  BY <1>3, <1>4 DEF PostedOK
<1>6. ViewersTyped
  BY <1>2, <1>3, <1>5, ConnShape DEF Init, ViewersTyped
<1>7. MailTyped
  BY <1>1 DEF Init, MailTyped
<1> QED
  BY <1>6, <1>7 DEF Init, Typed, HostTyped, Ids

LEMMA AlwaysTyped == Spec => [](IInv /\ Typed)
<1>1. Init => IInv /\ Typed
  BY InitTyped DEF Init, IInv, ShellsInv, ArrivesOnLive, LostIsNoticed
<1>2. IInv /\ Typed /\ [Next]_vars => (IInv /\ Typed)'
  BY EveryStep, EveryStepTyped
<1> QED
  BY <1>1, <1>2, PTL DEF Spec

\* Every variable keeps its type: only a live shell or a detached one has a peer, and no
\* window holds a shell whose number the host has not given out.
THEOREM TypeCorrect == Spec => []TypeOK
<1>1. IInv /\ Typed => TypeOK
  <2> SUFFICES ASSUME IInv, Typed PROVE TypeOK
    OBVIOUS
  <2>1. \A id \in DOMAIN shells :
          \/ shells[id].state \in {"Live", "Detached"} /\ shells[id].peer \in Conns
          \/ shells[id].state = "Local" /\ shells[id].peer = NoPeer
    BY DEF IInv, ShellsInv, Shell
  <2>2. \A c \in Conns : toHost[c] \in Seq(Message) /\ toViewer[c] \in Seq(Answer)
    <3>1. Said \subseteq Answer
      BY DEF Said
    <3>2. \A s \in Seq(Said) : s \in Seq(Answer)
      BY <3>1, SeqMonotonic, Zenon
    <3> QED
      BY <3>2 DEF Typed, MailTyped
  <2>3. ASSUME NEW v \in Viewers
        PROVE  /\ viewer[v].state \in {"Idle", "Opening", "Open", "Reattaching", "Refused", "Closed"}
               /\ viewer[v].term \in 0..(nextId - 1)
               /\ viewer[v].dial \in 0..MaxDials[v]
    <3>1. viewer[v] \in Client /\ viewer[v].term < nextId /\ viewer[v].dial <= MaxDials[v]
      BY DEF Typed, ViewersTyped
    <3>2. viewer[v].term \in Nat /\ viewer[v].dial \in Nat
      BY <3>1 DEF Client
    <3> QED
      BY <3>1, <3>2, ConnShape DEF Client, IInv, ShellsInv
  <2> QED
    BY <2>1, <2>2, <2>3 DEF TypeOK, IInv, ShellsInv, Ids, Typed, HostTyped
<1> QED
  BY <1>1, AlwaysTyped, PTL

-----------------------------------------------------------------------------
(* Windows and the shells behind them.                                     *)

\* A connection not dialled yet is used by nobody, and one that was lost stays lost.
NotDialled(c) == c[2] > viewer[c[1]].dial

NotYet ==
  \A c \in Conns : NotDialled(c) =>
    /\ c \notin up \cup gone /\ toHost[c] = <<>> /\ toViewer[c] = <<>>
    /\ \A id \in DOMAIN shells : shells[id].peer # c

GoneIsDown == gone \cap up = {}

\* A shell whose end was told is no client's again.
EndsAreFinal ==
  \A c \in Conns : \A i \in 1..Len(toViewer[c]) :
    toViewer[c][i].type = "Exit" =>
      \A id \in DOMAIN shells : id = toViewer[c][i].id => shells[id].state = "Local"

NetworkOK == NotYet /\ GoneIsDown /\ EndsAreFinal

Only(type, s) == \A i \in 1..Len(s) : s[i].type = type

NoShellOf(v) == \A id \in DOMAIN shells : shells[id].state # "Local" => shells[id].peer[1] # v

\* Viewer v asked for no shell yet; it may have closed some.
Untouched(v) ==
  /\ viewer[v].state = "Idle" /\ viewer[v].term = 0
  /\ Only("Close", viewer[v].outbox)
  /\ \A c \in Conns : c[1] = v => Only("Close", toHost[c]) /\ toViewer[c] = <<>>
  /\ NoShellOf(v)

NoCloses(v) ==
  /\ Only("Open", viewer[v].outbox)
  /\ \A c \in Conns : c[1] = v => Only("Open", toHost[c])

\* What a viewer has asked for with its first pick at most.
PicksOK(v) ==
  /\ viewer[v].dial = 0 => viewer[v] = NewViewer
  /\ ~DeferOpen => ~viewer[v].picker /\ viewer[v].picks = 0
  /\ viewer[v].picks = 0 => NoCloses(v) /\ (DeferOpen => Untouched(v))
  /\ viewer[v].picks = 1 => NoCloses(v) \/ Untouched(v)

Waits(me) == me.state \in {"Opening", "Reattaching"}

Granted(m) == m.type = "Ack" /\ m.reason = "Accepted"

Mine(id, c) == id \in DOMAIN shells /\ shells[id] = [state |-> "Live", peer |-> c]

\* On its first connection a viewer asks for a shell once.  The request is the last thing
\* on its way to the host,
Asked(v, c) ==
  /\ Waits(viewer[v]) /\ toViewer[c] = <<>> /\ NoShellOf(v)
  /\ toHost[c] # <<>>
  /\ \A i \in 1..Len(toHost[c]) :
       IF i < Len(toHost[c]) THEN toHost[c][i].type = "Close"
       ELSE toHost[c][i] = Open(viewer[v].term)
  /\ viewer[v].state = "Opening" <=> viewer[v].term = 0

\* its answer the first on the way back,
Answered(v, c) ==
  /\ Waits(viewer[v]) /\ toHost[c] = <<>> /\ toViewer[c] # <<>>
  /\ \A i \in 1..Len(toViewer[c]) : toViewer[c][i].type = IF i = 1 THEN "Ack" ELSE "Exit"
  /\ \A id \in DOMAIN shells :
       Mine(id, c) => Granted(toViewer[c][1]) /\ toViewer[c][1].id = id

\* and from then on the window shows the shell or there is none.
Settled(v, c) ==
  /\ ~Waits(viewer[v]) /\ toHost[c] = <<>>
  /\ Only("Exit", toViewer[c])
  /\ \A id \in DOMAIN shells : Mine(id, c) => viewer[v].state = "Open" /\ viewer[v].term = id

First(v) == viewer[v].dial = 1 /\ viewer[v].link /\ <<v, 1>> \in up

FirstOK(v) ==
  First(v) =>
  /\ ~viewer[v].lost /\ ~viewer[v].retry /\ viewer[v].outbox = <<>>
  /\ viewer[v].posted # <<>> => ~viewer[v].picker
  /\ viewer[v].picker \/ viewer[v].posted # <<>> => Untouched(v)
  /\ Untouched(v) \/ Asked(v, <<v, 1>>) \/ Answered(v, <<v, 1>>) \/ Settled(v, <<v, 1>>)

\* Once a lost link has been served, the window shows no shell and is told of none.
BetweenLinks(v) ==
  viewer[v].picks <= 1 /\ ~viewer[v].link /\ viewer[v].posted = <<>> =>
  /\ viewer[v].state # "Open"
  /\ Waits(viewer[v]) /\ viewer[v].dial > 0 =>
       \A i \in 1..Len(toViewer[Conn(v)]) : ~Granted(toViewer[Conn(v)][i])

\* The host holds the shell for c, or told c of its end behind the first from - 1 messages.
Held(id, c, from) ==
  Mine(id, c) \/ \E j \in from..Len(toViewer[c]) : toViewer[c][j] = Exit(id)

\* What the window shows, and what it is about to be given.
HeldAt(v, c) ==
  /\ \A i \in 1..Len(toViewer[c]) :
       Granted(toViewer[c][i]) => Held(toViewer[c][i].id, c, i + 1)
  /\ viewer[v].state = "Open" => Held(viewer[v].term, c, 1)

HeldOK(v) ==
  \A c \in Conns :
    c = Conn(v) /\ sharing /\ AskedOnce(v) /\ viewer[v].dial > 0 /\ Reaches(c) => HeldAt(v, c)

WindowOK(v) == PicksOK(v) /\ FirstOK(v) /\ BetweenLinks(v) /\ HeldOK(v)

\* Sequences of messages.
LEMMA OnlySome ==
  ASSUME NEW S, NEW s \in Seq(S), NEW type
  PROVE  /\ \A t \in Seq(S) : Only(type, s) /\ Only(type, t) => Only(type, s \o t)
         /\ s # <<>> /\ Only(type, s) => Only(type, Tail(s)) /\ Head(s).type = type
         /\ \A n \in 0..Len(s) : Only(type, s) => Only(type, SubSeq(s, 1, n))
         /\ Only(type, <<>>)
<1>1. ASSUME NEW t \in Seq(S), Only(type, s), Only(type, t)
      PROVE  Only(type, s \o t)
  <2>1. /\ Len(s \o t) = Len(s) + Len(t)
        /\ \A i \in 1..Len(s) + Len(t) :
             (s \o t)[i] = IF i <= Len(s) THEN s[i] ELSE t[i - Len(s)]
    BY ConcatProperties, Zenon
  <2>2. Len(s) \in Nat /\ Len(t) \in Nat
    BY LenProperties
  <2> QED
    BY <1>1, <2>1, <2>2 DEF Only
<1>2. ASSUME s # <<>>, Only(type, s)
      PROVE  Only(type, Tail(s)) /\ Head(s).type = type
  <2>1. Len(Tail(s)) = Len(s) - 1 /\ \A i \in 1..Len(Tail(s)) : Tail(s)[i] = s[i + 1]
    BY <1>2, HeadTailProperties, Zenon
  <2>2. Len(s) \in Nat \ {0}
    BY <1>2, EmptySeq, Zenon
  <2>3. Head(s) = s[1]
    OBVIOUS
  <2>4. \A i \in 1..Len(s) : s[i].type = type
    BY <1>2 DEF Only
  <2>5. \A i \in 1..Len(Tail(s)) : i + 1 \in 1..Len(s)
    BY <2>1, <2>2
  <2> QED
    BY <2>1, <2>2, <2>3, <2>4, <2>5 DEF Only
<1>3. ASSUME NEW n \in 0..Len(s), Only(type, s)
      PROVE  Only(type, SubSeq(s, 1, n))
  <2>1. Len(s) \in Nat /\ n \in Nat
    BY LenProperties
  <2>2. Len(SubSeq(s, 1, n)) = n /\ \A i \in 1..n : SubSeq(s, 1, n)[i] = s[i]
    BY <2>1
  <2> QED
    BY <1>3, <2>1, <2>2 DEF Only
<1>4. Only(type, <<>>)
  <2>1. Len(<<>>) = 0
    BY EmptySeq, Zenon
  <2> QED
    BY <2>1 DEF Only
<1> QED
  BY <1>1, <1>2, <1>3, <1>4

LEMMA OnlyOne ==
  ASSUME NEW S, NEW m \in S
  PROVE  <<m>> \in Seq(S) /\ Len(<<m>>) = 1 /\ <<m>>[1] = m /\ Only(m.type, <<m>>)
BY DEF Only

LEMMA OneMessage ==
  ASSUME NEW id \in Nat
  PROVE  /\ <<Open(id)>> \in Seq(Message) /\ Only("Open", <<Open(id)>>)
         /\ <<Close(id)>> \in Seq(Message) /\ Only("Close", <<Close(id)>>)
<1>1. /\ Open(id) \in Message /\ Open(id).type = "Open"
      /\ Close(id) \in Message /\ Close(id).type = "Close"
  BY MessagesTyped DEF Open, Close
<1>2. \A m \in Message : <<m>> \in Seq(Message) /\ Only(m.type, <<m>>)
  BY OnlyOne
<1> QED
  BY <1>1, <1>2

\* What is on its way to a peer is what was there, and at most one message more.
LEMMA TellAppends ==
  ASSUME Typed, NEW c, NEW m \in Answer, Tell(c, m), NEW d \in Conns
  PROVE  \/ /\ toViewer'[d] = toViewer[d]
            /\ ~(d = c /\ Reaches(d) /\ d # NoPeer)
         \/ /\ d = c /\ Reaches(d)
            /\ toViewer'[d] \in Seq(Answer)
            /\ Len(toViewer'[d]) = Len(toViewer[d]) + 1
            /\ toViewer'[d][Len(toViewer[d]) + 1] = m
            /\ \A i \in 1..Len(toViewer[d]) : toViewer'[d][i] = toViewer[d][i]
<1>1. toViewer \in [Conns -> Seq(Answer)]
  <2>1. Said \subseteq Answer
    BY DEF Said
  <2>2. \A s \in Seq(Said) : s \in Seq(Answer)
    BY <2>1, SeqMonotonic, Zenon
  <2> QED
    BY <2>2 DEF Typed, MailTyped
<1>2. CASE d = c /\ Reaches(d) /\ d # NoPeer
  <2>1. toViewer'[d] = Append(toViewer[d], m)
    BY <1>1, <1>2 DEF Tell
  <2>2. ASSUME NEW s \in Seq(Answer)
        PROVE  /\ Append(s, m) \in Seq(Answer) /\ Len(Append(s, m)) = Len(s) + 1
               /\ Append(s, m)[Len(s) + 1] = m
               /\ \A i \in 1..Len(s) : Append(s, m)[i] = s[i]
    OBVIOUS
  <2> QED
    BY <1>1, <1>2, <2>1, <2>2
<1>3. CASE ~(d = c /\ Reaches(d) /\ d # NoPeer)
  BY <1>1, <1>3 DEF Tell
<1> QED
  BY <1>2, <1>3

\* A viewer takes its messages in their order.
LEMMA TailShifts ==
  ASSUME NEW S, NEW s \in Seq(S), s # <<>>
  PROVE  /\ Tail(s) \in Seq(S) /\ Len(s) \in Nat \ {0} /\ Len(Tail(s)) = Len(s) - 1
         /\ Head(s) = s[1] /\ Head(s) \in S
         /\ \A i \in 1..Len(s) - 1 : Tail(s)[i] = s[i + 1]
         /\ Tail(s) = <<>> <=> Len(s) = 1
<1>1. Len(s) \in Nat \ {0}
  BY EmptySeq, LenProperties, Zenon
<1>2. /\ Tail(s) \in Seq(S) /\ Len(Tail(s)) = Len(s) - 1
      /\ \A i \in 1..Len(Tail(s)) : Tail(s)[i] = s[i + 1]
  BY HeadTailProperties, Zenon
<1>3. Head(s) = s[1] /\ Head(s) \in S
  BY <1>1
<1>4. Tail(s) = <<>> <=> Len(s) = 1
  <2>1. Tail(s) = <<>> <=> Len(Tail(s)) = 0
    BY <1>2, EmptySeq, Zenon
  <2> QED
    BY <1>1, <1>2, <2>1
<1> QED
  BY <1>1, <1>2, <1>3, <1>4

\* Everything the connections that were dialled keep to themselves.
LEMMA SameNetwork ==
  ASSUME NetworkOK, UNCHANGED <<shells, gone, toViewer>>, up' = up,
         \A v \in Viewers : viewer'[v].dial = viewer[v].dial,
         \A c \in Conns : NotDialled(c) => toHost'[c] = toHost[c]
  PROVE  NetworkOK'
<1>1. \A c \in Conns : NotDialled(c)' = NotDialled(c)
  BY ConnShape DEF NotDialled
<1> QED
  BY <1>1 DEF NetworkOK, NotYet, GoneIsDown, EndsAreFinal

\* The host adds to what is on its way to a viewer.
Longer(c) ==
  /\ toViewer'[c] \in Seq(Answer)
  /\ Len(toViewer[c]) <= Len(toViewer'[c])
  /\ \A i \in 1..Len(toViewer[c]) : toViewer'[c][i] = toViewer[c][i]
  /\ ~Reaches(c) => toViewer'[c] = toViewer[c]

Added(c) == (Len(toViewer[c]) + 1)..Len(toViewer'[c])

\* What a step of the host may do to the connections and to the shells.
HostStep ==
  /\ UNCHANGED <<up, viewer>> /\ gone' \subseteq gone
  /\ \A c \in Conns : toHost[c] = <<>> => toHost'[c] = <<>>
  /\ \A c \in Conns : Longer(c)
  /\ \A c \in Conns : \A i \in Added(c) : toViewer'[c][i].type = "Exit" =>
       \A id \in DOMAIN shells' : id = toViewer'[c][i].id => shells'[id].state = "Local"
  /\ \A id \in DOMAIN shells' :
       \/ id >= nextId
       \/ id \in DOMAIN shells /\ (shells[id].state = "Local" => shells'[id].state = "Local")
  /\ \A id \in DOMAIN shells' :
       \/ shells'[id].peer \in up \cup {NoPeer}
       \/ id \in DOMAIN shells /\ shells'[id].peer = shells[id].peer

LEMMA HostStepNetwork ==
  ASSUME IInv, Typed, NetworkOK, HostStep
  PROVE  NetworkOK'
<1>1. \A c \in Conns : NotDialled(c)' = NotDialled(c)
  BY DEF NotDialled, HostStep
<1>2. \A c \in Conns : NotDialled(c) => ~Reaches(c)
  BY DEF NetworkOK, NotYet, Reaches
<1>3. NotYet'
  <2>1. ASSUME NEW c \in Conns, NotDialled(c)
        PROVE  /\ c \notin up' \cup gone' /\ toHost'[c] = <<>> /\ toViewer'[c] = <<>>
               /\ \A id \in DOMAIN shells' : shells'[id].peer # c
    <3>1. /\ c \notin up \cup gone /\ toHost[c] = <<>> /\ toViewer[c] = <<>>
          /\ \A id \in DOMAIN shells : shells[id].peer # c
      BY <2>1 DEF NetworkOK, NotYet
    <3>2. c \notin up' \cup gone' /\ toHost'[c] = <<>>
      BY <3>1 DEF HostStep
    <3>3. toViewer'[c] = <<>>
      BY <1>2, <2>1, <3>1 DEF HostStep, Longer
    <3>4. \A id \in DOMAIN shells' : shells'[id].peer # c
      BY <3>1, NoPeerOK DEF HostStep, NoPeerOK
    <3> QED
      BY <3>2, <3>3, <3>4
  <2> QED
    BY <1>1, <2>1 DEF NotYet
<1>4. GoneIsDown'
  BY DEF NetworkOK, GoneIsDown, HostStep
<1>5. EndsAreFinal'
  <2>1. ASSUME NEW c \in Conns, NEW i \in 1..Len(toViewer'[c]), toViewer'[c][i].type = "Exit",
               NEW id \in DOMAIN shells', id = toViewer'[c][i].id
        PROVE  shells'[id].state = "Local"
    <3>1. toViewer[c] \in Seq(Said) /\ Longer(c)
      BY DEF Typed, MailTyped, HostStep
    <3>2. Len(toViewer[c]) \in Nat /\ Len(toViewer'[c]) \in Nat
      BY <3>1 DEF Longer
    <3>3. CASE i \in 1..Len(toViewer[c])
      <4>1. toViewer'[c][i] = toViewer[c][i] /\ toViewer[c][i] \in Said
        BY <3>1, <3>3 DEF Longer
      <4>2. id < nextId /\ id \in Nat /\ nextId \in Nat
        BY <2>1, <4>1 DEF Said, Answer, IInv, ShellsInv
      <4>3. id \in DOMAIN shells /\ (shells[id].state = "Local" => shells'[id].state = "Local")
        BY <4>2 DEF HostStep
      <4> QED
        BY <2>1, <3>3, <4>1, <4>3 DEF NetworkOK, EndsAreFinal
    <3>4. CASE i \in Added(c)
      BY <2>1, <3>4 DEF HostStep
    <3> QED
      BY <3>2, <3>3, <3>4 DEF Added
  <2> QED
    BY <2>1 DEF EndsAreFinal
<1> QED
  BY <1>3, <1>4, <1>5 DEF NetworkOK

\* A step of the host in which window w comes by no shell: it serves a close at most, and
\* whatever shell it takes from the window's connection it tells the window of.
Loses(w) ==
  /\ UNCHANGED <<up, viewer>> /\ (sharing' => sharing)
  /\ \A c \in Conns : c[1] = w =>
       /\ \/ toHost'[c] = toHost[c]
          \/ /\ toHost[c] # <<>> /\ Head(toHost[c]).type = "Close"
             /\ toHost'[c] = Tail(toHost[c])
       /\ Longer(c)
       /\ \A i \in Added(c) : \E id \in DOMAIN shells :
            Reaches(c) /\ shells[id].peer = c /\ toViewer'[c][i] = Exit(id)
       /\ sharing' /\ AskedOnce(w) /\ Reaches(c) =>
            \A id \in DOMAIN shells : shells[id] = [state |-> "Live", peer |-> c] =>
              \/ id \in DOMAIN shells' /\ shells'[id] = shells[id]
              \/ \E i \in Added(c) : toViewer'[c][i] = Exit(id)
  /\ \A id \in DOMAIN shells' : shells'[id].state # "Local" /\ shells'[id].peer[1] = w =>
       /\ id \in DOMAIN shells /\ shells[id].state # "Local"
       /\ shells[id].peer = shells'[id].peer
       /\ shells'[id].state = "Live" => shells[id] = shells'[id]

LEMMA ExitShape == \A id : Exit(id).type = "Exit" /\ Exit(id).id = id
BY DEF Exit

\* The window's mail after such a step.
LEMMA LosesMail ==
  ASSUME IInv, Typed, NEW w \in Viewers, Loses(w), NEW c \in Conns, c[1] = w
  PROVE  /\ toHost[c] \in Seq(Message) /\ toViewer[c] \in Seq(Answer)
         /\ \A type : Only(type, toHost[c]) => Only(type, toHost'[c])
         /\ toHost[c] = <<>> => toHost'[c] = <<>>
         /\ Only("Open", toHost[c]) => toHost'[c] = toHost[c]
         /\ Only("Exit", toViewer[c]) => Only("Exit", toViewer'[c])
         /\ NoShellOf(w) => toViewer'[c] = toViewer[c]
<1>1. toHost[c] \in Seq(Message)
  BY DEF Typed, MailTyped
<1>2. toViewer[c] \in Seq(Answer) /\ toViewer'[c] \in Seq(Answer) /\ Longer(c)
  <2>1. Said \subseteq Answer
    BY DEF Said
  <2>2. \A s \in Seq(Said) : s \in Seq(Answer)
    BY <2>1, SeqMonotonic, Zenon
  <2> QED
    BY <2>2 DEF Typed, MailTyped, Loses, Longer
<1>3. toHost'[c] = toHost[c] \/ /\ toHost[c] # <<>> /\ Head(toHost[c]).type = "Close"
                                /\ toHost'[c] = Tail(toHost[c])
  BY DEF Loses
<1>4. \A type : Only(type, toHost[c]) /\ toHost[c] # <<>> =>
        Only(type, Tail(toHost[c])) /\ Head(toHost[c]).type = type
  BY <1>1, OnlySome
<1>5. Only("Exit", toViewer[c]) => Only("Exit", toViewer'[c])
  <2>1. Len(toViewer[c]) \in Nat /\ Len(toViewer'[c]) \in Nat
    BY <1>2
  <2>2. \A i \in Added(c) : toViewer'[c][i].type = "Exit"
    BY ExitShape DEF Loses
  <2> QED
    BY <1>2, <2>1, <2>2 DEF Only, Longer, Added
<1>6. NoShellOf(w) => toViewer'[c] = toViewer[c]
  <2>1. ASSUME NoShellOf(w) PROVE Added(c) = {}
    <3>1. \A id \in DOMAIN shells : shells[id].peer # c
      BY <2>1, NoPeerOK DEF NoShellOf, IInv, ShellsInv, Shell, NoPeerOK
    <3> QED
      BY <3>1 DEF Loses
  <2>2. ASSUME NoShellOf(w) PROVE Len(toViewer'[c]) = Len(toViewer[c])
    <3>1. Added(c) = {}
      BY <2>1, <2>2
    <3>2. Len(toViewer[c]) \in Nat /\ Len(toViewer'[c]) \in Nat
      BY <1>2
    <3>3. \A m, n \in Nat : m <= n /\ (m + 1)..n = {} => n = m
      <4> SUFFICES ASSUME NEW m \in Nat, NEW n \in Nat, m < n PROVE n \in (m + 1)..n
        OBVIOUS
      <4> QED
        OBVIOUS
    <3> QED
      BY <1>2, <3>1, <3>2, <3>3 DEF Longer, Added
  <2>3. ASSUME NoShellOf(w) PROVE toViewer'[c] = toViewer[c]
    BY <1>2, <2>2, <2>3, SeqEqual DEF Longer
  <2> QED
    BY <2>3
<1> QED
  BY <1>1, <1>2, <1>3, <1>4, <1>5, <1>6

LEMMA LosesPicks ==
  ASSUME IInv, Typed, NEW w \in Viewers, Loses(w), PicksOK(w)
  PROVE  /\ PicksOK(w)'
         /\ Untouched(w) => Untouched(w)'
<1>1. viewer' = viewer
  BY DEF Loses
<1>2. NoCloses(w) => NoCloses(w)'
  BY <1>1, LosesMail DEF NoCloses
<1>3. ASSUME NoShellOf(w) PROVE NoShellOf(w)'
  BY <1>3 DEF Loses, NoShellOf
<1>4. ASSUME Untouched(w) PROVE Untouched(w)'
  <2>1. /\ viewer[w].state = "Idle" /\ viewer[w].term = 0
        /\ Only("Close", viewer[w].outbox) /\ NoShellOf(w)
        /\ \A c \in Conns : c[1] = w => Only("Close", toHost[c]) /\ toViewer[c] = <<>>
    BY <1>4 DEF Untouched
  <2>2. \A c \in Conns : c[1] = w => Only("Close", toHost'[c]) /\ toViewer'[c] = <<>>
    BY <2>1, LosesMail
  <2>3. NoShellOf(w)'
    BY <1>3, <2>1
  <2> QED
    BY <1>1, <2>1, <2>2, <2>3 DEF Untouched
<1> QED
  BY <1>1, <1>2, <1>4 DEF PicksOK

LEMMA LosesFirst ==
  ASSUME IInv, Typed, NEW w \in Viewers, Loses(w), PicksOK(w), FirstOK(w)
  PROVE  FirstOK(w)'
<1> DEFINE c == <<w, 1>>
<1>1. viewer' = viewer /\ up' = up
  BY DEF Loses
<1>2. First(w)' = First(w)
  BY <1>1 DEF First
<1> SUFFICES ASSUME First(w) PROVE FirstOK(w)'
  BY <1>2 DEF FirstOK
<1>3. c \in Conns /\ c[1] = w
  BY DEF First, Typed, HostTyped
<1> HIDE DEF c
<1>4. Untouched(w) => Untouched(w)'
  BY LosesPicks
<1>5. toHost[c] \in Seq(Message) /\ toViewer[c] \in Seq(Answer)
  BY <1>3, LosesMail
<1>6. ASSUME Asked(w, c) PROVE Asked(w, c)'
  <2>1. NoShellOf(w) => NoShellOf(w)'
    BY DEF Loses, NoShellOf
  <2>2. /\ Waits(viewer[w]) /\ toViewer[c] = <<>> /\ NoShellOf(w) /\ toHost[c] # <<>>
        /\ \A i \in 1..Len(toHost[c]) :
             IF i < Len(toHost[c]) THEN toHost[c][i].type = "Close"
             ELSE toHost[c][i] = Open(viewer[w].term)
        /\ viewer[w].state = "Opening" <=> viewer[w].term = 0
    BY <1>6 DEF Asked
  <2>3. toViewer'[c] = <<>>
    BY <1>3, <2>2, LosesMail
  <2>4. toHost'[c] # <<>>
        /\ \A i \in 1..Len(toHost'[c]) :
             IF i < Len(toHost'[c]) THEN toHost'[c][i].type = "Close"
             ELSE toHost'[c][i] = Open(viewer[w].term)
    <3>1. CASE toHost'[c] = toHost[c]
      BY <2>2, <3>1
    <3>2. CASE toHost'[c] = Tail(toHost[c]) /\ Head(toHost[c]).type = "Close"
      <4>1. /\ Tail(toHost[c]) \in Seq(Message) /\ Len(toHost[c]) \in Nat \ {0}
            /\ Len(Tail(toHost[c])) = Len(toHost[c]) - 1
            /\ Head(toHost[c]) = toHost[c][1]
            /\ \A i \in 1..Len(toHost[c]) - 1 : Tail(toHost[c])[i] = toHost[c][i + 1]
        BY <1>5, <2>2, TailShifts
      <4>2. Open(viewer[w].term).type = "Open"
        BY DEF Open
      <4>3. Len(toHost[c]) # 1
        BY <2>2, <3>2, <4>1, <4>2
      <4>4. Tail(toHost[c]) # <<>>
        BY <1>5, <2>2, <4>3, TailShifts
      <4> QED
        BY <2>2, <3>2, <4>1, <4>3, <4>4
    <3> QED
      BY <1>3, <3>1, <3>2 DEF Loses
  <2> QED
    BY <1>1, <2>1, <2>2, <2>3, <2>4 DEF Asked
<1>7. ASSUME NEW id \in DOMAIN shells', shells'[id] = [state |-> "Live", peer |-> c]
      PROVE  id \in DOMAIN shells /\ shells[id] = shells'[id]
  BY <1>3, <1>7 DEF Loses
<1>8. ASSUME Answered(w, c) PROVE Answered(w, c)'
  <2>1. /\ Waits(viewer[w]) /\ toHost[c] = <<>> /\ toViewer[c] # <<>>
        /\ \A i \in 1..Len(toViewer[c]) : toViewer[c][i].type = IF i = 1 THEN "Ack" ELSE "Exit"
        /\ \A id \in DOMAIN shells :
             Mine(id, c) => Granted(toViewer[c][1]) /\ toViewer[c][1].id = id
    BY <1>8 DEF Answered
  <2>2. toHost'[c] = <<>>
    BY <1>3, <2>1, LosesMail
  <2>3. Longer(c) /\ \A i \in Added(c) : toViewer'[c][i].type = "Exit"
    BY <1>3, ExitShape DEF Loses
  <2>4. Len(toViewer[c]) \in Nat \ {0} /\ Len(toViewer'[c]) \in Nat
    BY <1>5, <2>1, <2>3, EmptySeq DEF Longer
  <2>5. toViewer'[c] # <<>> /\ toViewer'[c][1] = toViewer[c][1]
    BY <2>3, <2>4, EmptySeq DEF Longer
  <2>6. \A i \in 1..Len(toViewer'[c]) : toViewer'[c][i].type = IF i = 1 THEN "Ack" ELSE "Exit"
    BY <2>1, <2>3, <2>4 DEF Longer, Added
  <2>7. \A id \in DOMAIN shells' :
          Mine(id, c)' => Granted(toViewer'[c][1]) /\ toViewer'[c][1].id = id
    BY <1>7, <2>1, <2>5 DEF Mine
  <2> QED
    BY <1>1, <2>1, <2>2, <2>5, <2>6, <2>7 DEF Answered, Granted
<1>9. ASSUME Settled(w, c) PROVE Settled(w, c)'
  <2>1. toHost'[c] = <<>> /\ Only("Exit", toViewer'[c])
    BY <1>3, <1>9, LosesMail DEF Settled
  <2> QED
    BY <1>1, <1>7, <1>9, <2>1 DEF Settled, Mine
<1> QED
  BY <1>1, <1>4, <1>6, <1>8, <1>9 DEF FirstOK, c

\* A shell held stays so, or its end is told.
LEMMA HeldKept ==
  ASSUME IInv, Typed, NEW w \in Viewers, Loses(w), NEW c \in Conns, c[1] = w,
         sharing', AskedOnce(w), Reaches(c),
         NEW id, NEW k \in Nat, 0 < k, k <= Len(toViewer[c]) + 1, Held(id, c, k)
  PROVE  Held(id, c, k)'
<1>1. Longer(c) /\ Len(toViewer[c]) \in Nat /\ Len(toViewer'[c]) \in Nat
  <2>1. Longer(c)
    BY DEF Loses
  <2>2. toViewer[c] \in Seq(Said)
    BY DEF Typed, MailTyped
  <2> QED
    BY <2>1, <2>2 DEF Longer
<1>2. CASE Mine(id, c)
  <2>1. id \in DOMAIN shells /\ shells[id] = [state |-> "Live", peer |-> c]
    BY <1>2 DEF Mine
  <2>2. CASE id \in DOMAIN shells' /\ shells'[id] = shells[id]
    BY <2>1, <2>2 DEF Held, Mine
  <2>3. CASE \E i \in Added(c) : toViewer'[c][i] = Exit(id)
    <3>1. PICK i \in Added(c) : toViewer'[c][i] = Exit(id)
      BY <2>3
    <3>2. i \in k..Len(toViewer'[c])
      BY <1>1, <3>1 DEF Added
    <3> QED
      BY <3>1, <3>2 DEF Held, Exit
  <2> QED
    BY <2>1, <2>2, <2>3 DEF Loses
<1>3. CASE \E j \in k..Len(toViewer[c]) : toViewer[c][j] = Exit(id)
  <2>1. PICK j \in k..Len(toViewer[c]) : toViewer[c][j] = Exit(id)
    BY <1>3
  <2>2. j \in k..Len(toViewer'[c]) /\ j \in 1..Len(toViewer[c])
    BY <1>1, <2>1 DEF Longer
  <2>3. toViewer'[c][j] = Exit(id)
    BY <1>1, <2>1, <2>2 DEF Longer
  <2> QED
    BY <2>2, <2>3 DEF Held, Exit
<1> QED
  BY <1>2, <1>3 DEF Held

LEMMA LosesHeld ==
  ASSUME IInv, Typed, NEW w \in Viewers, Loses(w), HeldOK(w)
  PROVE  HeldOK(w)'
<1>1. viewer' = viewer /\ up' = up /\ (sharing' => sharing)
  BY DEF Loses
<1> SUFFICES ASSUME NEW c \in Conns, c = Conn(w), sharing', AskedOnce(w),
                    viewer[w].dial > 0, Reaches(c)
             PROVE  HeldAt(w, c)'
  BY <1>1 DEF HeldOK, AskedOnce, Reaches, Conn
<1>3. c[1] = w
  BY DEF Conn
<1>4. HeldAt(w, c)
  BY <1>1 DEF HeldOK
<1>5. Longer(c) /\ Len(toViewer[c]) \in Nat /\ Len(toViewer'[c]) \in Nat
  <2>1. Longer(c)
    BY <1>3 DEF Loses
  <2>2. toViewer[c] \in Seq(Said)
    BY DEF Typed, MailTyped
  <2> QED
    BY <2>1, <2>2 DEF Longer
<1>6. ASSUME NEW i \in 1..Len(toViewer'[c]), Granted(toViewer'[c][i])
      PROVE  Held(toViewer[c][i].id, c, i + 1)'
  <2>1. i \in 1..Len(toViewer[c])
    <3>1. i \notin Added(c)
      BY <1>3, <1>6, ExitShape DEF Loses, Granted
    <3> QED
      BY <1>5, <3>1 DEF Added
  <2>2. toViewer'[c][i] = toViewer[c][i]
    BY <1>5, <2>1 DEF Longer
  <2>3. PICK id : id = toViewer[c][i].id
    OBVIOUS
  <2>4. Held(id, c, i + 1)
    BY <1>4, <1>6, <2>1, <2>2, <2>3 DEF HeldAt
  <2>5. i + 1 \in Nat /\ 0 < i + 1 /\ i + 1 <= Len(toViewer[c]) + 1
    BY <1>5, <2>1
  <2>6. Held(id, c, i + 1)'
    BY <1>3, <2>4, <2>5, HeldKept
  <2> QED
    BY <2>2, <2>3, <2>6 DEF Held, Mine, Exit
<1>7. ASSUME viewer[w].state = "Open" PROVE Held(viewer[w].term, c, 1)'
  <2>1. PICK id : id = viewer[w].term
    OBVIOUS
  <2>2. Held(id, c, 1)
    BY <1>4, <1>7, <2>1 DEF HeldAt
  <2>3. 0 < 1 /\ 1 <= Len(toViewer[c]) + 1
    BY <1>5
  <2>4. Held(id, c, 1)'
    BY <1>3, <2>2, <2>3, HeldKept
  <2> QED
    BY <1>1, <2>1, <2>4 DEF Held, Mine, Exit
<1> QED
  BY <1>1, <1>6, <1>7 DEF HeldAt, Granted

LEMMA Losing ==
  ASSUME IInv, Typed, NEW w \in Viewers, Loses(w), WindowOK(w)
  PROVE  WindowOK(w)'
<1>1. BetweenLinks(w)'
  <2>1. viewer' = viewer
    BY DEF Loses
  <2>2. ASSUME ~viewer[w].link, viewer[w].dial > 0
        PROVE  toViewer'[Conn(w)] = toViewer[Conn(w)]
    <3>1. Conn(w) \in Conns /\ Conn(w)[1] = w /\ ~Reaches(Conn(w))
      BY <2>2, ConnTyped DEF Conn, Reaches
    <3> QED
      BY <3>1 DEF Loses, Longer
  <2> QED
    BY <2>1, <2>2 DEF WindowOK, BetweenLinks, Conn, Granted, Waits
<1> QED
  BY <1>1, LosesPicks, LosesFirst, LosesHeld DEF WindowOK

LEMMA TellLonger ==
  ASSUME Typed, NEW c, NEW m \in Answer, Tell(c, m), NEW d \in Conns
  PROVE  /\ Longer(d)
         /\ \A i \in Added(d) : d = c /\ Reaches(d) /\ toViewer'[d][i] = m
         /\ d = c /\ Reaches(d) => \E i \in Added(d) : toViewer'[d][i] = m
         /\ Len(toViewer'[d]) <= Len(toViewer[d]) + 1
<1>1. toViewer[d] \in Seq(Answer) /\ Len(toViewer[d]) \in Nat /\ d # NoPeer
  <2>1. Said \subseteq Answer
    BY DEF Said
  <2>2. \A s \in Seq(Said) : s \in Seq(Answer)
    BY <2>1, SeqMonotonic, Zenon
  <2> QED
    BY <2>2, NoPeerOK DEF Typed, MailTyped, NoPeerOK
<1>2. CASE toViewer'[d] = toViewer[d] /\ ~(d = c /\ Reaches(d))
  BY <1>1, <1>2 DEF Longer, Added
<1>3. CASE /\ d = c /\ Reaches(d)
           /\ toViewer'[d] \in Seq(Answer)
           /\ Len(toViewer'[d]) = Len(toViewer[d]) + 1
           /\ toViewer'[d][Len(toViewer[d]) + 1] = m
           /\ \A i \in 1..Len(toViewer[d]) : toViewer'[d][i] = toViewer[d][i]
  BY <1>1, <1>3 DEF Longer, Added
<1> QED
  BY <1>1, <1>2, <1>3, TellAppends

LEMMA SilentLonger ==
  ASSUME Typed, UNCHANGED toViewer, NEW d \in Conns
  PROVE  Longer(d) /\ Added(d) = {}
<1>1. toViewer[d] \in Seq(Answer) /\ Len(toViewer[d]) \in Nat
  <2>1. Said \subseteq Answer
    BY DEF Said
  <2>2. \A s \in Seq(Said) : s \in Seq(Answer)
    BY <2>1, SeqMonotonic, Zenon
  <2> QED
    BY <2>2 DEF Typed, MailTyped
<1> QED
  BY <1>1 DEF Longer, Added

\* Whatever waits on a connection, the head of it is not in the way of the rest.
LEMMA ServedMail ==
  ASSUME Typed, NEW c \in Conns, toHost' = [toHost EXCEPT ![c] = Tail(@)], toHost[c] # <<>>
  PROVE  /\ \A d \in Conns : d # c => toHost'[d] = toHost[d]
         /\ toHost'[c] = Tail(toHost[c])
         /\ \A d \in Conns : toHost[d] = <<>> => toHost'[d] = <<>>
BY DEF Typed, MailTyped

\* A window that closes a shell over the connection it has holds none there.
LEMMA OwnClose ==
  ASSUME IInv, Typed, NEW w \in Viewers, NEW c \in Conns, c = Conn(w), WindowOK(w),
         AskedOnce(w), Reaches(c), toHost[c] # <<>>, Head(toHost[c]).type = "Close"
  PROVE  NoShellOf(w)
<1>1. toHost[c] \in Seq(Message) /\ c[1] = w /\ c[2] = viewer[w].dial
  BY DEF Typed, MailTyped, Conn
<1>2. ~NoCloses(w)
  <2>1. Len(toHost[c]) \in Nat \ {0} /\ Head(toHost[c]) = toHost[c][1]
    BY <1>1, TailShifts
  <2> QED
    BY <1>1, <2>1 DEF NoCloses, Only
<1>3. CASE viewer[w].picks <= 1
  <2>1. viewer[w].picks \in Nat
    BY DEF Typed, ViewersTyped, Client
  <2>2. viewer[w].picks \in {0, 1}
    BY <1>3, <2>1
  <2>3. Untouched(w)
    BY <1>2, <2>2 DEF WindowOK, PicksOK
  <2> QED
    BY <2>3 DEF Untouched
<1>4. CASE viewer[w].dial = 1
  <2>1. c = <<w, 1>> /\ First(w)
    BY <1>1, <1>4 DEF Conn, First, Reaches
  <2>2. Untouched(w) \/ Asked(w, c)
    BY <2>1 DEF WindowOK, FirstOK, Answered, Settled
  <2> QED
    BY <2>2 DEF Untouched, Asked
<1> QED
  BY <1>3, <1>4 DEF AskedOnce

\* A close, whoever sent it.
LEMMA CloseStep ==
  ASSUME IInv, Typed, \A w \in Viewers : WindowOK(w), NEW c \in Conns,
         toHost[c] # <<>>, Head(toHost[c]).type = "Close", HandleClose(c, Head(toHost[c]).id),
         toHost' = [toHost EXCEPT ![c] = Tail(@)],
         UNCHANGED <<sharing, gone, kicks, up, viewer>>
  PROVE  HostStep /\ \A w \in Viewers : Loses(w)
<1>1. PICK id : id = Head(toHost[c]).id
  OBVIOUS
<1>2. /\ shells' = IF sharing THEN Without({id}) ELSE shells
      /\ IF sharing /\ id \in DOMAIN shells /\ TellsOnClose(id, c)
         THEN Tell(shells[id].peer, Exit(id)) ELSE UNCHANGED toViewer
      /\ UNCHANGED nextId
  BY <1>1 DEF HandleClose
<1>3. /\ \A i \in DOMAIN shells' : i \in DOMAIN shells /\ shells'[i] = shells[i]
      /\ sharing => id \notin DOMAIN shells'
      /\ \A i \in DOMAIN shells : i # id \/ ~sharing => i \in DOMAIN shells'
  BY <1>2 DEF Without
<1>4. /\ \A d \in Conns : d # c => toHost'[d] = toHost[d]
      /\ toHost'[c] = Tail(toHost[c])
      /\ \A d \in Conns : toHost[d] = <<>> => toHost'[d] = <<>>
  BY ServedMail
<1>5. ASSUME NEW d \in Conns
      PROVE  /\ Longer(d)
             /\ \A i \in Added(d) : /\ id \in DOMAIN shells /\ shells[id].peer = d
                                    /\ sharing /\ Reaches(d) /\ toViewer'[d][i] = Exit(id)
             /\ /\ sharing /\ Reaches(d) /\ d # c
                /\ id \in DOMAIN shells /\ shells[id] = [state |-> "Live", peer |-> d]
                => \E i \in Added(d) : toViewer'[d][i] = Exit(id)
  <2>1. CASE sharing /\ id \in DOMAIN shells /\ TellsOnClose(id, c)
    <3>1. Tell(shells[id].peer, Exit(id)) /\ Exit(id) \in Answer
      BY <1>2, <2>1, MessagesTyped DEF IInv, ShellsInv
    <3> QED
      BY <2>1, <3>1, TellLonger
  <2>2. CASE ~(sharing /\ id \in DOMAIN shells /\ TellsOnClose(id, c))
    <3>1. UNCHANGED toViewer
      BY <1>2, <2>2
    <3>2. Longer(d) /\ Added(d) = {}
      BY <3>1, SilentLonger
    <3> QED
      BY <2>2, <3>2 DEF TellsOnClose
  <2> QED
    BY <2>1, <2>2
<1>6. HostStep
  <2>1. ASSUME NEW d \in Conns, NEW i \in Added(d)
        PROVE  toViewer'[d][i].id \notin DOMAIN shells'
    <3>1. sharing /\ toViewer'[d][i] = Exit(id)
      BY <1>5
    <3> QED
      BY <1>3, <3>1, ExitShape
  <2>2. \A d \in Conns : Longer(d)
    BY <1>5
  <2>3. \A d \in Conns : toHost[d] = <<>> => toHost'[d] = <<>>
    BY <1>4
  <2> QED
    BY <1>3, <2>1, <2>2, <2>3 DEF HostStep
<1>7. ASSUME NEW w \in Viewers PROVE Loses(w)
  <2>1. ASSUME NEW d \in Conns, d[1] = w, sharing', AskedOnce(w), Reaches(d),
               NEW i \in DOMAIN shells, shells[i] = [state |-> "Live", peer |-> d]
        PROVE  \/ i \in DOMAIN shells' /\ shells'[i] = shells[i]
               \/ \E k \in Added(d) : toViewer'[d][k] = Exit(i)
    <3>1. CASE i # id
      BY <1>3, <3>1
    <3>2. CASE i = id /\ d # c
      BY <1>5, <2>1, <3>2
    <3>3. CASE d = c
      <4>1. c = Conn(w)
        BY <2>1, <3>3 DEF Reaches
      <4>2. NoShellOf(w)
        BY <2>1, <3>3, <4>1, OwnClose
      <4> QED
        BY <2>1, <4>2 DEF NoShellOf
    <3> QED
      BY <3>1, <3>2, <3>3
  <2>2. \A i \in DOMAIN shells' : shells'[i].state # "Local" /\ shells'[i].peer[1] = w =>
          /\ i \in DOMAIN shells /\ shells[i].state # "Local"
          /\ shells[i].peer = shells'[i].peer
          /\ shells'[i].state = "Live" => shells[i] = shells'[i]
    BY <1>3
  <2> QED
    BY <1>4, <1>5, <2>1, <2>2 DEF Loses
<1> QED
  BY <1>6, <1>7

\* What an answer to an open has behind it: nothing, or a shell that was nobody's.
Opened(c, m) ==
  \/ UNCHANGED shells /\ ~Granted(m)
  \/ /\ Granted(m)
     /\ m.id >= nextId \/ (m.id \in DOMAIN shells /\ shells[m.id].state = "Detached")
     /\ m.id \in DOMAIN shells' /\ shells'[m.id] = [state |-> "Live", peer |-> c]
     /\ DOMAIN shells \subseteq DOMAIN shells'
     /\ \A i \in DOMAIN shells' : i # m.id => i \in DOMAIN shells /\ shells'[i] = shells[i]

LEMMA OpenShape ==
  ASSUME IInv, Typed, NEW c \in Conns, NEW id \in Nat, HandleOpen(c, id)
  PROVE  \E m \in Answer : m.type = "Ack" /\ Tell(c, m) /\ Opened(c, m)
<1>1. /\ \A i, r : /\ Ack(i, r).type = "Ack" /\ Ack(i, r).id = i
                   /\ Granted(Ack(i, r)) <=> r = "Accepted"
      /\ \A i \in Nat : \A r \in {"Accepted", "NoSuchSession", "TooManySessions", "NotShared"} :
           Ack(i, r) \in Answer
  BY MessagesTyped DEF Ack, Granted
<1>2. ASSUME NEW r \in {"NoSuchSession", "TooManySessions", "NotShared"},
             Tell(c, Ack(0, r)), UNCHANGED shells
      PROVE  \E m \in Answer : m.type = "Ack" /\ Tell(c, m) /\ Opened(c, m)
  BY <1>1, <1>2 DEF Opened
<1>3. CASE /\ Resumable(id) /\ shells' = [shells EXCEPT ![id] = Attached(@, c)]
           /\ Tell(c, Ack(id, "Accepted"))
  <2>1. shells' = [shells EXCEPT ![id] = [state |-> "Live", peer |-> c]]
    BY <1>3 DEF Attached
  <2>2. id \in DOMAIN shells /\ shells[id].state = "Detached"
    BY <1>3 DEF Resumable
  <2>3. Opened(c, Ack(id, "Accepted"))
    BY <1>1, <2>1, <2>2 DEF Opened
  <2> QED
    BY <1>1, <1>3, <2>3
<1>4. CASE /\ shells' = [i \in DOMAIN shells \cup {nextId} |->
                IF i = nextId THEN [state |-> "Live", peer |-> c] ELSE shells[i]]
           /\ Tell(c, Ack(nextId, "Accepted"))
  <2>1. nextId \in Nat /\ nextId >= nextId /\ nextId \notin DOMAIN shells
    BY DEF IInv, ShellsInv
  <2>2. Opened(c, Ack(nextId, "Accepted"))
    BY <1>1, <1>4, <2>1 DEF Opened
  <2> QED
    BY <1>1, <1>4, <2>1, <2>2
<1> QED
  BY <1>2, <1>3, <1>4 DEF HandleOpen

\* Nobody's shell that is live is given to another.
LEMMA LiveStays ==
  ASSUME IInv, NEW c, NEW m \in Answer, Opened(c, m),
         NEW id \in DOMAIN shells, shells[id].state = "Live"
  PROVE  id \in DOMAIN shells' /\ shells'[id] = shells[id]
<1>1. id \in Nat /\ nextId \in Nat /\ id < nextId
  BY DEF IInv, ShellsInv
<1>2. Granted(m) /\ (m.id >= nextId \/ shells[m.id].state = "Detached") => id # m.id
  BY <1>1
<1> QED
  BY <1>2 DEF Opened

LEMMA OpenStep ==
  ASSUME IInv, Typed, NEW c \in Conns, NEW m \in Answer, m.type = "Ack",
         Tell(c, m), Opened(c, m),
         toHost[c] # <<>>, toHost' = [toHost EXCEPT ![c] = Tail(@)],
         UNCHANGED <<sharing, gone, kicks, up, viewer>>
  PROVE  HostStep /\ \A w \in Viewers : w # c[1] => Loses(w)
<1>1. c \in up
  BY DEF IInv, ArrivesOnLive
<1>2. ASSUME NEW d \in Conns
      PROVE  Longer(d) /\ \A i \in Added(d) : d = c /\ toViewer'[d][i].type = "Ack"
  BY TellLonger
<1>3. /\ \A d \in Conns : d # c => toHost'[d] = toHost[d]
      /\ \A d \in Conns : toHost[d] = <<>> => toHost'[d] = <<>>
  BY ServedMail
<1>4. \A i \in DOMAIN shells' :
        \/ i \in DOMAIN shells /\ shells'[i] = shells[i]
        \/ /\ i >= nextId \/ (i \in DOMAIN shells /\ shells[i].state = "Detached")
           /\ shells'[i] = [state |-> "Live", peer |-> c]
  BY DEF Opened
<1>5. HostStep
  BY <1>1, <1>2, <1>3, <1>4 DEF HostStep
<1>6. ASSUME NEW w \in Viewers, w # c[1] PROVE Loses(w)
  <2>1. \A d \in Conns : d[1] = w => toHost'[d] = toHost[d] /\ Longer(d) /\ Added(d) = {}
    BY <1>2, <1>3, <1>6
  <2>2. \A i \in DOMAIN shells' : shells'[i].state # "Local" /\ shells'[i].peer[1] = w =>
          i \in DOMAIN shells /\ shells'[i] = shells[i]
    BY <1>4, <1>6
  <2>3. \A d \in Conns : d[1] = w =>
          \A i \in DOMAIN shells : shells[i] = [state |-> "Live", peer |-> d] =>
            i \in DOMAIN shells' /\ shells'[i] = shells[i]
    BY LiveStays
  <2> QED
    BY <2>1, <2>2, <2>3 DEF Loses
<1> QED
  BY <1>5, <1>6

\* The window that asked is given its answer.
LEMMA OpenAnswered ==
  ASSUME IInv, Typed, NetworkOK, NEW c \in Conns, NEW m \in Answer, m.type = "Ack",
         Tell(c, m), Opened(c, m), NEW w \in Viewers, w = c[1], WindowOK(w),
         toHost[c] # <<>>, Head(toHost[c]).type = "Open",
         toHost' = [toHost EXCEPT ![c] = Tail(@)],
         UNCHANGED <<sharing, gone, kicks, up, viewer>>
  PROVE  WindowOK(w)'
<1>1. /\ \A d \in Conns : d # c => toHost'[d] = toHost[d]
      /\ toHost'[c] = Tail(toHost[c])
  BY ServedMail
<1>2. /\ toHost[c] \in Seq(Message) /\ Len(toHost[c]) \in Nat \ {0}
      /\ Head(toHost[c]) = toHost[c][1]
      /\ Tail(toHost[c]) = <<>> <=> Len(toHost[c]) = 1
  <2>1. toHost[c] \in Seq(Message)
    BY DEF Typed, MailTyped
  <2> QED
    BY <2>1, TailShifts
<1>3. ~Untouched(w)
  BY <1>2 DEF Untouched, Only
<1>4. ASSUME NoCloses(w) PROVE NoCloses(w)'
  <2>1. Only("Open", toHost[c]) => Only("Open", Tail(toHost[c]))
    BY <1>2, OnlySome
  <2> QED
    BY <1>1, <1>4, <2>1 DEF NoCloses
<1>5. PicksOK(w)'
  <2>1. viewer[w].picks = 1 => NoCloses(w)
    BY <1>3 DEF WindowOK, PicksOK
  <2>2. viewer[w].picks = 0 => NoCloses(w) /\ ~DeferOpen
    BY <1>3 DEF WindowOK, PicksOK
  <2> QED
    BY <1>4, <2>1, <2>2 DEF WindowOK, PicksOK
<1>6. ASSUME NEW d \in Conns
      PROVE  /\ Longer(d)
             /\ \A i \in Added(d) : d = c /\ Reaches(d) /\ toViewer'[d][i] = m
             /\ d = c /\ Reaches(d) => \E i \in Added(d) : toViewer'[d][i] = m
             /\ Len(toViewer[d]) \in Nat /\ Len(toViewer'[d]) \in Nat
             /\ Len(toViewer'[d]) <= Len(toViewer[d]) + 1
  <2>1. toViewer[d] \in Seq(Said)
    BY DEF Typed, MailTyped
  <2>2. Longer(d)
    BY TellLonger
  <2> QED
    BY <2>1, <2>2, TellLonger DEF Longer
<1>7. FirstOK(w)'
  <2> SUFFICES ASSUME First(w) PROVE FirstOK(w)'
    BY DEF FirstOK, First
  <2>1. c = <<w, 1>>
    <3>1. ~NotDialled(c)
      BY DEF NetworkOK, NotYet
    <3>2. c[2] = 1
      BY <3>1, ConnShape DEF NotDialled, First
    <3> QED
      BY <3>2, ConnShape
  <2>2. Asked(w, c)
    BY <1>3, <2>1 DEF WindowOK, FirstOK, Answered, Settled
  <2>3. Len(toHost[c]) = 1
    BY <1>2, <2>2 DEF Asked
  <2>4. Reaches(c)
    BY <2>1 DEF First, Reaches, Conn
  <2>5. Len(toViewer[c]) = 0
    BY <2>2 DEF Asked
  <2>6. PICK i \in Added(c) : toViewer'[c][i] = m
    BY <1>6, <2>4
  <2>7. \A j \in Added(c) : toViewer'[c][j] = m
    BY <1>6
  <2>8. \A id \in DOMAIN shells' : Mine(id, c)' => Granted(m) /\ m.id = id
    <3>1. \A id \in DOMAIN shells : shells[id] # [state |-> "Live", peer |-> c]
      BY <2>2 DEF Asked, NoShellOf
    <3> QED
      BY <3>1 DEF Mine, Opened
  <2>9. Answered(w, c)'
    <3>1. Waits(viewer[w]) /\ toHost'[c] = <<>>
      BY <1>1, <1>2, <2>2, <2>3 DEF Asked
    <3>2. \A j \in 1..Len(toViewer'[c]) : j \in Added(c)
      BY <2>5 DEF Added
    <3>3. i = 1 /\ Len(toViewer'[c]) = 1
      <4>1. PICK k : k = Len(toViewer'[c])
        OBVIOUS
      <4>2. k \in Nat /\ k <= 1
        BY <1>6, <2>5, <4>1
      <4>3. i \in 1..k
        BY <2>5, <2>6, <4>1 DEF Added
      <4>4. \A n \in Nat : n <= 1 => \A j \in 1..n : j = 1 /\ n = 1
        OBVIOUS
      <4>5. i = 1 /\ k = 1
        BY <4>2, <4>3, <4>4, Zenon
      <4> QED
        BY <4>1, <4>5, Zenon
    <3>4. toViewer'[c] # <<>>
      BY <3>3
    <3>5. toViewer'[c][1] = m /\ \A j \in 1..Len(toViewer'[c]) : j = 1
      BY <2>6, <3>3
    <3> QED
      BY <2>8, <3>1, <3>4, <3>5 DEF Answered, Granted, Mine
  <2> QED
    BY <1>3, <2>1, <2>9 DEF WindowOK, FirstOK
<1>8. BetweenLinks(w)'
  <2>1. ASSUME ~viewer[w].link, viewer[w].dial > 0
        PROVE  toViewer'[Conn(w)] = toViewer[Conn(w)]
    <3>1. Conn(w) \in Conns /\ ~Reaches(Conn(w))
      BY <2>1, ConnTyped DEF Conn, Reaches
    <3> QED
      BY <1>6, <3>1 DEF Longer
  <2> QED
    <3>1. BetweenLinks(w)
      BY DEF WindowOK
    <3> QED
      BY <2>1, <3>1 DEF BetweenLinks, Conn, Granted, Waits
<1>9. HeldOK(w)'
  <2> SUFFICES ASSUME NEW d \in Conns, d = Conn(w), sharing, AskedOnce(w),
                      viewer[w].dial > 0, Reaches(d)
               PROVE  HeldAt(w, d)'
    BY DEF HeldOK, AskedOnce, Reaches, Conn
  <2>1. HeldAt(w, d)
    BY DEF WindowOK, HeldOK
  <2>2. ASSUME NEW id, Mine(id, d)
        PROVE  id \in DOMAIN shells' /\ shells'[id] = [state |-> "Live", peer |-> d]
    BY <2>2, LiveStays DEF Mine
  <2>3. ASSUME NEW id, NEW k \in Nat, 0 < k, Held(id, d, k)
        PROVE  Held(id, d, k)'
    <3>1. CASE Mine(id, d)
      BY <2>2, <3>1 DEF Held, Mine
    <3>2. CASE \E j \in k..Len(toViewer[d]) : toViewer[d][j] = Exit(id)
      <4>1. PICK j \in k..Len(toViewer[d]) : toViewer[d][j] = Exit(id)
        BY <3>2
      <4>2. j \in k..Len(toViewer'[d]) /\ toViewer'[d][j] = Exit(id)
        BY <1>6, <2>3, <4>1 DEF Longer
      <4> QED
        BY <4>2 DEF Held, Exit
    <3> QED
      BY <2>3, <3>1, <3>2 DEF Held
  <2>4. ASSUME NEW i \in 1..Len(toViewer'[d]), Granted(toViewer'[d][i])
        PROVE  Held(toViewer[d][i].id, d, i + 1)'
    <3>1. PICK id : id = toViewer'[d][i].id
      OBVIOUS
    <3>2. CASE i \in 1..Len(toViewer[d])
      <4>1. toViewer'[d][i] = toViewer[d][i]
        BY <1>6, <3>2 DEF Longer
      <4>2. Held(id, d, i + 1)
        BY <2>1, <2>4, <3>1, <3>2, <4>1 DEF HeldAt
      <4>3. i + 1 \in Nat /\ 0 < i + 1
        BY <1>6
      <4>4. Held(id, d, i + 1)'
        BY <2>3, <4>2, <4>3
      <4> QED
        BY <3>1, <4>4 DEF Held, Mine, Exit
    <3>3. CASE i \in Added(d)
      <4>1. d = c /\ toViewer'[d][i] = m
        BY <1>6, <3>3
      <4>2. id \in DOMAIN shells' /\ shells'[id] = [state |-> "Live", peer |-> d]
        BY <2>4, <3>1, <4>1 DEF Opened
      <4> QED
        BY <3>1, <4>2 DEF Held, Mine
    <3> QED
      BY <1>6, <3>2, <3>3 DEF Added
  <2>5. ASSUME viewer[w].state = "Open" PROVE Held(viewer[w].term, d, 1)'
    <3>1. PICK id : id = viewer[w].term
      OBVIOUS
    <3>2. Held(id, d, 1)
      BY <2>1, <2>5, <3>1 DEF HeldAt
    <3>3. Held(id, d, 1)'
      BY <2>3, <3>2
    <3> QED
      BY <3>1, <3>3 DEF Held, Mine, Exit
  <2> QED
    BY <2>4, <2>5 DEF HeldAt, Granted
<1> QED
  BY <1>5, <1>7, <1>8, <1>9 DEF WindowOK

\* The user of the host.
LEMMA HostUserLoses ==
  ASSUME IInv, Typed, HostUser
  PROVE  HostStep /\ \A w \in Viewers : Loses(w)
<1>1. /\ UNCHANGED <<nextId, gone, up, toHost, viewer>>
      /\ sharing' => sharing
  <2>1. UNCHANGED <<nextId, gone, up, toHost, viewer>>
    BY DEF HostUser, Stop, KickSession, AttachLocal, CloseLocal
  <2>2. sharing' = FALSE \/ sharing' = sharing
    BY DEF HostUser, Stop, KickSession, AttachLocal, CloseLocal
  <2> QED
    BY <2>1, <2>2
<1>2. ASSUME UNCHANGED toViewer,
             \A i \in DOMAIN shells' : i \in DOMAIN shells /\ shells'[i] = shells[i],
             sharing' => \A i \in DOMAIN shells : shells[i].state = "Live" => i \in DOMAIN shells'
      PROVE  HostStep /\ \A w \in Viewers : Loses(w)
  <2>1. \A d \in Conns : Longer(d) /\ Added(d) = {}
    BY <1>2, SilentLonger
  <2>2. HostStep
    BY <1>1, <1>2, <2>1 DEF HostStep
  <2>3. \A w \in Viewers : Loses(w)
    BY <1>1, <1>2, <2>1 DEF Loses
  <2> QED
    BY <2>2, <2>3
<1>3. CASE Stop
  BY <1>2, <1>3 DEF Stop
<1>4. CASE \E id \in Ids : KickSession(id)
  BY <1>2, <1>4 DEF KickSession
<1>5. CASE \E id \in Ids : CloseLocal(id)
  BY <1>2, <1>5 DEF CloseLocal, Without
<1>6. ASSUME NEW id \in Ids, AttachLocal(id)
      PROVE  HostStep /\ \A w \in Viewers : Loses(w)
  <2>1. /\ id \in DOMAIN shells /\ shells' = [shells EXCEPT ![id] = TakenOver(@)]
        /\ IF shells[id].state = "Live" THEN Tell(shells[id].peer, Exit(id))
           ELSE UNCHANGED toViewer
    BY <1>6 DEF AttachLocal
  <2>2. /\ DOMAIN shells' = DOMAIN shells
        /\ shells'[id].state = "Local" /\ shells'[id].peer = NoPeer
        /\ \A i \in DOMAIN shells : i # id => shells'[i] = shells[i]
    BY <2>1 DEF TakenOver
  <2>3. ASSUME NEW d \in Conns
        PROVE  /\ Longer(d)
               /\ \A i \in Added(d) : /\ shells[id].peer = d /\ Reaches(d)
                                      /\ toViewer'[d][i] = Exit(id)
               /\ Reaches(d) /\ shells[id] = [state |-> "Live", peer |-> d]
                  => \E i \in Added(d) : toViewer'[d][i] = Exit(id)
    <3>1. CASE shells[id].state = "Live"
      <4>1. Exit(id) \in Answer
        BY <2>1, MessagesTyped DEF IInv, ShellsInv
      <4> QED
        BY <2>1, <3>1, <4>1, TellLonger
    <3>2. CASE shells[id].state # "Live"
      BY <2>1, <3>2, SilentLonger
    <3> QED
      BY <3>1, <3>2
  <2>4. HostStep
    <3>1. ASSUME NEW d \in Conns, NEW i \in Added(d), NEW j \in DOMAIN shells',
                 j = toViewer'[d][i].id
          PROVE  shells'[j].state = "Local"
      <4>1. toViewer'[d][i] = Exit(id)
        BY <2>3
      <4>2. j = id
        BY <3>1, <4>1, ExitShape
      <4> QED
        BY <2>2, <4>2
    <3>2. \A d \in Conns : Longer(d)
      BY <2>3
    <3> QED
      BY <1>1, <2>2, <3>1, <3>2 DEF HostStep
  <2>5. ASSUME NEW w \in Viewers PROVE Loses(w)
    <3>1. \A d \in Conns : \A i \in Added(d) : \E j \in DOMAIN shells :
            Reaches(d) /\ shells[j].peer = d /\ toViewer'[d][i] = Exit(j)
      BY <2>1, <2>3
    <3>2. \A d \in Conns : Reaches(d) =>
            \A i \in DOMAIN shells : shells[i] = [state |-> "Live", peer |-> d] =>
              \/ i \in DOMAIN shells' /\ shells'[i] = shells[i]
              \/ \E k \in Added(d) : toViewer'[d][k] = Exit(i)
      BY <2>2, <2>3
    <3>3. \A i \in DOMAIN shells' : shells'[i].state # "Local" =>
            i \in DOMAIN shells /\ shells'[i] = shells[i]
      BY <2>2
    <3>4. \A d \in Conns : Longer(d)
      BY <2>3
    <3> QED
      BY <1>1, <3>1, <3>2, <3>3, <3>4 DEF Loses
  <2> QED
    BY <2>4, <2>5
<1> QED
  BY <1>3, <1>4, <1>5, <1>6 DEF HostUser

\* The messages t are those of s, and behind them those of x and of y.
Joins(s, x, y, t) ==
  /\ t \in Seq(Answer) /\ Len(s) <= Len(t)
  /\ \A i \in 1..Len(s) : t[i] = s[i]
  /\ \A i \in (Len(s) + 1)..Len(t) :
       (\E j \in 1..Len(x) : t[i] = x[j]) \/ (\E j \in 1..Len(y) : t[i] = y[j])
  /\ \A j \in 1..Len(x) : \E i \in (Len(s) + 1)..Len(t) : t[i] = x[j]
  /\ \A j \in 1..Len(y) : \E i \in (Len(s) + 1)..Len(t) : t[i] = y[j]

LEMMA BothAdded ==
  ASSUME NEW s \in Seq(Answer), NEW x \in Seq(Answer), NEW y \in Seq(Answer)
  PROVE  Joins(s, x, y, s \o x \o y)
<1> SUFFICES ASSUME NEW t, t = s \o x \o y PROVE Joins(s, x, y, t)
  OBVIOUS
<1> DEFINE u == s \o x
<1>0. ASSUME NEW p \in Seq(Answer), NEW q \in Seq(Answer)
      PROVE  /\ p \o q \in Seq(Answer) /\ Len(p \o q) = Len(p) + Len(q)
             /\ \A i \in 1..Len(p) + Len(q) :
                  (p \o q)[i] = IF i <= Len(p) THEN p[i] ELSE q[i - Len(p)]
  BY ConcatProperties, Zenon
<1>1. /\ u \in Seq(Answer) /\ Len(u) = Len(s) + Len(x)
      /\ \A i \in 1..Len(s) + Len(x) : u[i] = IF i <= Len(s) THEN s[i] ELSE x[i - Len(s)]
  BY <1>0, Zenon
<1> HIDE DEF u
<1>2. /\ t \in Seq(Answer) /\ Len(t) = Len(u) + Len(y)
      /\ \A i \in 1..Len(u) + Len(y) : t[i] = IF i <= Len(u) THEN u[i] ELSE y[i - Len(u)]
  <2>1. t = u \o y
    BY DEF u
  <2>2. /\ u \o y \in Seq(Answer) /\ Len(u \o y) = Len(u) + Len(y)
        /\ \A i \in 1..Len(u) + Len(y) :
             (u \o y)[i] = IF i <= Len(u) THEN u[i] ELSE y[i - Len(u)]
    BY <1>0, <1>1, Zenon
  <2> QED
    BY <2>1, <2>2
<1>3. Len(s) \in Nat /\ Len(x) \in Nat /\ Len(y) \in Nat /\ Len(u) \in Nat /\ Len(t) \in Nat
  BY <1>1, <1>2, LenProperties
<1>4. ASSUME NEW i \in (Len(s) + 1)..Len(t)
      PROVE  (\E j \in 1..Len(x) : t[i] = x[j]) \/ (\E j \in 1..Len(y) : t[i] = y[j])
  <2>1. CASE i <= Len(u)
    <3>1. i - Len(s) \in 1..Len(x) /\ t[i] = x[i - Len(s)]
      BY <1>1, <1>2, <1>3, <2>1
    <3> QED
      BY <3>1
  <2>2. CASE i > Len(u)
    <3>1. i - Len(u) \in 1..Len(y) /\ t[i] = y[i - Len(u)]
      BY <1>2, <1>3, <2>2
    <3> QED
      BY <3>1
  <2> QED
    BY <1>3, <2>1, <2>2
<1>5. ASSUME NEW j \in 1..Len(x)
      PROVE  \E i \in (Len(s) + 1)..Len(t) : t[i] = x[j]
  <2>1. Len(s) + j \in (Len(s) + 1)..Len(t) /\ t[Len(s) + j] = x[j]
    BY <1>1, <1>2, <1>3
  <2> QED
    BY <2>1
<1>6. ASSUME NEW j \in 1..Len(y)
      PROVE  \E i \in (Len(s) + 1)..Len(t) : t[i] = y[j]
  <2> DEFINE i == Len(u) + j
  <2>1. i \in (Len(s) + 1)..Len(t) /\ i \in 1..Len(u) + Len(y) /\ ~(i <= Len(u)) /\ i - Len(u) = j
    BY <1>1, <1>2, <1>3
  <2> HIDE DEF i
  <2>2. t[i] = y[j]
    BY <1>2, <2>1
  <2> QED
    BY <2>1, <2>2
<1>7. Len(s) <= Len(t) /\ \A i \in 1..Len(s) : t[i] = s[i]
  BY <1>1, <1>2, <1>3
<1> QED
  BY <1>2, <1>4, <1>5, <1>6, <1>7 DEF Joins

\* The messages t are those of s, and behind them that the shells ids of d have ended.
Tells(s, ids, d, t) ==
  /\ t \in Seq(Answer) /\ Len(s) <= Len(t)
  /\ \A i \in 1..Len(s) : t[i] = s[i]
  /\ \A i \in (Len(s) + 1)..Len(t) : \E id \in ids : shells[id].peer = d /\ t[i] = Exit(id)
  /\ \A id \in ids : shells[id].peer = d => \E i \in (Len(s) + 1)..Len(t) : t[i] = Exit(id)

LEMMA ExitsAdded ==
  ASSUME IInv, NEW d, NEW s \in Seq(Answer),
         NEW a \in SUBSET DOMAIN shells, NEW b \in SUBSET DOMAIN shells
  PROVE  Tells(s, a \cup b, d, s \o Exits(a, d) \o Exits(b, d))
<1>1. PICK x, y : x = Exits(a, d) /\ y = Exits(b, d)
  OBVIOUS
<1>2. PICK t : t = s \o x \o y
  OBVIOUS
<1>3. TellsOf(a, d, x) /\ TellsOf(b, d, y)
  BY <1>1, ExitsTell
<1>4. Joins(s, x, y, t)
  BY <1>2, <1>3, BothAdded DEF TellsOf
<1>5. /\ t \in Seq(Answer) /\ Len(s) <= Len(t)
      /\ \A i \in 1..Len(s) : t[i] = s[i]
      /\ \A i \in (Len(s) + 1)..Len(t) :
           (\E j \in 1..Len(x) : t[i] = x[j]) \/ (\E j \in 1..Len(y) : t[i] = y[j])
      /\ \A j \in 1..Len(x) : \E i \in (Len(s) + 1)..Len(t) : t[i] = x[j]
      /\ \A j \in 1..Len(y) : \E i \in (Len(s) + 1)..Len(t) : t[i] = y[j]
  BY <1>4 DEF Joins
<1>6. ASSUME NEW i \in (Len(s) + 1)..Len(t)
      PROVE  \E id \in a \cup b : shells[id].peer = d /\ t[i] = Exit(id)
  <2>1. ASSUME NEW j \in 1..Len(x), t[i] = x[j]
        PROVE  \E id \in a \cup b : shells[id].peer = d /\ t[i] = Exit(id)
    <3>1. PICK id \in a : shells[id].peer = d /\ x[j] = Exit(id)
      BY <1>3 DEF TellsOf
    <3> QED
      BY <2>1, <3>1
  <2>2. ASSUME NEW j \in 1..Len(y), t[i] = y[j]
        PROVE  \E id \in a \cup b : shells[id].peer = d /\ t[i] = Exit(id)
    <3>1. PICK id \in b : shells[id].peer = d /\ y[j] = Exit(id)
      BY <1>3 DEF TellsOf
    <3> QED
      BY <2>2, <3>1
  <2> QED
    BY <1>5, <2>1, <2>2
<1>7. ASSUME NEW id \in a \cup b, shells[id].peer = d
      PROVE  \E i \in (Len(s) + 1)..Len(t) : t[i] = Exit(id)
  <2>1. CASE id \in a
    <3>1. PICK j \in 1..Len(x) : x[j] = Exit(id)
      BY <1>3, <1>7, <2>1 DEF TellsOf
    <3>2. PICK i \in (Len(s) + 1)..Len(t) : t[i] = x[j]
      BY <1>5
    <3> QED
      BY <3>1, <3>2
  <2>2. CASE id \in b
    <3>1. PICK j \in 1..Len(y) : y[j] = Exit(id)
      BY <1>3, <1>7, <2>2 DEF TellsOf
    <3>2. PICK i \in (Len(s) + 1)..Len(t) : t[i] = y[j]
      BY <1>5
    <3> QED
      BY <3>1, <3>2
  <2> QED
    BY <2>1, <2>2
<1>8. Tells(s, a \cup b, d, t)
  BY <1>5, <1>6, <1>7 DEF Tells
<1> QED
  BY <1>1, <1>2, <1>8

\* The pump thread's turn.
LEMMA TurnLoses ==
  ASSUME IInv, Typed, NetworkOK, NEW finished \in SUBSET DOMAIN shells, Turn(finished)
  PROVE  HostStep /\ \A w \in Viewers : Loses(w)
<1> DEFINE kicked == kicks \cap DOMAIN shells
           over == finished \ kicked
           ended == kicked \cup over
<1>1. /\ UNCHANGED <<nextId, sharing, up, toHost, viewer>> /\ gone' = {}
      /\ shells' = [id \in DOMAIN shells \ ended |-> AfterGone(shells[id])]
      /\ toViewer' = [c \in Conns |->
           IF Reaches(c) THEN toViewer[c] \o Exits(kicked, c) \o Exits(over, c) ELSE toViewer[c]]
  BY DEF Turn
<1>2. kicked \in SUBSET DOMAIN shells /\ over \in SUBSET DOMAIN shells
  OBVIOUS
<1>3. \A id \in ended : id \in kicked \/ id \in over
  OBVIOUS
<1>4. kicked \subseteq ended /\ over \subseteq ended
  OBVIOUS
<1> HIDE DEF kicked, over, ended
<1>5. ASSUME NEW d \in Conns
      PROVE  toViewer[d] \in Seq(Answer) /\ Len(toViewer[d]) \in Nat
  <2>1. Said \subseteq Answer
    BY DEF Said
  <2>2. \A s \in Seq(Said) : s \in Seq(Answer)
    BY <2>1, SeqMonotonic, Zenon
  <2> QED
    BY <2>2 DEF Typed, MailTyped
<1>6. ASSUME NEW d \in Conns
      PROVE  /\ Longer(d)
             /\ \A i \in Added(d) : Reaches(d) /\ \E id \in ended :
                  shells[id].peer = d /\ toViewer'[d][i] = Exit(id)
             /\ Reaches(d) => \A id \in ended : shells[id].peer = d =>
                  \E i \in Added(d) : toViewer'[d][i] = Exit(id)
  <2>1. CASE Reaches(d)
    <3>1. toViewer'[d] = toViewer[d] \o Exits(kicked, d) \o Exits(over, d)
      BY <1>1, <2>1
    <3>2. PICK s, t : s = toViewer[d] /\ t = toViewer'[d]
      OBVIOUS
    <3>3. Tells(s, kicked \cup over, d, t)
      <4>1. s \in Seq(Answer) /\ t = s \o Exits(kicked, d) \o Exits(over, d)
        BY <1>5, <3>1, <3>2
      <4> QED
        BY <1>2, <4>1, ExitsAdded
    <3>4. Added(d) = (Len(s) + 1)..Len(t) /\ ended = kicked \cup over
      BY <3>2 DEF Added, ended
    <3>5. Longer(d)
      BY <2>1, <3>2, <3>3 DEF Longer, Tells
    <3> QED
      BY <2>1, <3>2, <3>3, <3>4, <3>5, Zenon DEF Tells
  <2>2. CASE ~Reaches(d)
    <3>1. toViewer'[d] = toViewer[d]
      BY <1>1, <2>2
    <3>2. Longer(d) /\ Added(d) = {}
      BY <1>5, <3>1 DEF Longer, Added
    <3> QED
      BY <2>2, <3>2
  <2> QED
    BY <2>1, <2>2
<1>7. /\ \A id \in DOMAIN shells' : id \in DOMAIN shells /\ id \notin ended
      /\ \A id \in DOMAIN shells : id \notin ended => id \in DOMAIN shells'
  BY <1>1
<1>8. ASSUME NEW id \in DOMAIN shells'
      PROVE  /\ shells'[id].peer = shells[id].peer
             /\ shells[id].state = "Local" => shells'[id].state = "Local"
             /\ shells'[id].state # "Local" => shells[id].state # "Local"
             /\ shells'[id].state = "Live" => shells'[id] = shells[id]
             /\ shells[id].peer \in up => shells'[id] = shells[id]
  <2>1. shells'[id] = AfterGone(shells[id]) /\ shells[id] \in Shell
    BY <1>1, <1>7 DEF IInv, ShellsInv
  <2> QED
    BY <2>1 DEF AfterGone, Shell, NetworkOK, GoneIsDown
<1>9. HostStep
  <2>1. \A d \in Conns : \A i \in Added(d) : toViewer'[d][i].id \notin DOMAIN shells'
    BY <1>6, <1>7, ExitShape
  <2>2. \A d \in Conns : Longer(d)
    BY <1>6
  <2>3. UNCHANGED <<up, viewer, toHost>> /\ gone' \subseteq gone
    BY <1>1
  <2>4. \A id \in DOMAIN shells' :
          /\ id \in DOMAIN shells /\ shells'[id].peer = shells[id].peer
          /\ shells[id].state = "Local" => shells'[id].state = "Local"
    BY <1>7, <1>8
  <2> QED
    BY <2>1, <2>2, <2>3, <2>4 DEF HostStep
<1>10. ASSUME NEW w \in Viewers PROVE Loses(w)
  <2>1. \A d \in Conns : Longer(d) /\ \A i \in Added(d) : \E id \in DOMAIN shells :
          Reaches(d) /\ shells[id].peer = d /\ toViewer'[d][i] = Exit(id)
    <3>1. ended \subseteq DOMAIN shells
      BY <1>2, <1>3
    <3> QED
      BY <1>6, <3>1
  <2>2. ASSUME NEW d \in Conns, Reaches(d),
               NEW id \in DOMAIN shells, shells[id] = [state |-> "Live", peer |-> d]
        PROVE  \/ id \in DOMAIN shells' /\ shells'[id] = shells[id]
               \/ \E i \in Added(d) : toViewer'[d][i] = Exit(id)
    <3>1. shells[id].peer = d /\ d \in up
      BY <2>2 DEF Reaches
    <3>2. CASE id \in ended
      BY <1>6, <2>2, <3>1, <3>2
    <3>3. CASE id \notin ended
      BY <1>7, <1>8, <3>1, <3>3
    <3> QED
      BY <3>2, <3>3
  <2> QED
    BY <1>1, <1>7, <1>8, <2>1, <2>2 DEF Loses
<1> QED
  BY <1>9, <1>10

\* A message of a viewer, and whatever the host does with it.
LEMMA HostMessageWindows ==
  ASSUME IInv, Typed, NetworkOK, \A w \in Viewers : WindowOK(w),
         NEW c \in Conns, HostHandlesMessage(c)
  PROVE  NetworkOK' /\ \A w \in Viewers : WindowOK(w)'
<1>1. /\ toHost[c] # <<>> /\ toHost' = [toHost EXCEPT ![c] = Tail(@)]
      /\ UNCHANGED <<sharing, gone, kicks, up, viewer>>
  BY DEF HostHandlesMessage
<1>2. toHost[c] \in Seq(Message) /\ Head(toHost[c]) \in Message /\ c[1] \in Viewers
  <2>1. toHost[c] \in Seq(Message)
    BY DEF Typed, MailTyped
  <2> QED
    BY <1>1, <2>1, TailShifts, ConnShape
<1>3. CASE Head(toHost[c]).type = "Open" /\ HandleOpen(c, Head(toHost[c]).id)
  <2>1. Head(toHost[c]).id \in Nat
    BY <1>2 DEF Message
  <2>2. PICK m \in Answer : m.type = "Ack" /\ Tell(c, m) /\ Opened(c, m)
    BY <1>3, <2>1, OpenShape
  <2>3. HostStep /\ \A w \in Viewers : w # c[1] => Loses(w)
    BY <1>1, <2>2, OpenStep
  <2>4. \A w \in Viewers : w # c[1] => WindowOK(w)'
    BY <2>3, Losing
  <2>5. \A w \in Viewers : w = c[1] => WindowOK(w)'
    BY <1>1, <1>3, <2>2, OpenAnswered
  <2> QED
    BY <2>3, <2>4, <2>5, HostStepNetwork
<1>4. CASE Head(toHost[c]).type = "Close" /\ HandleClose(c, Head(toHost[c]).id)
  <2>1. HostStep /\ \A w \in Viewers : Loses(w)
    BY <1>1, <1>4, CloseStep
  <2> QED
    BY <2>1, HostStepNetwork, Losing
<1> QED
  BY <1>3, <1>4 DEF HostHandlesMessage

\* Whatever else the host does.
LEMMA HostWindows ==
  ASSUME IInv, Typed, NetworkOK, \A w \in Viewers : WindowOK(w),
         HostUser \/ \E finished \in SUBSET DOMAIN shells : Turn(finished)
  PROVE  NetworkOK' /\ \A w \in Viewers : WindowOK(w)'
<1>1. HostStep /\ \A w \in Viewers : Loses(w)
  BY HostUserLoses, TurnLoses
<1> QED
  BY <1>1, HostStepNetwork, Losing

\* A step that concerns another viewer than w.
Frame(w) ==
  /\ UNCHANGED <<shells, sharing>> /\ viewer'[w] = viewer[w]
  /\ \A c \in Conns : c[1] = w =>
       toHost'[c] = toHost[c] /\ toViewer'[c] = toViewer[c] /\ (c \in up' <=> c \in up)

LEMMA FrameKeeps ==
  ASSUME Typed, NEW w \in Viewers, Frame(w), WindowOK(w)
  PROVE  WindowOK(w)'
<1>1. /\ UNCHANGED <<shells, sharing>> /\ viewer'[w] = viewer[w]
      /\ \A c \in Conns : c[1] = w =>
           toHost'[c] = toHost[c] /\ toViewer'[c] = toViewer[c] /\ (c \in up' <=> c \in up)
  BY DEF Frame
<1>2. Untouched(w)' <=> Untouched(w)
  BY <1>1 DEF Untouched, NoShellOf
<1>3. NoCloses(w)' <=> NoCloses(w)
  BY <1>1 DEF NoCloses
<1>4. PicksOK(w)'
  BY <1>1, <1>2, <1>3 DEF WindowOK, PicksOK
<1>5. ASSUME viewer[w].dial > 0
      PROVE  /\ Conn(w)' = Conn(w) /\ Conn(w) \in Conns /\ Conn(w)[1] = w
             /\ toHost'[Conn(w)] = toHost[Conn(w)] /\ toViewer'[Conn(w)] = toViewer[Conn(w)]
             /\ Conn(w) \in up' <=> Conn(w) \in up
  BY <1>1, <1>5, ConnTyped DEF Conn
<1>6. FirstOK(w)'
  <2> SUFFICES ASSUME viewer[w].dial = 1 PROVE FirstOK(w)'
    BY <1>1 DEF FirstOK, First
  <2>1. /\ <<w, 1>> \in Conns
        /\ toHost'[<<w, 1>>] = toHost[<<w, 1>>] /\ toViewer'[<<w, 1>>] = toViewer[<<w, 1>>]
        /\ <<w, 1>> \in up' <=> <<w, 1>> \in up
    BY <1>5 DEF Conn
  <2>2. First(w)' = First(w)
    BY <1>1, <2>1 DEF First
  <2>3. /\ Asked(w, <<w, 1>>)' <=> Asked(w, <<w, 1>>)
        /\ Answered(w, <<w, 1>>)' <=> Answered(w, <<w, 1>>)
        /\ Settled(w, <<w, 1>>)' <=> Settled(w, <<w, 1>>)
    BY <1>1, <2>1 DEF Asked, Answered, Settled, NoShellOf, Mine, Granted
  <2> QED
    BY <1>1, <1>2, <2>2, <2>3 DEF WindowOK, FirstOK
<1>7. BetweenLinks(w)'
  BY <1>1, <1>5 DEF WindowOK, BetweenLinks, Granted
<1>8. HeldOK(w)'
  <2> SUFFICES ASSUME NEW c \in Conns, c = Conn(w), sharing, AskedOnce(w),
                      viewer[w].dial > 0, Reaches(c)
               PROVE  HeldAt(w, c)'
    <3>1. \A c \in Conns : c = Conn(w)' /\ viewer[w].dial > 0 => (Reaches(c)' <=> Reaches(c))
      BY <1>1, <1>5 DEF Reaches, Conn
    <3> QED
      BY <1>1, <1>5, <3>1 DEF HeldOK, AskedOnce
  <2>1. HeldAt(w, c)
    BY DEF WindowOK, HeldOK
  <2>2. toViewer'[c] = toViewer[c]
    BY <1>5
  <2> QED
    BY <1>1, <2>1, <2>2 DEF HeldAt, Held, Mine, Granted, Exit
<1> QED
  BY <1>4, <1>6, <1>7, <1>8 DEF WindowOK

\* A step of viewer v's own, on whatever connection it has; what it sends is of these types.
OwnStep(v, types) ==
  /\ UNCHANGED <<host, up>> /\ viewer[v].dial > 0
  /\ \A w \in Viewers : w # v => viewer'[w] = viewer[w]
  /\ viewer'[v].link = viewer[v].link /\ viewer'[v].dial = viewer[v].dial
  /\ \A d \in Conns : d # Conn(v) => toHost'[d] = toHost[d] /\ toViewer'[d] = toViewer[d]
  /\ \A type \in types : Only(type, viewer[v].outbox) =>
       /\ Only(type, viewer'[v].outbox)
       /\ \A d \in Conns : d[1] = v /\ Only(type, toHost[d]) => Only(type, toHost'[d])

\* A viewer that has dialled nobody does nothing.
LEMMA ActiveDialled ==
  ASSUME Typed, NEW v \in Viewers, PicksOK(v), ViewerThread(v) \/ User(v)
  PROVE  viewer[v].dial > 0
<1>1. viewer[v].dial \in Nat
  BY DEF Typed, ViewersTyped, Client
<1> SUFFICES ASSUME viewer[v] = NewViewer PROVE viewer[v].dial > 0
  BY <1>1 DEF PicksOK
<1>2. ~RunCommand(v)
  BY DEF RunCommand, NewViewer
<1>3. ~Flush(v)
  BY DEF Flush, NewViewer
<1>4. ~RetryResume(v)
  <2>1. viewer[v] \in Client
    BY DEF Typed, ViewersTyped
  <2> viewer[v].retry = FALSE
    BY DEF NewViewer
  <2>2. [viewer[v] EXCEPT !.retry = FALSE] = viewer[v]
    BY <2>1 DEF Client
  <2> QED
    BY <2>2 DEF RetryResume
<1>5. ~User(v)
  BY DEF User, OpenNew, ResumeSession, CloseSession, Picks, NewViewer
<1> QED
  BY <1>2, <1>3, <1>4, <1>5 DEF ViewerThread, ClientHandlesMessage

LEMMA OwnOthers ==
  ASSUME Typed, NetworkOK, NEW v \in Viewers, NEW types, OwnStep(v, types),
         \A w \in Viewers : WindowOK(w)
  PROVE  /\ \A w \in Viewers : w # v => WindowOK(w)'
         /\ UNCHANGED toViewer => NetworkOK'
<1>1. Conn(v) \in Conns /\ Conn(v)[1] = v /\ ~NotDialled(Conn(v))
  BY ConnTyped DEF OwnStep, Conn, NotDialled, Typed, ViewersTyped, Client
<1>2. ASSUME NEW w \in Viewers, w # v PROVE WindowOK(w)'
  <2>1. Frame(w)
    BY <1>1, <1>2 DEF OwnStep, Frame, host
  <2> QED
    BY <2>1, FrameKeeps
<1>3. ASSUME UNCHANGED toViewer PROVE NetworkOK'
  <2>1. \A w \in Viewers : viewer'[w].dial = viewer[w].dial
    BY DEF OwnStep
  <2>2. \A c \in Conns : NotDialled(c) => toHost'[c] = toHost[c]
    BY <1>1 DEF OwnStep
  <2> QED
    BY <1>3, <2>1, <2>2, SameNetwork DEF OwnStep, host
<1> QED
  BY <1>2, <1>3

\* What becomes of a viewer that sends something.
Becomes(v, me) ==
  /\ viewer'[v].state = me.state /\ viewer'[v].term = me.term
  /\ viewer'[v].posted = me.posted /\ viewer'[v].lost = me.lost
  /\ viewer'[v].retry = me.retry /\ viewer'[v].picker = me.picker
  /\ viewer'[v].picks = me.picks

LEMMA EmitStep ==
  ASSUME Typed, NEW v \in Viewers, viewer[v].dial > 0, NEW me \in Client,
         me.link = viewer[v].link, me.dial = viewer[v].dial, me.outbox = viewer[v].outbox,
         NEW messages \in Seq(Message), Emit(v, me, messages), UNCHANGED <<host, up, toViewer>>
  PROVE  /\ \A type : Only(type, messages) => OwnStep(v, {type})
         /\ Becomes(v, me)
         /\ me.link => viewer'[v].outbox = <<>>
         /\ me.link /\ Conn(v) \in up /\ me.outbox = <<>> =>
              toHost'[Conn(v)] = toHost[Conn(v)] \o messages
<1> DEFINE all == me.outbox \o messages
           left == IF me.link THEN <<>> ELSE all
           sent == [me EXCEPT !.outbox = left]
<1>1. me.outbox \in Seq(Message)
  BY DEF Client
<1>2. all \in Seq(Message) /\ left \in Seq(Message)
  BY <1>1
<1>3. me.outbox = <<>> => all = messages
  BY <1>1
<1>4. \A type : Only(type, me.outbox) /\ Only(type, messages) => Only(type, all) /\ Only(type, left)
  BY <1>1, OnlySome
<1>5. viewer' = [viewer EXCEPT ![v] = sent]
  BY DEF Emit
<1>6. toHost' = IF me.link /\ Conn(v) \in up THEN [toHost EXCEPT ![Conn(v)] = @ \o all] ELSE toHost
  BY DEF Emit, Conn
<1>7. me.link => left = <<>>
  OBVIOUS
<1> HIDE DEF all, left
<1>8. /\ sent.state = me.state /\ sent.term = me.term /\ sent.posted = me.posted
      /\ sent.lost = me.lost /\ sent.retry = me.retry /\ sent.picker = me.picker
      /\ sent.picks = me.picks /\ sent.link = me.link /\ sent.dial = me.dial
      /\ sent.outbox = left
  BY DEF Client
<1> HIDE DEF sent
<1>9. viewer'[v] = sent /\ \A w \in Viewers : w # v => viewer'[w] = viewer[w]
  BY <1>5 DEF Typed, ViewersTyped
<1>10. Conn(v) \in Conns
  BY ConnTyped
<1>11. \A d \in Conns : toHost'[d] = IF d = Conn(v) /\ me.link /\ Conn(v) \in up
                                     THEN toHost[d] \o all ELSE toHost[d]
  BY <1>6, <1>10 DEF Typed, MailTyped
<1>12. Becomes(v, me)
  BY <1>8, <1>9 DEF Becomes
<1>13. ASSUME NEW type, Only(type, messages)
       PROVE  OwnStep(v, {type})
  <2>1. ASSUME Only(type, viewer[v].outbox)
        PROVE  /\ Only(type, viewer'[v].outbox)
               /\ \A d \in Conns : d[1] = v /\ Only(type, toHost[d]) => Only(type, toHost'[d])
    <3>1. Only(type, all) /\ Only(type, left)
      BY <1>4, <1>13, <2>1
    <3>2. ASSUME NEW d \in Conns, Only(type, toHost[d])
          PROVE  Only(type, toHost[d] \o all)
      <4>1. toHost[d] \in Seq(Message)
        BY DEF Typed, MailTyped
      <4> QED
        BY <1>2, <3>1, <3>2, <4>1, OnlySome
    <3> QED
      BY <1>8, <1>9, <1>11, <3>1, <3>2
  <2> QED
    BY <1>8, <1>9, <1>11, <2>1 DEF OwnStep
<1> QED
  BY <1>3, <1>7, <1>8, <1>9, <1>10, <1>11, <1>12, <1>13

\* A step that sends messages and takes none keeps what the window holds.
LEMMA SendingHeld ==
  ASSUME Typed, NEW v \in Viewers, NEW types, OwnStep(v, types), UNCHANGED toViewer, HeldOK(v),
         AskedOnce(v)' => AskedOnce(v),
         viewer'[v].state = "Open" => viewer[v].state = "Open" /\ viewer'[v].term = viewer[v].term
  PROVE  HeldOK(v)'
<1>1. /\ UNCHANGED <<shells, sharing, up, toViewer>>
      /\ viewer'[v].dial = viewer[v].dial /\ viewer'[v].link = viewer[v].link
  BY DEF OwnStep, host
<1> SUFFICES ASSUME NEW c \in Conns, c = Conn(v), sharing, AskedOnce(v),
                    viewer[v].dial > 0, Reaches(c)
             PROVE  HeldAt(v, c)'
  <2>1. Conn(v)' = Conn(v)
    BY <1>1 DEF Conn
  <2>2. \A c \in Conns : c = Conn(v) => (Reaches(c)' <=> Reaches(c))
    BY <1>1, <2>1 DEF Reaches, Conn
  <2> QED
    BY <1>1, <2>1, <2>2 DEF HeldOK
<1>2. HeldAt(v, c)
  BY DEF HeldOK
<1> QED
  BY <1>1, <1>2 DEF HeldAt, Held, Mine, Granted, Exit

\* Sending opens leaves no close behind, sending nothing but closes asks for no shell.
LEMMA SendingPicks ==
  ASSUME Typed, NEW v \in Viewers, NEW types, OwnStep(v, types), UNCHANGED toViewer
  PROVE  /\ "Open" \in types /\ NoCloses(v) => NoCloses(v)'
         /\ "Close" \in types /\ Untouched(v) /\ viewer'[v].state = "Idle" /\ viewer'[v].term = 0
              => Untouched(v)'
<1>1. ASSUME NEW type \in types, Only(type, viewer[v].outbox)
      PROVE  /\ Only(type, viewer'[v].outbox)
             /\ \A d \in Conns : d[1] = v /\ Only(type, toHost[d]) => Only(type, toHost'[d])
  BY <1>1 DEF OwnStep
<1>2. ASSUME "Open" \in types, NoCloses(v) PROVE NoCloses(v)'
  BY <1>1, <1>2 DEF NoCloses
<1>3. ASSUME "Close" \in types, Untouched(v), viewer'[v].state = "Idle", viewer'[v].term = 0
      PROVE  Untouched(v)'
  <2>1. NoShellOf(v)'
    BY <1>3 DEF Untouched, NoShellOf, OwnStep, host
  <2>2. \A d \in Conns : d[1] = v => toViewer'[d] = <<>>
    BY <1>3 DEF Untouched
  <2>3. /\ Only("Close", viewer'[v].outbox)
        /\ \A d \in Conns : d[1] = v => Only("Close", toHost'[d])
    BY <1>1, <1>3 DEF Untouched
  <2> QED
    BY <1>3, <2>1, <2>2, <2>3 DEF Untouched
<1> QED
  BY <1>2, <1>3

\* A viewer's thread takes no pick: what it may do to those there are.
LEMMA ThreadPicks ==
  ASSUME NEW v \in Viewers, PicksOK(v), viewer[v].dial > 0,
         viewer'[v].dial = viewer[v].dial, viewer'[v].picks = viewer[v].picks,
         viewer'[v].picker => viewer[v].picker \/ DeferOpen,
         NoCloses(v) => NoCloses(v)', Untouched(v) /\ DeferOpen => Untouched(v)'
  PROVE  PicksOK(v)'
<1>1. viewer'[v].dial # 0
  BY DEF PicksOK, NewViewer
<1> QED
  BY <1>1 DEF PicksOK

\* An open sent on the first connection by a viewer that asked for nothing yet.
LEMMA FirstAsks ==
  ASSUME Typed, NEW v \in Viewers, First(v), FirstOK(v), Untouched(v),
         NEW id \in Nat, OwnStep(v, {"Open"}), UNCHANGED toViewer,
         viewer'[v].outbox = <<>>,
         toHost'[<<v, 1>>] = toHost[<<v, 1>>] \o <<Open(id)>>,
         viewer'[v].posted = <<>>, ~viewer'[v].picker,
         ~viewer'[v].lost, ~viewer'[v].retry,
         Waits(viewer'[v]), viewer'[v].term = id, viewer'[v].state = "Opening" <=> id = 0
  PROVE  FirstOK(v)'
<1> DEFINE c == <<v, 1>>
<1>1. c \in Conns /\ c[1] = v
  BY DEF First, Typed, HostTyped
<1> HIDE DEF c
<1>2. toHost[c] \in Seq(Message) /\ Only("Close", toHost[c]) /\ toViewer[c] = <<>>
  BY <1>1 DEF Untouched, Typed, MailTyped
<1>3. Open(id) \in Message /\ toHost'[c] = toHost[c] \o <<Open(id)>>
  BY MessagesTyped DEF c
<1>4. ASSUME NEW s \in Seq(Message), NEW m \in Message, Only("Close", s)
      PROVE  /\ s \o <<m>> # <<>>
             /\ \A i \in 1..Len(s \o <<m>>) :
                  IF i < Len(s \o <<m>>) THEN (s \o <<m>>)[i].type = "Close"
                  ELSE (s \o <<m>>)[i] = m
  BY <1>4 DEF Only
<1>5. /\ toHost'[c] # <<>>
      /\ \A i \in 1..Len(toHost'[c]) :
           IF i < Len(toHost'[c]) THEN toHost'[c][i].type = "Close" ELSE toHost'[c][i] = Open(id)
  BY <1>2, <1>3, <1>4
<1>6. NoShellOf(v)'
  BY DEF Untouched, NoShellOf, OwnStep, host
<1>7. Asked(v, c)'
  BY <1>2, <1>5, <1>6 DEF Asked, Waits
<1> QED
  BY <1>7 DEF FirstOK, c

\* The window when its link comes up or is lost.
LEMMA CommandWindow ==
  ASSUME IInv, Typed, NEW v \in Viewers, WindowOK(v), viewer[v].dial > 0, RunCommand(v)
  PROVE  (\E types : OwnStep(v, types)) /\ UNCHANGED toViewer /\ WindowOK(v)'
<1> DEFINE me == [viewer[v] EXCEPT !.posted = Tail(@)]
<1>1. viewer[v] \in Client /\ PostedOK(viewer[v]) /\ viewer[v].posted # <<>>
  BY DEF Typed, ViewersTyped, RunCommand
<1>2. /\ me \in Client
      /\ Head(viewer[v].posted) = "lost" => ~me.link
      /\ Head(viewer[v].posted) = "ready" => (me.link <=> me.posted = <<>>)
  BY <1>1, CommandServed DEF Client
<1>3. /\ me.state = viewer[v].state /\ me.term = viewer[v].term
      /\ me.link = viewer[v].link /\ me.dial = viewer[v].dial /\ me.outbox = viewer[v].outbox
      /\ me.lost = viewer[v].lost /\ me.retry = viewer[v].retry
      /\ me.picker = viewer[v].picker /\ me.picks = viewer[v].picks
  BY <1>1 DEF Client
<1>4. UNCHANGED <<host, up, toViewer>>
  BY DEF RunCommand
<1>5. \/ Head(viewer[v].posted) = "ready" /\ LinkReady(v, me)
      \/ /\ Head(viewer[v].posted) = "lost"
         /\ viewer' = [viewer EXCEPT ![v] = [LostLink(me) EXCEPT !.lost = TRUE]]
         /\ UNCHANGED toHost
  BY DEF RunCommand
<1> HIDE DEF me
<1>6. First(v) => Untouched(v) /\ ~viewer[v].picker /\ ~viewer[v].lost /\ ~viewer[v].retry
                  /\ viewer[v].outbox = <<>> /\ viewer[v].link /\ Conn(v) = <<v, 1>>
                  /\ Conn(v) \in up
  BY <1>1 DEF WindowOK, FirstOK, First, Conn
<1>7. PicksOK(v) /\ HeldOK(v)
  BY DEF WindowOK
<1>8. \A id \in Nat : <<Open(id)>> \in Seq(Message) /\ Only("Open", <<Open(id)>>)
  BY OneMessage
<1>9. CASE Head(viewer[v].posted) = "ready" /\ me.dial > 1 /\ CanReattach(me) /\ Reattach(v, me)
  <2> DEFINE he == [me EXCEPT !.state = "Reattaching"]
  <2>1. /\ he \in Client /\ he.state = "Reattaching" /\ he.term = me.term
        /\ he.link = me.link /\ he.dial = me.dial /\ he.outbox = me.outbox
        /\ he.posted = me.posted /\ he.picker = me.picker /\ he.picks = me.picks
    BY <1>2 DEF Client
  <2>2. Emit(v, he, <<Open(me.term)>>) /\ me.term \in Nat
    BY <1>2, <1>9 DEF Reattach, Client
  <2> HIDE DEF he
  <2>3. OwnStep(v, {"Open"}) /\ Becomes(v, he)
    BY <1>3, <1>4, <1>8, <2>1, <2>2, EmitStep
  <2>4. ~Untouched(v) /\ ~First(v) /\ (viewer[v].link <=> me.posted = <<>>)
    BY <1>2, <1>3, <1>9 DEF CanReattach, Untouched, First
  <2>5. /\ viewer'[v].state = "Reattaching" /\ viewer'[v].posted = me.posted
        /\ viewer'[v].picker = viewer[v].picker /\ viewer'[v].picks = viewer[v].picks
        /\ viewer'[v].link = viewer[v].link /\ viewer'[v].dial = viewer[v].dial
    BY <1>3, <2>1, <2>3 DEF Becomes, OwnStep
  <2>6. PicksOK(v)'
    BY <1>4, <1>7, <2>3, <2>4, <2>5, SendingPicks, ThreadPicks
  <2>7. FirstOK(v)' /\ BetweenLinks(v)'
    BY <1>4, <2>4, <2>5 DEF FirstOK, First, BetweenLinks
  <2>8. HeldOK(v)'
    BY <1>4, <1>7, <2>3, <2>5, SendingHeld DEF AskedOnce
  <2> QED
    BY <1>4, <2>3, <2>6, <2>7, <2>8 DEF WindowOK
<1>10. CASE /\ Head(viewer[v].posted) = "ready" /\ DeferOpen
            /\ Emit(v, [me EXCEPT !.picker = @ \/ me.state # "Closed"], <<>>)
  <2> DEFINE b == me.picker \/ me.state # "Closed"
             he == [me EXCEPT !.picker = b]
  <2>1. b \in BOOLEAN
    OBVIOUS
  <2>2. Emit(v, he, <<>>)
    BY <1>2, <1>10 DEF Client
  <2> HIDE DEF b
  <2>3. /\ he \in Client /\ he.state = me.state /\ he.term = me.term
        /\ he.link = me.link /\ he.dial = me.dial /\ he.outbox = me.outbox
        /\ he.posted = me.posted /\ he.lost = me.lost /\ he.retry = me.retry
        /\ he.picks = me.picks
    BY <1>2, <2>1 DEF Client
  <2> HIDE DEF he
  <2>4. <<>> \in Seq(Message) /\ Only("Open", <<>>) /\ Only("Close", <<>>)
    BY EmptySeq DEF Only
  <2>5. /\ OwnStep(v, {"Open"}) /\ OwnStep(v, {"Close"}) /\ Becomes(v, he)
        /\ he.link => viewer'[v].outbox = <<>>
    BY <1>3, <1>4, <2>2, <2>3, <2>4, EmitStep
  <2>6. /\ viewer'[v].state = viewer[v].state /\ viewer'[v].term = viewer[v].term
        /\ viewer'[v].posted = me.posted /\ viewer'[v].picks = viewer[v].picks
        /\ viewer'[v].lost = viewer[v].lost /\ viewer'[v].retry = viewer[v].retry
        /\ viewer'[v].link = viewer[v].link /\ viewer'[v].dial = viewer[v].dial
        /\ viewer[v].link <=> me.posted = <<>>
    BY <1>2, <1>3, <1>10, <2>3, <2>5 DEF Becomes, OwnStep
  <2>7. Untouched(v) => Untouched(v)'
    <3>1. Untouched(v) => viewer'[v].state = "Idle" /\ viewer'[v].term = 0
      BY <2>6 DEF Untouched
    <3> QED
      BY <1>4, <2>5, <3>1, SendingPicks
  <2>8. PicksOK(v)'
    BY <1>4, <1>7, <1>10, <2>5, <2>6, <2>7, SendingPicks, ThreadPicks
  <2>9. FirstOK(v)'
    <3>1. First(v)' <=> First(v)
      BY <1>4, <2>6 DEF First
    <3> QED
      BY <1>3, <1>6, <2>3, <2>5, <2>6, <2>7, <3>1 DEF FirstOK
  <2>10. BetweenLinks(v)'
    BY <2>6 DEF BetweenLinks
  <2>11. HeldOK(v)'
    BY <1>4, <1>7, <2>5, <2>6, SendingHeld DEF AskedOnce
  <2> QED
    BY <1>4, <2>5, <2>8, <2>9, <2>10, <2>11 DEF WindowOK
<1>11. CASE Head(viewer[v].posted) = "ready" /\ ~DeferOpen /\ OpenFresh(v, me)
  <2> DEFINE he == [me EXCEPT !.state = "Opening", !.term = 0]
  <2>1. /\ he \in Client /\ he.state = "Opening" /\ he.term = 0
        /\ he.link = me.link /\ he.dial = me.dial /\ he.outbox = me.outbox
        /\ he.posted = me.posted /\ he.lost = me.lost /\ he.retry = me.retry
        /\ he.picker = me.picker /\ he.picks = me.picks
    BY <1>2 DEF Client
  <2>2. Emit(v, he, <<Open(0)>>) /\ 0 \in Nat
    BY <1>11 DEF OpenFresh
  <2> HIDE DEF he
  <2>3. /\ OwnStep(v, {"Open"}) /\ Becomes(v, he)
        /\ he.link => viewer'[v].outbox = <<>>
        /\ he.link /\ Conn(v) \in up /\ he.outbox = <<>> =>
             toHost'[Conn(v)] = toHost[Conn(v)] \o <<Open(0)>>
    BY <1>3, <1>4, <1>8, <2>1, <2>2, EmitStep
  <2>4. /\ viewer'[v].state = "Opening" /\ viewer'[v].term = 0
        /\ viewer'[v].posted = me.posted /\ viewer'[v].picks = viewer[v].picks
        /\ viewer'[v].picker = viewer[v].picker
        /\ viewer'[v].lost = viewer[v].lost /\ viewer'[v].retry = viewer[v].retry
        /\ viewer'[v].link = viewer[v].link /\ viewer'[v].dial = viewer[v].dial
        /\ viewer[v].link <=> me.posted = <<>>
    BY <1>2, <1>3, <1>11, <2>1, <2>3 DEF Becomes, OwnStep
  <2>5. PicksOK(v)'
    BY <1>4, <1>7, <1>11, <2>3, <2>4, SendingPicks, ThreadPicks
  <2>6. FirstOK(v)'
    <3>1. First(v)' <=> First(v)
      BY <1>4, <2>4 DEF First
    <3>2. CASE First(v)
      <4>1. /\ toHost'[<<v, 1>>] = toHost[<<v, 1>>] \o <<Open(0)>>
            /\ viewer'[v].outbox = <<>> /\ viewer'[v].posted = <<>>
            /\ ~viewer'[v].picker /\ ~viewer'[v].lost /\ ~viewer'[v].retry
        BY <1>3, <1>6, <2>1, <2>3, <2>4, <3>2
      <4>2. Waits(viewer'[v])
        BY <2>4 DEF Waits
      <4>3. FirstOK(v) /\ Untouched(v)
        BY <1>6, <3>2 DEF WindowOK
      <4> QED
        BY <1>4, <2>2, <2>3, <2>4, <3>2, <4>1, <4>2, <4>3, FirstAsks
    <3> QED
      BY <3>1, <3>2 DEF FirstOK
  <2>7. BetweenLinks(v)'
    BY <2>4 DEF BetweenLinks
  <2>8. HeldOK(v)'
    BY <1>4, <1>7, <2>3, <2>4, SendingHeld DEF AskedOnce
  <2> QED
    BY <1>4, <2>3, <2>5, <2>6, <2>7, <2>8 DEF WindowOK
<1>12. CASE /\ Head(viewer[v].posted) = "lost"
            /\ viewer' = [viewer EXCEPT ![v] = [LostLink(me) EXCEPT !.lost = TRUE]]
            /\ UNCHANGED toHost
  <2> DEFINE he == [LostLink(me) EXCEPT !.lost = TRUE]
  <2>1. /\ he.state \in {"Idle", "Closed"} /\ (me.state = "Idle" => he.state = "Idle")
        /\ he.term = me.term /\ he.link = me.link /\ he.dial = me.dial
        /\ he.outbox = me.outbox /\ he.picker = me.picker /\ he.picks = me.picks
    BY <1>2 DEF Client, LostLink
  <2>2. viewer' = [viewer EXCEPT ![v] = he]
    BY <1>12
  <2> HIDE DEF he
  <2>3. viewer'[v] = he /\ \A w \in Viewers : w # v => viewer'[w] = viewer[w]
    BY <2>2 DEF Typed, ViewersTyped
  <2>4. OwnStep(v, {"Open", "Close"})
    BY <1>3, <1>4, <1>12, <2>1, <2>3 DEF OwnStep
  <2>5. Untouched(v) => Untouched(v)'
    <3>1. Untouched(v) => viewer'[v].state = "Idle" /\ viewer'[v].term = 0
      BY <1>3, <2>1, <2>3 DEF Untouched
    <3> QED
      BY <1>4, <2>4, <3>1, SendingPicks
  <2>6. PicksOK(v)'
    BY <1>3, <1>4, <1>7, <2>1, <2>3, <2>4, <2>5, SendingPicks, ThreadPicks
  <2>7. FirstOK(v)' /\ BetweenLinks(v)'
    BY <1>2, <1>12, <2>1, <2>3 DEF FirstOK, First, BetweenLinks, Waits
  <2>8. HeldOK(v)'
    BY <1>3, <1>4, <1>7, <2>1, <2>3, <2>4, SendingHeld DEF AskedOnce
  <2> QED
    BY <1>4, <2>4, <2>6, <2>7, <2>8 DEF WindowOK
<1> QED
  BY <1>5, <1>9, <1>10, <1>11, <1>12 DEF LinkReady

LEMMA FlushWindow ==
  ASSUME IInv, Typed, NEW v \in Viewers, WindowOK(v), viewer[v].dial > 0, Flush(v)
  PROVE  (\E types : OwnStep(v, types)) /\ UNCHANGED toViewer /\ WindowOK(v)'
<1> DEFINE me == viewer[v]
<1>1. me \in Client /\ me.link /\ me.outbox # <<>> /\ Emit(v, me, <<>>)
      /\ UNCHANGED <<host, up, toViewer>>
  BY DEF Typed, ViewersTyped, Flush
<1>2. <<>> \in Seq(Message) /\ Only("Open", <<>>) /\ Only("Close", <<>>)
  BY EmptySeq DEF Only
<1>3. OwnStep(v, {"Open"}) /\ OwnStep(v, {"Close"}) /\ Becomes(v, me)
  BY <1>1, <1>2, EmitStep
<1>4. /\ viewer'[v].state = me.state /\ viewer'[v].term = me.term
      /\ viewer'[v].posted = me.posted /\ viewer'[v].picks = me.picks
      /\ viewer'[v].picker = me.picker
      /\ viewer'[v].link = me.link /\ viewer'[v].dial = me.dial
  BY <1>3 DEF Becomes, OwnStep
<1>5. PicksOK(v)'
  <2>1. Untouched(v) => viewer'[v].state = "Idle" /\ viewer'[v].term = 0
    BY <1>4 DEF Untouched
  <2>2. (NoCloses(v) => NoCloses(v)') /\ (Untouched(v) => Untouched(v)')
    BY <1>1, <1>3, <2>1, SendingPicks
  <2> QED
    BY <1>4, <2>2, ThreadPicks DEF WindowOK
<1>6. FirstOK(v)' /\ BetweenLinks(v)'
  <2>1. ~First(v)
    BY <1>1 DEF WindowOK, FirstOK
  <2> QED
    BY <1>1, <1>4, <2>1 DEF FirstOK, First, BetweenLinks
<1>7. HeldOK(v)'
  BY <1>1, <1>3, <1>4, SendingHeld DEF WindowOK, AskedOnce
<1> QED
  BY <1>1, <1>3, <1>5, <1>6, <1>7 DEF WindowOK

\* The window that asks again for its shell, or gives up.
LEMMA RetryWindow ==
  ASSUME IInv, Typed, NEW v \in Viewers, WindowOK(v), viewer[v].dial > 0, RetryResume(v)
  PROVE  (\E types : OwnStep(v, types)) /\ UNCHANGED toViewer /\ WindowOK(v)'
<1> DEFINE me == [viewer[v] EXCEPT !.retry = FALSE]
<1>1. viewer[v] \in Client
  BY DEF Typed, ViewersTyped
<1>2. /\ me \in Client /\ me.state = viewer[v].state /\ me.term = viewer[v].term
      /\ me.link = viewer[v].link /\ me.dial = viewer[v].dial /\ me.outbox = viewer[v].outbox
      /\ me.posted = viewer[v].posted /\ me.lost = viewer[v].lost
      /\ me.picker = viewer[v].picker /\ me.picks = viewer[v].picks
  BY <1>1 DEF Client
<1>3. ~First(v)
  <2>1. ~viewer[v].retry => me = viewer[v]
    <3>1. viewer[v].retry \in BOOLEAN
      BY <1>1 DEF Client
    <3> QED
      BY <1>1, <3>1 DEF Client
  <2>2. me # viewer[v]
    BY DEF RetryResume
  <2> QED
    BY <2>1, <2>2 DEF WindowOK, FirstOK
<1>4. UNCHANGED <<host, up, toViewer>>
  BY DEF RetryResume
<1>5. \/ me.link /\ CanReattach(me) /\ Reattach(v, me)
      \/ /\ viewer' = [viewer EXCEPT ![v] = [me EXCEPT !.failed = me.lost]]
         /\ UNCHANGED toHost
  BY DEF RetryResume
<1> HIDE DEF me
<1>6. PicksOK(v) /\ HeldOK(v) /\ BetweenLinks(v)
  BY DEF WindowOK
<1>7. CASE me.link /\ CanReattach(me) /\ Reattach(v, me)
  <2> DEFINE he == [me EXCEPT !.state = "Reattaching"]
  <2>1. /\ he \in Client /\ he.state = "Reattaching" /\ he.term = me.term
        /\ he.link = me.link /\ he.dial = me.dial /\ he.outbox = me.outbox
        /\ he.posted = me.posted /\ he.picker = me.picker /\ he.picks = me.picks
    BY <1>2 DEF Client
  <2>2. Emit(v, he, <<Open(me.term)>>) /\ me.term \in Nat
    BY <1>2, <1>7 DEF Reattach, Client
  <2> HIDE DEF he
  <2>3. <<Open(me.term)>> \in Seq(Message) /\ Only("Open", <<Open(me.term)>>)
    BY <2>2, OneMessage
  <2>4. OwnStep(v, {"Open"}) /\ Becomes(v, he)
    BY <1>2, <1>4, <2>1, <2>2, <2>3, EmitStep
  <2>5. /\ viewer'[v].state = "Reattaching"
        /\ viewer'[v].picker = viewer[v].picker /\ viewer'[v].picks = viewer[v].picks
        /\ viewer'[v].link = viewer[v].link /\ viewer'[v].dial = viewer[v].dial
    BY <1>2, <2>1, <2>4 DEF Becomes, OwnStep
  <2>6. ~Untouched(v)
    BY <1>2, <1>7 DEF CanReattach, Untouched
  <2>7. PicksOK(v)'
    BY <1>4, <1>6, <2>4, <2>5, <2>6, SendingPicks, ThreadPicks
  <2>8. FirstOK(v)' /\ BetweenLinks(v)'
    BY <1>2, <1>3, <1>4, <1>7, <2>5 DEF FirstOK, First, BetweenLinks
  <2>9. HeldOK(v)'
    BY <1>4, <1>6, <2>4, <2>5, SendingHeld DEF AskedOnce
  <2> QED
    BY <1>4, <2>4, <2>7, <2>8, <2>9 DEF WindowOK
<1>8. CASE /\ viewer' = [viewer EXCEPT ![v] = [me EXCEPT !.failed = me.lost]]
           /\ UNCHANGED toHost
  <2> DEFINE he == [me EXCEPT !.failed = me.lost]
  <2>1. /\ he.state = me.state /\ he.term = me.term /\ he.link = me.link /\ he.dial = me.dial
        /\ he.outbox = me.outbox /\ he.picker = me.picker /\ he.picks = me.picks
        /\ he.posted = me.posted
    BY <1>2 DEF Client
  <2>2. viewer' = [viewer EXCEPT ![v] = he]
    BY <1>8
  <2> HIDE DEF he
  <2>3. viewer'[v] = he /\ \A w \in Viewers : w # v => viewer'[w] = viewer[w]
    BY <2>2 DEF Typed, ViewersTyped
  <2>4. OwnStep(v, {"Open", "Close"})
    BY <1>2, <1>4, <1>8, <2>1, <2>3 DEF OwnStep
  <2>5. Untouched(v) => Untouched(v)'
    <3>1. Untouched(v) => viewer'[v].state = "Idle" /\ viewer'[v].term = 0
      BY <1>2, <2>1, <2>3 DEF Untouched
    <3> QED
      BY <1>4, <2>4, <3>1, SendingPicks
  <2>6. PicksOK(v)'
    BY <1>2, <1>4, <1>6, <2>1, <2>3, <2>4, <2>5, SendingPicks, ThreadPicks
  <2>7. FirstOK(v)'
    BY <1>2, <1>3, <1>4, <2>1, <2>3 DEF FirstOK, First
  <2>8. BetweenLinks(v)'
    <3>1. Conn(v)' = Conn(v)
      BY <1>2, <2>1, <2>3 DEF Conn
    <3> QED
      BY <1>2, <1>4, <1>6, <2>1, <2>3, <3>1 DEF BetweenLinks, Waits, Granted
  <2>9. HeldOK(v)'
    BY <1>2, <1>4, <1>6, <2>1, <2>3, <2>4, SendingHeld DEF AskedOnce
  <2> QED
    BY <1>4, <2>4, <2>6, <2>7, <2>8, <2>9 DEF WindowOK
<1> QED
  BY <1>5, <1>7, <1>8

\* What the user picks: a shell for a window that had none, or whatever on a later pick.
LEMMA PickWindow ==
  ASSUME IInv, Typed, NEW v \in Viewers, WindowOK(v), viewer[v].dial > 0, Picks(v),
         NEW me \in Client, Becomes(v, me), me.picks = viewer[v].picks + 1,
         NEW types, OwnStep(v, types), UNCHANGED toViewer,
         me.posted = viewer[v].posted,
         me.state = "Open" => viewer[v].state = "Open" /\ me.term = viewer[v].term,
         viewer[v].picks = 0 =>
           "Open" \in types \/ (me.state = "Idle" /\ me.term = 0 /\ "Close" \in types),
         FirstOK(v)'
  PROVE  WindowOK(v)'
<1>1. viewer[v].picks \in Nat /\ viewer[v].dial \in Nat
  BY DEF Typed, ViewersTyped, Client
<1>2. /\ viewer'[v].state = me.state /\ viewer'[v].term = me.term
      /\ viewer'[v].posted = viewer[v].posted /\ viewer'[v].picks = viewer[v].picks + 1
      /\ viewer'[v].link = viewer[v].link /\ viewer'[v].dial = viewer[v].dial
  BY DEF Becomes, OwnStep
<1>3. DeferOpen
  BY DEF WindowOK, PicksOK, Picks
<1>4. viewer[v].picks = 0 => NoCloses(v) /\ Untouched(v)
  BY <1>3 DEF WindowOK, PicksOK
<1>5. PicksOK(v)'
  <2>1. viewer'[v].dial # 0
    BY <1>2
  <2>2. viewer'[v].picks # 0 /\ (viewer'[v].picks = 1 => viewer[v].picks = 0)
    BY <1>1, <1>2
  <2>3. viewer[v].picks = 0 => NoCloses(v)' \/ Untouched(v)'
    BY <1>2, <1>4, SendingPicks
  <2> QED
    BY <1>3, <2>1, <2>2, <2>3 DEF PicksOK
<1>6. BetweenLinks(v)'
  <2>1. viewer'[v].picks <= 1 => viewer[v].picks = 0
    BY <1>1, <1>2
  <2>2. viewer[v].picks = 0 => viewer'[v].state # "Open" /\ toViewer'[Conn(v)] = <<>>
    <3>1. Conn(v) \in Conns /\ Conn(v)[1] = v
      BY ConnTyped DEF Conn
    <3> QED
      BY <1>2, <1>4, <3>1 DEF Untouched
  <2>3. Conn(v)' = Conn(v)
    BY <1>2 DEF Conn
  <2> QED
    BY <2>1, <2>2, <2>3 DEF BetweenLinks
<1>7. HeldOK(v)'
  <2>1. AskedOnce(v)' => AskedOnce(v)
    BY <1>1, <1>2 DEF AskedOnce
  <2> QED
    BY <1>2, <2>1, SendingHeld DEF WindowOK
<1> QED
  BY <1>5, <1>6, <1>7 DEF WindowOK

\* On its first connection a user picks from the list only before a shell was asked for.
LEMMA FirstPick ==
  ASSUME Typed, NEW v \in Viewers, WindowOK(v), Picks(v), First(v)
  PROVE  /\ Untouched(v) /\ viewer[v].posted = <<>> /\ viewer[v].outbox = <<>>
         /\ ~viewer[v].lost /\ ~viewer[v].retry /\ viewer[v].link
         /\ Conn(v) = <<v, 1>> /\ Conn(v) \in up
BY DEF WindowOK, FirstOK, First, Picks, Conn

LEMMA UserWindow ==
  ASSUME IInv, Typed, NEW v \in Viewers, WindowOK(v), viewer[v].dial > 0, User(v)
  PROVE  (\E types : OwnStep(v, types)) /\ UNCHANGED toViewer /\ WindowOK(v)'
<1>1. UNCHANGED <<host, up, toViewer>> /\ Picks(v)
  BY DEF User, OpenNew, ResumeSession, CloseSession
<1>2. FirstOK(v)
  BY DEF WindowOK
<1>3. \A id \in Nat : /\ <<Open(id)>> \in Seq(Message) /\ Only("Open", <<Open(id)>>)
                      /\ <<Close(id)>> \in Seq(Message) /\ Only("Close", <<Close(id)>>)
  BY OneMessage
<1>4. ASSUME NEW types, OwnStep(v, types) PROVE First(v)' <=> First(v)
  BY <1>4 DEF OwnStep, First
<1>5. CASE OpenNew(v)
  <2> DEFINE he == [Picked(v) EXCEPT !.state = "Opening", !.term = 0]
  <2>1. /\ he \in Client /\ he.state = "Opening" /\ he.term = 0
        /\ he.link = Picked(v).link /\ he.dial = Picked(v).dial /\ he.outbox = Picked(v).outbox
        /\ he.posted = Picked(v).posted /\ he.lost = Picked(v).lost
        /\ he.retry = Picked(v).retry /\ he.picker = Picked(v).picker
        /\ he.picks = Picked(v).picks
    <3>1. PICK p \in Client : p = Picked(v)
      BY PickedTyped
    <3>2. he \in Client
      BY <3>1 DEF Client
    <3> QED
      BY <3>1, <3>2 DEF Client
  <2>2. Emit(v, he, <<Open(0)>>)
    BY <1>5 DEF OpenNew, OpenFresh
  <2> <<Open(0)>> \in Seq(Message) /\ Only("Open", <<Open(0)>>) /\ 0 \in Nat
    BY <1>3
  <2> HIDE DEF he
  <2>3. /\ he.link = viewer[v].link /\ he.dial = viewer[v].dial /\ he.outbox = viewer[v].outbox
        /\ he.posted = viewer[v].posted /\ he.lost = viewer[v].lost
        /\ he.retry = viewer[v].retry /\ he.picker = FALSE
        /\ he.picks = viewer[v].picks + 1
    BY <2>1, PickedTyped
  <2>4. /\ OwnStep(v, {"Open"}) /\ Becomes(v, he)
        /\ he.link => viewer'[v].outbox = <<>>
        /\ he.link /\ Conn(v) \in up /\ he.outbox = <<>> =>
             toHost'[Conn(v)] = toHost[Conn(v)] \o <<Open(0)>>
    BY <1>1, <2>1, <2>2, <2>3, EmitStep
  <2>5. FirstOK(v)'
    <3>1. CASE First(v)
      <4>1. /\ toHost'[<<v, 1>>] = toHost[<<v, 1>>] \o <<Open(0)>>
            /\ viewer'[v].outbox = <<>> /\ viewer'[v].posted = <<>>
            /\ ~viewer'[v].picker /\ ~viewer'[v].lost /\ ~viewer'[v].retry
        BY <1>1, <2>3, <2>4, <3>1, FirstPick DEF Becomes
      <4>2. viewer'[v].state = "Opening" /\ viewer'[v].term = 0 /\ Waits(viewer'[v])
        BY <2>1, <2>4 DEF Waits, Becomes
      <4>3. Untouched(v)
        BY <1>1, <3>1, FirstPick
      <4> QED
        BY <1>1, <1>2, <2>4, <3>1, <4>1, <4>2, <4>3, FirstAsks
    <3> QED
      BY <1>4, <2>4, <3>1 DEF FirstOK
  <2>6. he.state # "Open" /\ "Open" \in {"Open"} /\ OwnStep(v, {"Open"}) /\ Becomes(v, he)
    BY <2>1, <2>4
  <2>7. WindowOK(v)'
    BY <1>1, <2>1, <2>3, <2>5, <2>6, PickWindow
  <2> QED
    BY <1>1, <2>4, <2>7
<1>6. ASSUME NEW id \in Ids, ResumeSession(v, id), viewer[v].state \notin {"Open", "Closed"},
             Reattach(v, [Picked(v) EXCEPT !.term = id])
      PROVE  (\E types : OwnStep(v, types)) /\ UNCHANGED toViewer /\ WindowOK(v)'
  <2> DEFINE she == [Picked(v) EXCEPT !.term = id]
             he == [she EXCEPT !.state = "Reattaching"]
  <2>1. id \in Nat /\ id # 0
    BY DEF Ids, IInv, ShellsInv
  <2>2. /\ she \in Client /\ she.term = id
        /\ she.link = Picked(v).link /\ she.dial = Picked(v).dial /\ she.outbox = Picked(v).outbox
        /\ she.posted = Picked(v).posted /\ she.lost = Picked(v).lost
        /\ she.retry = Picked(v).retry /\ she.picker = Picked(v).picker
        /\ she.picks = Picked(v).picks
    BY <2>1, PickedTyped DEF Client
  <2>3. Emit(v, he, <<Open(she.term)>>)
    BY <1>6 DEF Reattach
  <2> HIDE DEF she
  <2>4. /\ he \in Client /\ he.state = "Reattaching" /\ he.term = she.term
        /\ he.link = she.link /\ he.dial = she.dial /\ he.outbox = she.outbox
        /\ he.posted = she.posted /\ he.lost = she.lost
        /\ he.retry = she.retry /\ he.picker = she.picker /\ he.picks = she.picks
    BY <2>2 DEF Client
  <2> HIDE DEF he
  <2>5. /\ he.link = viewer[v].link /\ he.dial = viewer[v].dial /\ he.outbox = viewer[v].outbox
        /\ he.posted = viewer[v].posted /\ he.lost = viewer[v].lost
        /\ he.retry = viewer[v].retry /\ he.picker = FALSE
        /\ he.picks = viewer[v].picks + 1 /\ he.term = id
    BY <2>2, <2>4, PickedTyped
  <2>6. Emit(v, he, <<Open(id)>>)
    BY <2>2, <2>3
  <2>7. /\ OwnStep(v, {"Open"}) /\ Becomes(v, he)
        /\ he.link => viewer'[v].outbox = <<>>
        /\ he.link /\ Conn(v) \in up /\ he.outbox = <<>> =>
             toHost'[Conn(v)] = toHost[Conn(v)] \o <<Open(id)>>
    BY <1>1, <1>3, <2>1, <2>4, <2>5, <2>6, EmitStep
  <2>8. FirstOK(v)'
    <3>1. CASE First(v)
      <4>1. /\ toHost'[<<v, 1>>] = toHost[<<v, 1>>] \o <<Open(id)>>
            /\ viewer'[v].outbox = <<>> /\ viewer'[v].posted = <<>>
            /\ ~viewer'[v].picker /\ ~viewer'[v].lost /\ ~viewer'[v].retry
        BY <1>1, <2>5, <2>7, <3>1, FirstPick DEF Becomes
      <4>2. viewer'[v].state = "Reattaching" /\ viewer'[v].term = id /\ Waits(viewer'[v])
        BY <2>4, <2>5, <2>7 DEF Waits, Becomes
      <4>3. Untouched(v)
        BY <1>1, <3>1, FirstPick
      <4> QED
        BY <1>1, <1>2, <2>1, <2>7, <3>1, <4>1, <4>2, <4>3, FirstAsks
    <3> QED
      BY <1>4, <2>7, <3>1 DEF FirstOK
  <2>9. he.state # "Open" /\ "Open" \in {"Open"} /\ OwnStep(v, {"Open"}) /\ Becomes(v, he)
    BY <2>4, <2>7
  <2>10. WindowOK(v)'
    BY <1>1, <2>4, <2>5, <2>8, <2>9, PickWindow
  <2> QED
    BY <1>1, <2>7, <2>10
<1>7. CASE viewer[v].state \in {"Open", "Closed"} /\ Emit(v, Picked(v), <<>>)
  <2> DEFINE he == Picked(v)
  <2>1. <<>> \in Seq(Message) /\ Only("Open", <<>>)
    BY EmptySeq DEF Only
  <2>2. he \in Client
    BY PickedTyped
  <2>3. /\ he.link = viewer[v].link /\ he.dial = viewer[v].dial /\ he.outbox = viewer[v].outbox
        /\ he.state = viewer[v].state /\ he.term = viewer[v].term
        /\ he.posted = viewer[v].posted /\ he.picks = viewer[v].picks + 1
    BY PickedTyped
  <2>4. Emit(v, he, <<>>)
    BY <1>7
  <2> HIDE DEF he
  <2>5. OwnStep(v, {"Open"}) /\ Becomes(v, he)
    BY <1>1, <2>1, <2>2, <2>3, <2>4, EmitStep
  <2>6. FirstOK(v)'
    <3>1. ~First(v)
      BY <1>1, <1>7, FirstPick DEF Untouched
    <3> QED
      BY <1>4, <2>5, <3>1 DEF FirstOK
  <2>7. WindowOK(v)'
    BY <1>1, <2>2, <2>3, <2>5, <2>6, PickWindow
  <2> QED
    BY <1>1, <2>5, <2>7
<1>8. ASSUME NEW id \in Ids, CloseSession(v, id)
      PROVE  (\E types : OwnStep(v, types)) /\ UNCHANGED toViewer /\ WindowOK(v)'
  <2> DEFINE left == Left(Picked(v), id)
             he == [left EXCEPT !.picker = TRUE]
  <2>1. id \in Nat /\ id # 0
    BY DEF Ids, IInv, ShellsInv
  <2>2. /\ left \in Client
        /\ left.link = Picked(v).link /\ left.dial = Picked(v).dial
        /\ left.outbox = Picked(v).outbox /\ left.posted = Picked(v).posted
        /\ left.lost = Picked(v).lost /\ left.retry = Picked(v).retry
        /\ left.picks = Picked(v).picks
    <3>1. left \in Client
      BY <2>1, PickedTyped, ClientsStayClients
    <3> QED
      BY <3>1, PickedTyped DEF Left, Client
  <2>3. \/ left.state = Picked(v).state /\ left.term = Picked(v).term
        \/ left.state = "Closed" /\ Picked(v).term # 0
    BY <2>1, PickedTyped DEF Left, Client
  <2>4. Emit(v, he, <<Close(id)>>)
    BY <1>8 DEF CloseSession
  <2> HIDE DEF left
  <2>5. /\ he \in Client /\ he.state = left.state /\ he.term = left.term
        /\ he.link = left.link /\ he.dial = left.dial /\ he.outbox = left.outbox
        /\ he.posted = left.posted /\ he.lost = left.lost
        /\ he.retry = left.retry /\ he.picks = left.picks
    BY <2>2 DEF Client
  <2> HIDE DEF he
  <2>6. /\ he.link = viewer[v].link /\ he.dial = viewer[v].dial /\ he.outbox = viewer[v].outbox
        /\ he.posted = viewer[v].posted /\ he.lost = viewer[v].lost
        /\ he.retry = viewer[v].retry /\ he.picks = viewer[v].picks + 1
    BY <2>2, <2>5, PickedTyped
  <2>7. \/ he.state = viewer[v].state /\ he.term = viewer[v].term
        \/ he.state = "Closed" /\ viewer[v].term # 0
    BY <2>3, <2>5, PickedTyped
  <2>8. /\ OwnStep(v, {"Close"}) /\ Becomes(v, he)
        /\ he.link => viewer'[v].outbox = <<>>
    BY <1>1, <1>3, <2>1, <2>4, <2>5, <2>6, EmitStep
  <2>9. Untouched(v) => he.state = "Idle" /\ he.term = 0
    BY <2>7 DEF Untouched
  <2>10. Untouched(v) => Untouched(v)'
    <3>1. Untouched(v) => viewer'[v].state = "Idle" /\ viewer'[v].term = 0
      BY <2>8, <2>9 DEF Becomes
    <3> QED
      BY <1>1, <2>8, <3>1, SendingPicks
  <2>11. FirstOK(v)'
    <3>1. CASE First(v)
      <4>1. /\ viewer'[v].outbox = <<>> /\ viewer'[v].posted = <<>>
            /\ ~viewer'[v].lost /\ ~viewer'[v].retry /\ Untouched(v)'
        BY <1>1, <2>6, <2>8, <2>10, <3>1, FirstPick DEF Becomes
      <4> QED
        BY <4>1 DEF FirstOK
    <3> QED
      BY <1>4, <2>8, <3>1 DEF FirstOK
  <2>12. viewer[v].picks = 0 => he.state = "Idle" /\ he.term = 0
    BY <1>1, <2>9 DEF WindowOK, PicksOK, Picks
  <2> QED
    BY <1>1, <2>5, <2>6, <2>7, <2>8, <2>11, <2>12, PickWindow
<1> QED
  BY <1>5, <1>6, <1>7, <1>8 DEF User, ResumeSession

\* What a client makes of a message of the host.
Heard(me, m) == IF m.type = "Ack" THEN Acknowledged(me, m) ELSE Ended(me, m.id)

LEMMA HeardShape ==
  ASSUME NEW me \in Client, NEW m \in Answer
  PROVE  LET he == Heard(me, m) IN
         /\ he.link = me.link /\ he.dial = me.dial /\ he.outbox = me.outbox
         /\ he.posted = me.posted /\ he.picker = me.picker /\ he.picks = me.picks
         /\ (he.lost => me.lost) /\ (he.retry => me.retry \/ me.lost)
         /\ Waits(he) => Waits(me) /\ m.type # "Ack"
         /\ he.state = "Open" =>
              \/ Waits(me) /\ Granted(m) /\ he.term = m.id
              \/ me.state = "Open" /\ he.term = me.term /\ m # Exit(me.term)
         /\ Waits(me) /\ Granted(m) => he.state = "Open" /\ he.term = m.id
         /\ me.state = "Open" /\ m.type # "Ack" /\ m.id # me.term => he = me
<1>1. CASE m.type = "Ack"
  <2>1. m # Exit(me.term)
    BY <1>1, ExitShape
  <2>2. Heard(me, m) = Acknowledged(me, m)
    BY <1>1 DEF Heard
  <2>3. CASE Acknowledged(me, m) = me /\ ~Waits(me)
    BY <1>1, <2>1, <2>2, <2>3 DEF Waits
  <2>4. CASE /\ Waits(me) /\ m.reason = "Accepted"
             /\ Acknowledged(me, m) = [me EXCEPT !.state = "Open", !.term = m.id, !.lost = FALSE,
                                                 !.retry = FALSE]
    BY <1>1, <2>1, <2>2, <2>4 DEF Client, Waits, Granted
  <2>5. CASE m.reason # "Accepted" /\ Acknowledged(me, m) = AskAgain(me)
    BY <1>1, <2>1, <2>2, <2>5 DEF Client, Waits, Granted, AskAgain
  <2>6. CASE /\ m.reason # "Accepted"
             /\ Acknowledged(me, m) = [me EXCEPT !.state = "Refused", !.term = 0]
    BY <1>1, <2>1, <2>2, <2>6 DEF Client, Waits, Granted
  <2> QED
    BY <2>3, <2>4, <2>5, <2>6 DEF Acknowledged, Waits
<1>2. CASE m.type # "Ack"
  <2>1. Heard(me, m) = Ended(me, m.id)
    BY <1>2 DEF Heard
  <2>2. CASE m.id # me.term
    BY <1>2, <2>1, <2>2, ExitShape DEF Ended, Granted
  <2>3. CASE m.id = me.term
    BY <1>2, <2>1, <2>3 DEF Ended, Granted, Client, Waits
  <2> QED
    BY <2>2, <2>3
<1> QED
  BY <1>1, <1>2

\* A shell held stays so while the messages before its end are taken.
LEMMA HeldShifts ==
  ASSUME UNCHANGED shells, NEW c, toViewer[c] \in Seq(Answer), toViewer[c] # <<>>,
         toViewer'[c] = Tail(toViewer[c]),
         NEW id, NEW k \in Nat \ {0}, Held(id, c, k + 1)
  PROVE  Held(id, c, k)'
<1> DEFINE s == toViewer[c]
<1>1. /\ Len(s) \in Nat \ {0} /\ Len(Tail(s)) = Len(s) - 1
      /\ \A i \in 1..Len(s) - 1 : Tail(s)[i] = s[i + 1]
  BY TailShifts
<1>2. CASE Mine(id, c)
  BY <1>2 DEF Held, Mine
<1>3. CASE \E j \in (k + 1)..Len(s) : s[j] = Exit(id)
  <2>1. PICK j \in (k + 1)..Len(s) : s[j] = Exit(id)
    BY <1>3
  <2>2. j - 1 \in k..Len(Tail(s)) /\ j - 1 \in 1..Len(s) - 1 /\ (j - 1) + 1 = j
    BY <1>1, <2>1
  <2>3. PICK i : i = j - 1
    OBVIOUS
  <2>4. i \in k..Len(Tail(s)) /\ Tail(s)[i] = Exit(id)
    BY <1>1, <2>1, <2>2, <2>3
  <2> QED
    BY <2>4 DEF Held, Exit
<1> QED
  BY <1>2, <1>3 DEF Held

LEMMA HeardWindow ==
  ASSUME IInv, Typed, NetworkOK, NEW v \in Viewers, WindowOK(v), ClientHandlesMessage(v)
  PROVE  (\E types : OwnStep(v, types)) /\ NetworkOK' /\ WindowOK(v)'
<1>1. PICK c : c = Conn(v)
  OBVIOUS
<1>2. /\ c \in Conns /\ c[1] = v /\ c[2] = viewer[v].dial /\ viewer[v].dial > 0
      /\ toViewer[c] # <<>>
  BY <1>1, ConnTyped DEF ClientHandlesMessage, Conn
<1>3. toViewer[c] \in Seq(Said) /\ toViewer[c] \in Seq(Answer)
  <2>1. Said \subseteq Answer
    BY DEF Said
  <2>2. \A s \in Seq(Said) : s \in Seq(Answer)
    BY <2>1, SeqMonotonic, Zenon
  <2> QED
    BY <1>2, <2>2 DEF Typed, MailTyped
<1>4. PICK s, m : s = toViewer[c] /\ m = Head(toViewer[c])
  OBVIOUS
<1>5. /\ Tail(s) \in Seq(Answer) /\ Len(s) \in Nat \ {0} /\ Len(Tail(s)) = Len(s) - 1
      /\ m = s[1] /\ m \in Answer
      /\ \A i \in 1..Len(s) - 1 : Tail(s)[i] = s[i + 1]
  BY <1>2, <1>3, <1>4, TailShifts
<1>6. PICK he : he = Heard(viewer[v], m)
  OBVIOUS
<1>7. /\ viewer' = [viewer EXCEPT ![v] = he]
      /\ toViewer' = [toViewer EXCEPT ![c] = Tail(s)]
      /\ UNCHANGED <<host, up, toHost>>
  BY <1>1, <1>4, <1>6 DEF ClientHandlesMessage, Heard
<1>8. viewer'[v] = he /\ \A w \in Viewers : w # v => viewer'[w] = viewer[w]
  BY <1>7 DEF Typed, ViewersTyped
<1>9. toViewer'[c] = Tail(s) /\ \A d \in Conns : d # c => toViewer'[d] = toViewer[d]
  BY <1>2, <1>7 DEF Typed, MailTyped
<1>10. PICK me \in Client : me = viewer[v]
  BY DEF Typed, ViewersTyped
<1>11. /\ he.link = me.link /\ he.dial = me.dial /\ he.outbox = me.outbox
       /\ he.posted = me.posted /\ he.picker = me.picker /\ he.picks = me.picks
       /\ (he.lost => me.lost) /\ (he.retry => me.retry \/ me.lost)
       /\ Waits(he) => Waits(me) /\ m.type # "Ack"
       /\ he.state = "Open" =>
            \/ Waits(me) /\ Granted(m) /\ he.term = m.id
            \/ me.state = "Open" /\ he.term = me.term /\ m # Exit(me.term)
       /\ Waits(me) /\ Granted(m) => he.state = "Open" /\ he.term = m.id
       /\ me.state = "Open" /\ m.type # "Ack" /\ m.id # me.term => he = me
  BY <1>5, <1>6, <1>10, HeardShape
<1>12. OwnStep(v, {"Open", "Close"})
  BY <1>1, <1>2, <1>7, <1>8, <1>9, <1>10, <1>11 DEF OwnStep
<1>13. NetworkOK'
  <2>1. \A d \in Conns : NotDialled(d)' = NotDialled(d)
    BY <1>8, <1>10, <1>11, ConnShape DEF NotDialled
  <2>2. ~NotDialled(c)
    BY <1>2 DEF NotDialled, Typed, ViewersTyped, Client
  <2>3. NotYet' /\ GoneIsDown'
    BY <1>7, <1>9, <2>1, <2>2 DEF NetworkOK, NotYet, GoneIsDown, host
  <2>4. ASSUME NEW d \in Conns, NEW i \in 1..Len(toViewer'[d]), toViewer'[d][i].type = "Exit"
        PROVE  \A id \in DOMAIN shells : id = toViewer'[d][i].id => shells[id].state = "Local"
    <3>1. CASE d # c
      BY <1>9, <2>4, <3>1 DEF NetworkOK, EndsAreFinal
    <3>2. CASE d = c
      <4>1. i + 1 \in 1..Len(toViewer[c]) /\ toViewer'[d][i] = toViewer[c][i + 1]
        <5>1. i \in 1..Len(Tail(s)) /\ toViewer'[d][i] = Tail(s)[i]
          BY <1>9, <2>4, <3>2
        <5>2. i \in 1..Len(s) - 1 /\ i + 1 \in 1..Len(s)
          BY <1>5, <5>1
        <5> QED
          BY <1>4, <1>5, <5>1, <5>2
      <4> QED
        BY <2>4, <3>2, <4>1 DEF NetworkOK, EndsAreFinal
    <3> QED
      BY <3>1, <3>2
  <2>5. EndsAreFinal'
    BY <1>7, <2>4 DEF EndsAreFinal, host
  <2> QED
    BY <2>3, <2>5 DEF NetworkOK
<1>14. ~Untouched(v)
  BY <1>2 DEF Untouched
<1>15. PicksOK(v)'
  <2>1. NoCloses(v) => NoCloses(v)'
    BY <1>7, <1>8, <1>10, <1>11 DEF NoCloses
  <2> QED
    BY <1>2, <1>8, <1>10, <1>11, <1>14, <2>1, ThreadPicks DEF WindowOK
<1>16. FirstOK(v)'
  <2> SUFFICES ASSUME First(v) PROVE FirstOK(v)'
    BY <1>7, <1>8, <1>10, <1>11 DEF FirstOK, First
  <2>1. c = <<v, 1>>
    BY <1>1 DEF Conn, First
  <2>2. /\ ~me.lost /\ ~me.retry /\ me.outbox = <<>> /\ ~me.picker /\ me.posted = <<>>
        /\ Answered(v, c) \/ Settled(v, c)
    BY <1>2, <1>10, <1>14, <2>1 DEF WindowOK, FirstOK, Asked
  <2>3. \A id \in DOMAIN shells' : Mine(id, c)' <=> Mine(id, c)
    BY <1>7 DEF Mine, host
  <2>4. ~Waits(he) /\ Only("Exit", Tail(s))
        /\ \A id \in DOMAIN shells : Mine(id, c) => he.state = "Open" /\ he.term = id
    <3>1. CASE Answered(v, c)
      <4>1. /\ Waits(me) /\ m.type = "Ack"
            /\ \A i \in 1..Len(s) : s[i].type = IF i = 1 THEN "Ack" ELSE "Exit"
            /\ \A id \in DOMAIN shells : Mine(id, c) => Granted(m) /\ m.id = id
        BY <1>4, <1>5, <1>10, <3>1 DEF Answered
      <4>2. ASSUME NEW i \in 1..Len(Tail(s)) PROVE Tail(s)[i].type = "Exit"
        <5>1. i + 1 \in 1..Len(s) /\ i + 1 # 1 /\ Tail(s)[i] = s[i + 1]
          BY <1>5
        <5> QED
          BY <4>1, <5>1
      <4> QED
        BY <1>11, <4>1, <4>2 DEF Only
    <3>2. CASE Settled(v, c)
      <4>1. /\ ~Waits(me) /\ Only("Exit", s)
            /\ \A id \in DOMAIN shells : Mine(id, c) => me.state = "Open" /\ me.term = id
        BY <1>4, <1>10, <3>2 DEF Settled
      <4>2. m.type = "Exit" /\ Only("Exit", Tail(s))
        <5>1. s \in Seq(Answer) /\ s # <<>>
          BY <1>2, <1>3, <1>4
        <5> QED
          BY <1>4, <4>1, <5>1, OnlySome
      <4>3. \A id \in DOMAIN shells : Mine(id, c) => m.id # id
        <5>1. \A id \in DOMAIN shells : id = m.id => shells[id].state = "Local"
          BY <1>2, <1>4, <1>5, <4>2 DEF NetworkOK, EndsAreFinal
        <5> QED
          BY <5>1 DEF Mine
      <4> QED
        BY <1>11, <4>1, <4>2, <4>3
    <3> QED
      BY <2>2, <3>1, <3>2
  <2>5. toHost'[c] = <<>>
    BY <1>7, <2>2 DEF Answered, Settled
  <2>6. Settled(v, c)'
    BY <1>7, <1>8, <1>9, <2>3, <2>4, <2>5 DEF Settled, Waits, host
  <2> QED
    BY <1>8, <1>11, <2>1, <2>2, <2>6 DEF FirstOK
<1>17. BetweenLinks(v)'
  <2> SUFFICES ASSUME me.picks <= 1, ~me.link, me.posted = <<>>
               PROVE  /\ he.state # "Open"
                      /\ Waits(he) => \A i \in 1..Len(Tail(s)) : ~Granted(Tail(s)[i])
    <3>1. Conn(v)' = c
      BY <1>1, <1>8, <1>10, <1>11 DEF Conn
    <3> QED
      BY <1>8, <1>9, <1>11, <3>1 DEF BetweenLinks, Waits, Granted
  <2>1. me.state # "Open" /\ (Waits(me) => \A i \in 1..Len(s) : ~Granted(s[i]))
    BY <1>1, <1>2, <1>4, <1>10 DEF WindowOK, BetweenLinks
  <2>2. he.state # "Open"
    BY <1>5, <1>11, <2>1
  <2>3. ASSUME Waits(he), NEW i \in 1..Len(Tail(s)) PROVE ~Granted(Tail(s)[i])
    <3>1. i + 1 \in 1..Len(s) /\ Tail(s)[i] = s[i + 1]
      BY <1>5
    <3> QED
      BY <1>11, <2>1, <2>3, <3>1
  <2> QED
    BY <2>2, <2>3
<1>18. HeldOK(v)'
  <2> SUFFICES ASSUME sharing, AskedOnce(v), Reaches(c)
               PROVE  HeldAt(v, c)'
    <3>1. Conn(v)' = c /\ (Reaches(c)' <=> Reaches(c)) /\ (AskedOnce(v)' <=> AskedOnce(v))
      BY <1>1, <1>2, <1>7, <1>8, <1>10, <1>11 DEF Conn, Reaches, AskedOnce
    <3> QED
      BY <1>7, <3>1 DEF HeldOK, host
  <2>1. HeldAt(v, c)
    BY <1>1, <1>2 DEF WindowOK, HeldOK
  <2>2. ASSUME NEW id, NEW k \in Nat \ {0}, Held(id, c, k + 1) PROVE Held(id, c, k)'
    <3>1. toViewer'[c] = Tail(toViewer[c]) /\ UNCHANGED shells
      BY <1>4, <1>7, <1>9 DEF host
    <3> QED
      BY <1>2, <1>3, <2>2, <3>1, HeldShifts
  <2>3. ASSUME NEW i \in 1..Len(Tail(s)), Granted(Tail(s)[i])
        PROVE  Held(Tail(s)[i].id, c, i + 1)'
    <3>1. i + 1 \in 1..Len(s) /\ Tail(s)[i] = s[i + 1] /\ i \in Nat
      BY <1>5
    <3>2. PICK id : id = s[i + 1].id
      OBVIOUS
    <3>3. Held(id, c, (i + 1) + 1)
      BY <1>4, <2>1, <2>3, <3>1, <3>2 DEF HeldAt
    <3>4. i + 1 \in Nat \ {0}
      BY <3>1
    <3>5. Held(id, c, i + 1)'
      BY <2>2, <3>3, <3>4
    <3>6. Tail(s)[i].id = id
      BY <3>1, <3>2
    <3> QED
      BY <3>5, <3>6 DEF Held, Mine, Exit
  <2>4. ASSUME he.state = "Open" PROVE Held(he.term, c, 1)'
    <3>1. PICK id : id = he.term
      OBVIOUS
    <3>2. Held(id, c, 1 + 1)
      <4>1. CASE Waits(me) /\ Granted(m) /\ he.term = m.id
        BY <1>4, <1>5, <2>1, <3>1, <4>1 DEF HeldAt
      <4>2. CASE me.state = "Open" /\ he.term = me.term /\ m # Exit(me.term)
        <5>1. Held(id, c, 1) /\ m # Exit(id)
          BY <1>10, <2>1, <3>1, <4>2 DEF HeldAt
        <5>2. ASSUME NEW j \in 1..Len(s), s[j] = Exit(id) PROVE j \in (1 + 1)..Len(s)
          BY <1>5, <5>1, <5>2
        <5> QED
          BY <1>4, <5>1, <5>2 DEF Held
      <4> QED
        BY <1>11, <2>4, <4>1, <4>2
    <3>3. Held(id, c, 1)'
      BY <2>2, <3>2
    <3> QED
      BY <3>1, <3>3 DEF Held, Mine, Exit
  <2>5. toViewer'[c] = Tail(s) /\ viewer'[v] = he
    BY <1>8, <1>9
  <2> QED
    BY <2>3, <2>4, <2>5 DEF HeldAt, Granted
<1> QED
  BY <1>12, <1>13, <1>15, <1>16, <1>17, <1>18 DEF WindowOK

\* A step of viewer v's own thread, or of its user.
LEMMA ViewerWindows ==
  ASSUME IInv, Typed, NetworkOK, \A w \in Viewers : WindowOK(w),
         NEW v \in Viewers, ViewerThread(v) \/ User(v)
  PROVE  NetworkOK' /\ \A w \in Viewers : WindowOK(w)'
<1>1. viewer[v].dial > 0
  BY ActiveDialled DEF WindowOK
<1>2. (\E types : OwnStep(v, types)) /\ (NetworkOK' \/ UNCHANGED toViewer) /\ WindowOK(v)'
  BY <1>1, CommandWindow, HeardWindow, FlushWindow, RetryWindow, UserWindow DEF ViewerThread
<1>3. PICK types : OwnStep(v, types)
  BY <1>2
<1> QED
  BY <1>2, <1>3, OwnOthers

\* What is lost of a sequence of messages is its end.
LEMMA Prefix ==
  ASSUME NEW S, NEW s \in Seq(S), NEW n \in 0..Len(s)
  PROVE  /\ Len(SubSeq(s, 1, n)) = n /\ n <= Len(s) /\ n \in Nat
         /\ \A i \in 1..n : SubSeq(s, 1, n)[i] = s[i] /\ i \in 1..Len(s)
         /\ s = <<>> => SubSeq(s, 1, n) = <<>>
<1>1. Len(s) \in Nat /\ n \in Nat
  BY LenProperties
<1>2. SubSeq(s, 1, n) \in Seq(S) /\ Len(SubSeq(s, 1, n)) = n
  BY <1>1
<1>3. \A i \in 1..n : SubSeq(s, 1, n)[i] = s[i] /\ i \in 1..Len(s)
  BY <1>1
<1>4. s = <<>> => n = 0
  BY <1>1
<1>5. Len(SubSeq(s, 1, n)) = 0 => SubSeq(s, 1, n) = <<>>
  BY <1>2, EmptySeq, Zenon
<1> QED
  BY <1>1, <1>2, <1>3, <1>4, <1>5

LEMMA LostWindows ==
  ASSUME IInv, Typed, NetworkOK, \A w \in Viewers : WindowOK(w), NEW v \in Viewers, LinkLost(v)
  PROVE  NetworkOK' /\ \A w \in Viewers : WindowOK(w)'
<1>1. viewer[v] \in Client /\ viewer[v].link /\ PostedOK(viewer[v]) /\ UNCHANGED <<host, up>>
  BY DEF Typed, ViewersTyped, LinkLost
<1>2. viewer[v].dial > 0
  <2>1. viewer[v].dial \in Nat
    BY <1>1 DEF Client
  <2> QED
    BY <1>1, <2>1 DEF WindowOK, PicksOK, NewViewer
<1>3. PICK c : c = Conn(v)
  OBVIOUS
<1>4. c \in Conns /\ c[1] = v /\ c[2] = viewer[v].dial /\ ~NotDialled(c)
  BY <1>1, <1>2, <1>3, ConnTyped DEF Conn, NotDialled, Client
<1>5. PICK n \in 0..Len(toHost[c]), m \in 0..Len(toViewer[c]) :
        /\ toHost' = [toHost EXCEPT ![c] = SubSeq(@, 1, n)]
        /\ toViewer' = [toViewer EXCEPT ![c] = SubSeq(@, 1, m)]
  BY <1>3 DEF LinkLost
<1>6. /\ toHost[c] \in Seq(Message) /\ toViewer[c] \in Seq(Said)
      /\ toHost'[c] = SubSeq(toHost[c], 1, n) /\ toViewer'[c] = SubSeq(toViewer[c], 1, m)
      /\ \A d \in Conns : d # c => toHost'[d] = toHost[d] /\ toViewer'[d] = toViewer[d]
  BY <1>4, <1>5 DEF Typed, MailTyped
<1> DEFINE cut == [viewer[v] EXCEPT !.link = FALSE, !.posted = Append(@, "lost")]
<1>7. cut.posted # <<>>
  BY <1>1, CutTyped
<1>8. /\ cut.state = viewer[v].state /\ cut.term = viewer[v].term /\ cut.link = FALSE
      /\ cut.dial = viewer[v].dial /\ cut.outbox = viewer[v].outbox
      /\ cut.picker = viewer[v].picker /\ cut.picks = viewer[v].picks
  BY <1>1 DEF Client
<1>9. viewer' = [viewer EXCEPT ![v] = cut]
  BY DEF LinkLost
<1> HIDE DEF cut
<1>10. viewer'[v] = cut /\ \A w \in Viewers : w # v => viewer'[w] = viewer[w]
  BY <1>9 DEF Typed, ViewersTyped
<1>11. NetworkOK'
  <2>1. \A d \in Conns : NotDialled(d)' = NotDialled(d)
    BY <1>8, <1>10, ConnShape DEF NotDialled
  <2>2. NotYet' /\ GoneIsDown'
    BY <1>1, <1>4, <1>6, <2>1 DEF NetworkOK, NotYet, GoneIsDown, host
  <2>3. ASSUME NEW d \in Conns, NEW i \in 1..Len(toViewer'[d]), toViewer'[d][i].type = "Exit"
        PROVE  \A id \in DOMAIN shells : id = toViewer'[d][i].id => shells[id].state = "Local"
    <3>1. CASE d # c
      BY <1>6, <2>3, <3>1 DEF NetworkOK, EndsAreFinal
    <3>2. CASE d = c
      <4>1. i \in 1..Len(toViewer[c]) /\ toViewer'[d][i] = toViewer[c][i]
        BY <1>6, <2>3, <3>2, Prefix
      <4> QED
        BY <2>3, <3>2, <4>1 DEF NetworkOK, EndsAreFinal
    <3> QED
      BY <3>1, <3>2
  <2>4. EndsAreFinal'
    BY <1>1, <2>3 DEF EndsAreFinal, host
  <2> QED
    BY <2>2, <2>4 DEF NetworkOK
<1>12. ASSUME NEW w \in Viewers, w # v PROVE WindowOK(w)'
  <2>1. Frame(w)
    BY <1>1, <1>4, <1>6, <1>10, <1>12 DEF Frame, host
  <2> QED
    BY <2>1, FrameKeeps
<1>13. PicksOK(v)'
  <2>1. \A type : Only(type, toHost[c]) => Only(type, toHost'[c])
    BY <1>6, OnlySome
  <2>2. NoCloses(v) => NoCloses(v)'
    BY <1>4, <1>6, <1>8, <1>10, <2>1 DEF NoCloses
  <2>3. toViewer[c] = <<>> => toViewer'[c] = <<>>
    BY <1>6, Prefix
  <2>4. Untouched(v) => Untouched(v)'
    <3>1. NoShellOf(v) => NoShellOf(v)'
      BY <1>1 DEF NoShellOf, host
    <3>2. ASSUME NEW d \in Conns, Only("Close", toHost[d]), toViewer[d] = <<>>
          PROVE  Only("Close", toHost'[d]) /\ toViewer'[d] = <<>>
      BY <1>6, <2>1, <2>3, <3>2
    <3> QED
      BY <1>8, <1>10, <3>1, <3>2 DEF Untouched
  <2> QED
    BY <1>2, <1>8, <1>10, <2>2, <2>4, ThreadPicks DEF WindowOK
<1>14. FirstOK(v)' /\ BetweenLinks(v)' /\ HeldOK(v)'
  BY <1>7, <1>8, <1>10, ConnShape DEF FirstOK, First, BetweenLinks, HeldOK, Reaches, Conn
<1> QED
  BY <1>11, <1>12, <1>13, <1>14 DEF WindowOK

\* A viewer that never had a connection has no shell, and a new connection carries nothing.
LEMMA DialWindows ==
  ASSUME IInv, Typed, NetworkOK, \A w \in Viewers : WindowOK(w), NEW v \in Viewers, DialAndAdmit(v)
  PROVE  NetworkOK' /\ \A w \in Viewers : WindowOK(w)'
<1> DEFINE me == viewer[v]
           k == me.dial + 1
           he == [me EXCEPT !.link = TRUE, !.dial = k, !.posted = <<"ready">>]
<1>1. me \in Client /\ ~me.link /\ me.posted = <<>> /\ me.dial < MaxDials[v]
  BY DEF Typed, ViewersTyped, DialAndAdmit
<1>2. me.dial \in Nat /\ k \in Nat \ {0} /\ k > me.dial /\ k \in 1..MaxDials[v]
  BY <1>1, ConnShape DEF Client
<1>3. viewer' = [viewer EXCEPT ![v] = he]
  BY DEF DialAndAdmit
<1>4. up' = up \cup {<<v, k>>} /\ UNCHANGED <<host, toHost, toViewer>>
  BY DEF DialAndAdmit
<1> HIDE DEF k
<1>5. /\ he.link = TRUE /\ he.dial = k /\ he.posted = <<"ready">> /\ he.term = me.term
      /\ he.state = me.state /\ he.outbox = me.outbox /\ he.lost = me.lost
      /\ he.retry = me.retry /\ he.picker = me.picker /\ he.picks = me.picks
  BY <1>1 DEF Client
<1> HIDE DEF he
<1>6. viewer'[v] = he /\ \A w \in Viewers : w # v => viewer'[w] = viewer[w]
  BY <1>3 DEF Typed, ViewersTyped
<1>7. PICK d : d = <<v, k>>
  OBVIOUS
<1>8. d \in Conns /\ d[1] = v /\ d[2] = k /\ NotDialled(d)
  BY <1>2, <1>7, ConnShape DEF NotDialled
<1>9. d \notin up \cup gone /\ toHost[d] = <<>> /\ toViewer[d] = <<>>
  BY <1>8 DEF NetworkOK, NotYet
<1>10. NetworkOK'
  <2>1. \A c \in Conns : NotDialled(c)' => NotDialled(c) /\ c # d
    <3>1. ASSUME NEW c \in Conns, NotDialled(c)'
          PROVE  NotDialled(c) /\ c # d
      <4>1. c[2] \in Nat /\ c[1] \in Viewers
        BY ConnShape
      <4>2. CASE c[1] = v
        <5>1. c[2] > k
          BY <1>5, <1>6, <3>1, <4>2 DEF NotDialled
        <5> QED
          BY <1>2, <1>8, <4>1, <4>2, <5>1 DEF NotDialled
      <4>3. CASE c[1] # v
        BY <1>6, <1>8, <3>1, <4>1, <4>3 DEF NotDialled
      <4> QED
        BY <4>2, <4>3
    <3> QED
      BY <3>1
  <2>2. NotYet'
    BY <1>4, <1>7, <2>1 DEF NetworkOK, NotYet, host
  <2>3. GoneIsDown' /\ EndsAreFinal'
    BY <1>4, <1>7, <1>9 DEF NetworkOK, GoneIsDown, EndsAreFinal, host
  <2> QED
    BY <2>2, <2>3 DEF NetworkOK
<1>11. ASSUME NEW w \in Viewers, w # v PROVE WindowOK(w)'
  <2>1. Frame(w)
    BY <1>4, <1>6, <1>7, <1>8, <1>11 DEF Frame, host
  <2> QED
    BY <2>1, FrameKeeps
<1>12. /\ Untouched(v) => Untouched(v)'
       /\ NoCloses(v) => NoCloses(v)'
  BY <1>4, <1>5, <1>6 DEF Untouched, NoCloses, NoShellOf, host
<1>13. PicksOK(v)'
  BY <1>2, <1>5, <1>6, <1>12 DEF WindowOK, PicksOK
<1>14. ASSUME me.dial = 0
       PROVE  me = NewViewer /\ Untouched(v)
  <2>1. me = NewViewer
    BY <1>14 DEF WindowOK, PicksOK
  <2>2. \A c \in Conns : c[1] = v => NotDialled(c)
    BY <1>14, ConnShape DEF NotDialled
  <2>3. \A c \in Conns : c[1] = v => toHost[c] = <<>> /\ toViewer[c] = <<>>
    BY <2>2 DEF NetworkOK, NotYet
  <2>4. NoShellOf(v)
    <3>1. \A id \in DOMAIN shells : shells[id].state # "Local" => shells[id].peer \in Conns
      BY DEF IInv, ShellsInv, Shell
    <3> QED
      BY <2>2, <3>1 DEF NoShellOf, NetworkOK, NotYet
  <2>5. Only("Close", <<>>)
    BY DEF Only
  <2> QED
    BY <2>1, <2>3, <2>4, <2>5 DEF Untouched, NewViewer
<1>15. FirstOK(v)'
  <2>1. k = 1 => me.dial = 0
    BY <1>2 DEF k
  <2> QED
    BY <1>5, <1>6, <1>12, <1>14, <2>1 DEF FirstOK, First, NewViewer
<1>16. BetweenLinks(v)'
  BY <1>5, <1>6 DEF BetweenLinks
<1>17. HeldOK(v)'
  <2>1. Conn(v)' = d
    BY <1>5, <1>6, <1>7 DEF Conn
  <2>2. AskedOnce(v)' => viewer'[v].state # "Open"
    <3>1. me.picks <= 1 => me.state # "Open"
      BY <1>1 DEF WindowOK, BetweenLinks
    <3>2. k = 1 => me.state # "Open"
      BY <1>2, <1>14 DEF k, NewViewer
    <3> QED
      BY <1>5, <1>6, <3>1, <3>2 DEF AskedOnce
  <2>3. toViewer'[d] = <<>>
    BY <1>4, <1>9
  <2> QED
    BY <2>1, <2>2, <2>3 DEF HeldOK, HeldAt
<1> QED
  BY <1>10, <1>11, <1>13, <1>15, <1>16, <1>17 DEF WindowOK

LEMMA GoneWindows ==
  ASSUME IInv, Typed, NetworkOK, \A w \in Viewers : WindowOK(w), NEW c \in Conns, OnPeerGone(c)
  PROVE  NetworkOK' /\ \A w \in Viewers : WindowOK(w)'
<1>1. /\ c \in up /\ up' = up \ {c} /\ toHost' = [toHost EXCEPT ![c] = <<>>]
      /\ gone' \subseteq gone \cup {c}
      /\ UNCHANGED <<shells, nextId, sharing, kicks, toViewer, viewer>>
  BY DEF OnPeerGone
<1>2. toHost'[c] = <<>> /\ \A d \in Conns : d # c => toHost'[d] = toHost[d]
  BY <1>1 DEF Typed, MailTyped
<1>3. ~NotDialled(c) /\ c[1] \in Viewers /\ c[2] \in Nat \ {0} /\ c = <<c[1], c[2]>>
  BY <1>1, ConnShape DEF NetworkOK, NotYet
<1>4. NetworkOK'
  <2>1. \A d \in Conns : NotDialled(d)' = NotDialled(d)
    BY <1>1 DEF NotDialled
  <2>2. NotYet'
    BY <1>1, <1>2, <1>3, <2>1 DEF NetworkOK, NotYet
  <2>3. GoneIsDown' /\ EndsAreFinal'
    BY <1>1 DEF NetworkOK, GoneIsDown, EndsAreFinal
  <2> QED
    BY <2>2, <2>3 DEF NetworkOK
<1>5. ASSUME NEW w \in Viewers, w # c[1] PROVE WindowOK(w)'
  <2>1. Frame(w)
    BY <1>1, <1>2, <1>5 DEF Frame
  <2> QED
    BY <2>1, FrameKeeps
<1>6. ASSUME NEW w \in Viewers, w = c[1] PROVE WindowOK(w)'
  <2>1. \A type : Only(type, <<>>)
    BY DEF Only
  <2>2. /\ Untouched(w) => Untouched(w)'
        /\ NoCloses(w) => NoCloses(w)'
    BY <1>1, <1>2, <2>1 DEF Untouched, NoCloses, NoShellOf
  <2>3. PicksOK(w)'
    BY <1>1, <2>2 DEF WindowOK, PicksOK
  <2>4. FirstOK(w)'
    <3>1. viewer[w].dial = 1 => c = <<w, 1>>
      BY <1>3, <1>6 DEF NotDialled
    <3> QED
      BY <1>1, <3>1 DEF FirstOK, First
  <2>5. BetweenLinks(w)'
    BY <1>1 DEF WindowOK, BetweenLinks, Conn, Granted, Waits
  <2>6. HeldOK(w)'
    <3> SUFFICES ASSUME NEW d \in Conns, d = Conn(w), sharing, AskedOnce(w),
                        viewer[w].dial > 0, Reaches(d)
                 PROVE  HeldAt(w, d)'
      BY <1>1 DEF HeldOK, AskedOnce, Conn, Reaches
    <3>1. HeldAt(w, d)
      BY DEF WindowOK, HeldOK
    <3> QED
      BY <1>1, <3>1 DEF HeldAt, Held, Mine, Granted, Exit
  <2> QED
    BY <2>3, <2>4, <2>5, <2>6 DEF WindowOK
<1> QED
  BY <1>4, <1>5, <1>6

WindowsInv == NetworkOK /\ \A w \in Viewers : WindowOK(w)

LEMMA EveryStepWindows ==
  ASSUME IInv, Typed, WindowsInv, [Next]_vars
  PROVE  WindowsInv'
<1>1. NetworkOK /\ \A w \in Viewers : WindowOK(w)
  BY DEF WindowsInv
<1>2. CASE UNCHANGED vars
  <2>1. /\ UNCHANGED <<shells, sharing, gone, up, toHost, toViewer, viewer>>
    BY <1>2 DEF vars
  <2>2. \A w \in Viewers : Frame(w)
    BY <2>1 DEF Frame
  <2>3. NetworkOK'
    BY <1>1, <2>1, SameNetwork
  <2> QED
    BY <1>1, <2>2, <2>3, FrameKeeps DEF WindowsInv
<1>3. CASE \E v \in Viewers : ViewerThread(v) \/ User(v)
  BY <1>1, <1>3, ViewerWindows DEF WindowsInv
<1>4. CASE Network
  BY <1>1, <1>4, LostWindows, DialWindows, GoneWindows DEF Network, WindowsInv
<1>5. CASE \E c \in Conns : HostHandlesMessage(c)
  BY <1>1, <1>5, HostMessageWindows DEF WindowsInv
<1>6. CASE HostUser \/ \E finished \in SUBSET DOMAIN shells : Turn(finished)
  BY <1>1, <1>6, HostWindows DEF WindowsInv
<1> QED
  BY <1>2, <1>3, <1>4, <1>5, <1>6 DEF Next

LEMMA InitWindows == Init => WindowsInv
<1> SUFFICES ASSUME Init PROVE WindowsInv
  OBVIOUS
<1>1. /\ \A w \in Viewers : viewer[w] = NewViewer
      /\ \A c \in Conns : toHost[c] = <<>> /\ toViewer[c] = <<>>
      /\ up = {} /\ gone = {} /\ DOMAIN shells = {}
  <2>1. DOMAIN <<>> = {}
    OBVIOUS
  <2> QED
    BY <2>1 DEF Init
<1>2. NetworkOK
  BY <1>1 DEF NetworkOK, NotYet, GoneIsDown, EndsAreFinal
<1>3. \A type : Only(type, <<>>)
  BY DEF Only
<1>4. ASSUME NEW w \in Viewers PROVE WindowOK(w)
  <2>1. Untouched(w) /\ NoCloses(w)
    BY <1>1, <1>3 DEF Untouched, NoCloses, NoShellOf, NewViewer
  <2>2. PicksOK(w)
    BY <1>1, <2>1 DEF PicksOK, NewViewer
  <2> QED
    BY <1>1, <2>2 DEF WindowOK, FirstOK, First, BetweenLinks, HeldOK, NewViewer, Waits
<1> QED
  BY <1>2, <1>4 DEF WindowsInv

\* The window that shows a shell is the one the host keeps it for, once nothing is on its way.
LEMMA OwnersHold ==
  ASSUME IInv, Typed, WindowsInv
  PROVE  HolderIsOwner
<1> SUFFICES ASSUME NEW v \in Viewers, sharing, Quiet(v), AskedOnce(v), viewer[v].state = "Open"
             PROVE  Mine(viewer[v].term, Conn(v))
  BY DEF HolderIsOwner, Mine
<1>1. /\ viewer[v].link /\ Conn(v) \in up /\ toViewer[Conn(v)] = <<>>
  BY DEF Quiet
<1>2. viewer[v].dial > 0
  <2>1. viewer[v].dial \in Nat
    BY DEF Typed, ViewersTyped, Client
  <2> QED
    BY <1>1, <2>1 DEF WindowsInv, WindowOK, PicksOK, NewViewer
<1>3. Conn(v) \in Conns /\ Conn(v)[1] = v
  BY <1>2, ConnTyped DEF Conn
<1>4. HeldAt(v, Conn(v))
  BY <1>1, <1>2, <1>3 DEF WindowsInv, WindowOK, HeldOK, Reaches
<1> QED
  BY <1>1, <1>4 DEF HeldAt, Held

LEMMA LiveShown ==
  ASSUME IInv, Typed, WindowsInv
  PROVE  LiveIsSeen
<1> SUFFICES ASSUME NEW id \in DOMAIN shells, NEW v, v = shells[id].peer[1],
                    shells[id].state = "Live", viewer[v].dial = 1, Quiet(v)
             PROVE  viewer[v].state = "Open" /\ viewer[v].term = id
  BY DEF LiveIsSeen
<1>1. shells[id].peer \in Conns /\ shells[id].peer \in up \cup gone
      /\ shells[id] = [state |-> "Live", peer |-> shells[id].peer]
  BY DEF IInv, ShellsInv, Shell, LostIsNoticed
<1>2. v \in Viewers /\ shells[id].peer = <<v, 1>>
  <2>1. ~NotDialled(shells[id].peer)
    BY <1>1 DEF WindowsInv, NetworkOK, NotYet
  <2>2. shells[id].peer[2] = 1
    BY <1>1, <2>1, ConnShape DEF NotDialled
  <2> QED
    BY <1>1, <2>2, ConnShape
<1>3. /\ First(v) /\ Conn(v) = <<v, 1>>
      /\ toHost[<<v, 1>>] = <<>> /\ toViewer[<<v, 1>>] = <<>>
  BY DEF Quiet, Conn, First
<1>4. ~NoShellOf(v)
  BY <1>2 DEF NoShellOf
<1>5. Settled(v, <<v, 1>>)
  BY <1>2, <1>3, <1>4 DEF WindowsInv, WindowOK, FirstOK, Untouched, Asked, Answered
<1> QED
  BY <1>1, <1>2, <1>5 DEF Settled, Mine

\* What a window shows and what the host keeps for it are the same, both ways: whatever
\* windows open, resume and close over links that are lost and dialled again
\* (TerminalViewer, TerminalClient), and whatever the host detaches, takes over or ends
\* meanwhile (TerminalHost::HandleMessage, AttachLocal, CloseShell, DrainGone): a window
\* that asked once (AskedOnce) and has nothing on its way shows a shell only if the host,
\* while it shares them, holds it for this very connection; and for the first connection of
\* a window the host holds none that the window, with nothing on its way, does not show.
THEOREM WindowsAgree == Spec => []WindowsMatchShells
<1>1. IInv /\ Typed /\ WindowsInv => WindowsMatchShells
  BY OwnersHold, LiveShown DEF WindowsMatchShells
<1> QED
  BY <1>1, InitWindows, EveryStepWindows, AlwaysTyped, PTL DEF Spec
=============================================================================
