------------------------ MODULE TerminalOutput_proofs ------------------------
(***************************************************************************)
(* What a window shows of its shell, for any sizes of the buffers and of   *)
(* the line, any length of a repaint and any number of connections: the    *)
(* output that is on its way always fits what the window shows, and ends   *)
(* in the shell's screen of now or with a repaint that is owed.            *)
(***************************************************************************)
EXTENDS TerminalOutput, SequenceTheorems, TLAPS

Screens == [n : 0..MaxOutput, part : 1..PaintPieces]

Shell == [state : {"Live", "Detached", "Local", "None"}, peer : Conns, size : Sizes,
          pending : Seq(Piece), behind : BOOLEAN]

Window == [state : {"Open", "Idle", "Reattaching", "Closed"}, size : Sizes, sentSize : Sizes,
           screen : Screens, dial : Conns, link : BOOLEAN, posted : Seq({"ready", "lost"}),
           outbox : Seq(Request), lost : BOOLEAN, retry : BOOLEAN, failed : BOOLEAN,
           resizes : 0..MaxResizes, doubled : BOOLEAN]

Typed ==
  /\ mirror \in 0..MaxOutput /\ rested \in BOOLEAN
  /\ gone \subseteq Conns /\ up \subseteq Conns
  /\ shell \in Shell
  /\ Len(shell.pending) <= MaxPending \/ Len(shell.pending) <= PaintPieces
  /\ toHost \in [Conns -> Seq(Request)] /\ wire \in [Conns -> Seq(Piece \cup Answer)]
  /\ viewer \in Window

\* The window's thread serves what its link posted in order, and is idle, or done, when it
\* has served a loss.  On a link that is up it keeps nothing back from its host.
LinkOK ==
  /\ viewer.posted \in IF viewer.link THEN {<<>>, <<"ready">>}
                       ELSE {<<>>, <<"lost">>, <<"ready", "lost">>}
  /\ ~viewer.link /\ viewer.posted = <<>> => viewer.state \in {"Idle", "Closed"}
  /\ viewer.link /\ viewer.state \in {"Open", "Reattaching"} => viewer.outbox = <<>>

\* Nothing is there of a connection not dialled yet, a lost one is not up, and only on one
\* that is up does anything wait for the host.  A shell is detached from a lost connection.
NetworkOK ==
  /\ gone \cap up = {}
  /\ shell.peer <= Conn
  /\ \A c \in Conns :
       /\ c > Conn => c \notin up \cup gone /\ toHost[c] = <<>> /\ wire[c] = <<>>
       /\ toHost[c] # <<>> => c \in up
  /\ shell.state = "Detached" => shell.peer \notin up

\* Place p on the way to the window is that of the answer that lets it in.
Grants(p) == p \in 1..Len(wire[Conn]) /\ wire[Conn][p] = Ack(TRUE)

\* The window shows what comes next, or will when it is told that it may.
Watching == viewer.state = "Open" \/ \E p \in 1..Len(wire[Conn]) : Grants(p)

\* The screens it may show by then.
Views == IF viewer.state = "Open" THEN {viewer.screen} ELSE Screens

\* A connection lets the window in once, and nothing is printed on it before that.
AdmissionOK ==
  /\ \A p \in 1..Len(wire[Conn]) : Grants(p) =>
       /\ viewer.state # "Open"
       /\ \A k \in 1..(p - 1) : ~IsPiece(wire[Conn][k])
       /\ \A k \in 1..Len(wire[Conn]) : Grants(k) => k = p
  /\ Conn \in up /\ shell.peer # Conn =>
       /\ viewer.state # "Open"
       /\ \A k \in 1..Len(wire[Conn]) : ~IsPiece(wire[Conn][k]) /\ ~Grants(k)

\* All pieces of s find the screen they were printed for, from one to the next.
Leads(from, s, to) ==
  /\ \A j \in 1..Len(s) : Fits(At(from, s, j - 1), s[j])
  /\ At(from, s, Len(s)) = to

\* What is on its way is shown on the screen it was printed for, and what the host keeps
\* goes on from there up to the shell's screen of now.
OutputOnItsWay ==
  /\ Watching => \A screen \in Views : Continues(screen, wire[Conn])
  /\ shell.behind => shell.pending = <<>>
  /\ Watching /\ Reaches(Conn) /\ shell.state = "Live" /\ shell.peer = Conn /\ ~shell.behind
     => \A screen \in Views : \E mid \in Screens :
          EndsAs(screen, wire[Conn], mid) /\ Leads(mid, shell.pending, Whole(mirror))

\* The window waits for the answer to its one Open, which is still on its way to the host,
\* behind nothing that counts, or was answered.
AskedFor ==
  LET s == toHost[Conn] IN
  /\ s # <<>> /\ s[Len(s)] = Open(viewer.sentSize)
  /\ \A k \in 1..(Len(s) - 1) : s[k].type = "Resize"
  /\ \A k \in 1..Len(wire[Conn]) : wire[Conn][k].type # "Ack"

HostHasIt == shell.state = "Live" /\ shell.peer = Conn

AnswerComes ==
  /\ toHost[Conn] = <<>>
  /\ HostHasIt /\ (\E p \in 1..Len(wire[Conn]) : Grants(p)) => shell.size = viewer.sentSize

\* From then on the last size told is the size it has.
SizeTold ==
  LET s == toHost[Conn] IN
  /\ \A k \in 1..Len(s) : s[k].type = "Resize"
  /\ HostHasIt =>
       viewer.size = IF s = <<>> THEN shell.size ELSE s[Len(s)].size

SizeOK ==
  viewer.link /\ Conn \in up /\ ~viewer.doubled =>
  /\ viewer.state = "Reattaching" => AskedFor \/ AnswerComes
  /\ viewer.state = "Open" => SizeTold

IInv == Typed /\ LinkOK /\ NetworkOK /\ AdmissionOK /\ OutputOnItsWay /\ SizeOK

Message == Piece \cup Answer

-----------------------------------------------------------------------------
(* Pieces, and what they make of a screen.                                 *)

LEMMA PiecesAreShown ==
  ASSUME NEW m \in Message
  PROVE  /\ m \in Piece => IsPiece(m) /\ After(m) \in Screens
         /\ m \in Answer => ~IsPiece(m)
         /\ IsPiece(m) => m \in Piece
<1>1. \A n \in Nat : n \in 0..MaxOutput => Showing(n, PaintPieces) \in Screens
  BY OutputOK DEF Screens, Showing
<1> QED
  BY <1>1, OutputOK
  DEF Message, Piece, Answer, IsPiece, After, Whole, Showing, Screens, Ack, Exit

LEMMA WholeIsAScreen ==
  ASSUME NEW n \in 0..MaxOutput
  PROVE  Whole(n) \in Screens
BY OutputOK DEF Whole, Showing, Screens

\* No screen that is shown is the garbled one.
LEMMA ScreensAreFine == Garbled \notin Screens
BY OutputOK DEF Garbled, Showing, Screens

-----------------------------------------------------------------------------
(* What is on its way, piece by piece.                                     *)

\* The first message is handled.
LEMMA TailLatest ==
  ASSUME NEW s \in Seq(Message), s # <<>>, NEW screen, NEW j \in 1..Len(s),
         NEW i \in 0..(j - 1), Latest(Tail(s), i, j)
  PROVE  LET now == IF IsPiece(Head(s)) THEN After(Head(s)) ELSE screen IN
         \E h \in 0..j : Latest(s, h, j + 1) /\ At(screen, s, h) = At(now, Tail(s), i)
<1> DEFINE now == IF IsPiece(Head(s)) THEN After(Head(s)) ELSE screen
<1>1. /\ Len(s) \in Nat \ {0} /\ Len(Tail(s)) = Len(s) - 1 /\ Head(s) = s[1]
      /\ \A k \in 1..(Len(s) - 1) : Tail(s)[k] = s[k + 1]
  BY HeadTailProperties, EmptySeq
<1>2. j \in Nat /\ i \in Nat /\ i < j
  BY <1>1
<1>3. \A k \in (i + 1)..(j - 1) : ~IsPiece(s[k + 1])
  BY <1>1, <1>2 DEF Latest
<1>4. \A k \in (i + 2)..j : ~IsPiece(s[k])
  <2>1. ASSUME NEW k \in (i + 2)..j PROVE ~IsPiece(s[k])
    <3>1. k - 1 \in (i + 1)..(j - 1) /\ (k - 1) + 1 = k
      BY <1>2
    <3> QED
      BY <1>3, <3>1
  <2> QED
    BY <2>1
<1>5. CASE i > 0
  <2>1. Tail(s)[i] = s[i + 1] /\ IsPiece(s[i + 1])
    BY <1>1, <1>2, <1>5 DEF Latest
  <2>2. Latest(s, i + 1, j + 1)
    BY <1>2, <1>4, <2>1 DEF Latest
  <2>3. At(screen, s, i + 1) = At(now, Tail(s), i)
    BY <1>2, <1>5, <2>1 DEF At
  <2> QED
    BY <1>2, <2>2, <2>3
<1>6. CASE i = 0 /\ IsPiece(s[1])
  <2>1. Latest(s, 1, j + 1)
    BY <1>2, <1>4, <1>6 DEF Latest
  <2>2. At(screen, s, 1) = At(now, Tail(s), i)
    BY <1>1, <1>6 DEF At
  <2> QED
    BY <1>2, <2>1, <2>2
<1>7. CASE i = 0 /\ ~IsPiece(s[1])
  <2>1. Latest(s, 0, j + 1)
    BY <1>2, <1>4, <1>7 DEF Latest
  <2>2. At(screen, s, 0) = At(now, Tail(s), i)
    BY <1>1, <1>7 DEF At
  <2> QED
    BY <1>2, <2>1, <2>2
<1> QED
  BY <1>2, <1>5, <1>6, <1>7

LEMMA TailGoesOn ==
  ASSUME NEW s \in Seq(Message), s # <<>>, NEW screen
  PROVE  LET now == IF IsPiece(Head(s)) THEN After(Head(s)) ELSE screen IN
         /\ Continues(screen, s) =>
              /\ IsPiece(Head(s)) => Fits(screen, Head(s))
              /\ Continues(now, Tail(s))
         /\ \A final : EndsAs(screen, s, final) => EndsAs(now, Tail(s), final)
<1> DEFINE now == IF IsPiece(Head(s)) THEN After(Head(s)) ELSE screen
           t == Tail(s)
<1>1. /\ Len(s) \in Nat \ {0} /\ Len(t) = Len(s) - 1 /\ Head(s) = s[1]
      /\ \A k \in 1..(Len(s) - 1) : t[k] = s[k + 1]
  BY HeadTailProperties, EmptySeq
<1>2. ASSUME NEW j \in 1..Len(s), NEW i \in 0..(j - 1), Latest(t, i, j)
      PROVE  \E h \in 0..j : Latest(s, h, j + 1) /\ At(screen, s, h) = At(now, t, i)
  BY <1>2, TailLatest
<1>3. ASSUME Continues(screen, s)
      PROVE  (IsPiece(Head(s)) => Fits(screen, Head(s))) /\ Continues(now, t)
  <2>1. IsPiece(s[1]) => Fits(screen, s[1])
    <3>1. Latest(s, 0, 1) /\ At(screen, s, 0) = screen
      BY DEF Latest, At
    <3>2. 1 \in 1..Len(s) /\ 0 \in 0..(1 - 1)
      BY <1>1
    <3> QED
      BY <1>3, <3>1, <3>2 DEF Continues
  <2>2. ASSUME NEW j \in 1..Len(t), IsPiece(t[j]), NEW i \in 0..(j - 1), Latest(t, i, j)
        PROVE  Fits(At(now, t, i), t[j])
    <3>1. j \in 1..Len(s) /\ j + 1 \in 1..Len(s) /\ t[j] = s[j + 1]
      BY <1>1
    <3>2. PICK h \in 0..j : Latest(s, h, j + 1) /\ At(screen, s, h) = At(now, t, i)
      BY <1>2, <2>2, <3>1
    <3>3. h \in 0..((j + 1) - 1)
      BY <3>1
    <3> HIDE DEF now, t
    <3> QED
      BY <1>3, <2>2, <3>1, <3>2, <3>3 DEF Continues
  <2> HIDE DEF now, t
  <2> QED
    BY <1>1, <2>1, <2>2 DEF Continues
<1>4. ASSUME NEW final, EndsAs(screen, s, final)
      PROVE  EndsAs(now, t, final)
  <2>1. ASSUME NEW i \in 0..Len(t), Latest(t, i, Len(t) + 1)
        PROVE  At(now, t, i) = final
    <3>1. Len(t) + 1 = Len(s) /\ Len(s) \in 1..Len(s) /\ i \in 0..(Len(s) - 1)
      BY <1>1
    <3>2. PICK h \in 0..Len(s) : Latest(s, h, Len(s) + 1) /\ At(screen, s, h) = At(now, t, i)
      BY <1>2, <2>1, <3>1
    <3> HIDE DEF now, t
    <3> QED
      BY <1>4, <3>2 DEF EndsAs
  <2> HIDE DEF now, t
  <2> QED
    BY <2>1 DEF EndsAs
<1> QED
  BY <1>3, <1>4

\* What is lost at the end.
LEMMA PrefixGoesOn ==
  ASSUME NEW s \in Seq(Message), NEW n \in 0..Len(s), NEW screen, Continues(screen, s)
  PROVE  Continues(screen, SubSeq(s, 1, n))
<1> DEFINE t == SubSeq(s, 1, n)
<1>1. Len(s) \in Nat /\ n \in Nat /\ n <= Len(s)
  BY LenProperties
<1>2. Len(t) = n /\ \A k \in 1..n : t[k] = s[k]
  BY <1>1
<1> HIDE DEF t
<1>3. ASSUME NEW j \in 1..Len(t), IsPiece(t[j]), NEW i \in 0..(j - 1), Latest(t, i, j)
      PROVE  Fits(At(screen, t, i), t[j])
  <2>1. j \in 1..Len(s) /\ t[j] = s[j] /\ (i > 0 => t[i] = s[i])
    BY <1>1, <1>2
  <2>2. Latest(s, i, j)
    BY <1>1, <1>2, <1>3, <2>1 DEF Latest
  <2>3. At(screen, t, i) = At(screen, s, i)
    BY <2>1 DEF At
  <2> QED
    BY <1>3, <2>1, <2>2, <2>3 DEF Continues
<1> QED
  BY <1>3 DEF Continues, t

\* What is sent behind it.
LEMMA PiecesGoOn ==
  ASSUME NEW s \in Seq(Message), NEW t \in Seq(Piece), NEW screen, NEW mid, NEW final,
         Continues(screen, s), EndsAs(screen, s, mid), Leads(mid, t, final)
  PROVE  Continues(screen, s \o t) /\ EndsAs(screen, s \o t, final)
<1> DEFINE u == s \o t
<1>1. /\ Len(s) \in Nat /\ Len(t) \in Nat /\ Len(u) = Len(s) + Len(t)
      /\ \A k \in 1..Len(s) : u[k] = s[k]
      /\ \A k \in 1..Len(t) : u[Len(s) + k] = t[k]
  BY DEF Message
<1>2. \A k \in 1..Len(t) : IsPiece(t[k])
  BY PiecesAreShown DEF Message
<1> HIDE DEF u
<1>3. ASSUME NEW j \in 1..Len(s), NEW i \in 0..(j - 1), Latest(u, i, j)
      PROVE  Latest(s, i, j) /\ At(screen, u, i) = At(screen, s, i)
  <2>1. j \in Nat /\ i \in Nat /\ i < j /\ \A k \in 1..j : u[k] = s[k]
    BY <1>1
  <2> QED
    BY <1>3, <2>1 DEF Latest, At
<1>4. ASSUME NEW m \in 1..(Len(t) + 1), NEW i \in 0..(Len(s) + m - 1),
             Latest(u, i, Len(s) + m)
      PROVE  At(screen, u, i) = At(mid, t, m - 1)
  <2>1. CASE m = 1
    <3>1. \A k \in 1..Len(s) : u[k] = s[k]
      BY <1>1
    <3>2. Latest(s, i, Len(s) + 1) /\ At(screen, u, i) = At(screen, s, i)
      BY <1>1, <1>4, <2>1, <3>1 DEF Latest, At
    <3>3. At(screen, s, i) = mid
      BY <1>1, <2>1, <3>2 DEF EndsAs
    <3> QED
      BY <2>1, <3>2, <3>3 DEF At
  <2>2. CASE m > 1
    <3>1. m - 1 \in 1..Len(t) /\ Len(s) + (m - 1) = Len(s) + m - 1
      BY <1>1, <2>2
    <3>2. u[Len(s) + m - 1] = t[m - 1] /\ IsPiece(t[m - 1])
      BY <1>1, <1>2, <3>1
    <3>3. i = Len(s) + m - 1
      <4>1. SUFFICES ASSUME i # Len(s) + m - 1 PROVE FALSE
        OBVIOUS
      <4>2. Len(s) + m - 1 \in (i + 1)..((Len(s) + m) - 1)
        BY <1>1, <4>1
      <4> QED
        BY <1>4, <3>2, <4>2 DEF Latest
    <3>4. i # 0 /\ m - 1 # 0
      BY <1>1, <2>2, <3>3
    <3> QED
      BY <3>2, <3>3, <3>4 DEF At
  <2> QED
    BY <2>1, <2>2
<1>5. ASSUME NEW j \in 1..Len(u), IsPiece(u[j]), NEW i \in 0..(j - 1), Latest(u, i, j)
      PROVE  Fits(At(screen, u, i), u[j])
  <2>1. CASE j <= Len(s)
    <3>1. j \in 1..Len(s)
      BY <1>1, <2>1
    <3>2. Latest(s, i, j) /\ At(screen, u, i) = At(screen, s, i) /\ u[j] = s[j]
      BY <1>1, <1>3, <1>5, <3>1
    <3> QED
      BY <1>5, <3>1, <3>2 DEF Continues
  <2>2. CASE j > Len(s)
    <3> DEFINE m == j - Len(s)
    <3>1. m \in 1..Len(t) /\ m \in 1..(Len(t) + 1) /\ j = Len(s) + m
      BY <1>1, <2>2
    <3> HIDE DEF m
    <3>2. At(screen, u, i) = At(mid, t, m - 1) /\ u[j] = t[m]
      BY <1>1, <1>4, <1>5, <3>1
    <3> QED
      BY <3>1, <3>2 DEF Leads
  <2> QED
    BY <1>1, <2>1, <2>2
<1>6. ASSUME NEW i \in 0..Len(u), Latest(u, i, Len(u) + 1)
      PROVE  At(screen, u, i) = final
  <2> DEFINE m == Len(t) + 1
  <2>1. m \in 1..(Len(t) + 1) /\ Len(u) + 1 = Len(s) + m /\ m - 1 = Len(t)
    BY <1>1
  <2>2. i \in 0..(Len(s) + m - 1)
    BY <1>1
  <2> HIDE DEF m
  <2>3. At(screen, u, i) = At(mid, t, Len(t))
    BY <1>4, <1>6, <2>1, <2>2
  <2> QED
    BY <2>3 DEF Leads
<1>7. Continues(screen, u) /\ EndsAs(screen, u, final)
  BY <1>5, <1>6 DEF Continues, EndsAs
<1> QED
  BY <1>7 DEF u

LEMMA AnswerGoesOn ==
  ASSUME NEW s \in Seq(Message), NEW m \in Answer, NEW screen
  PROVE  /\ Continues(screen, s) => Continues(screen, Append(s, m))
         /\ \A final : EndsAs(screen, s, final) => EndsAs(screen, Append(s, m), final)
<1> DEFINE u == Append(s, m)
<1>1. /\ Len(s) \in Nat /\ Len(u) = Len(s) + 1 /\ u[Len(s) + 1] = m
      /\ \A k \in 1..Len(s) : u[k] = s[k]
  BY DEF Message
<1>2. ~IsPiece(u[Len(s) + 1])
  BY <1>1, PiecesAreShown DEF Message
<1> HIDE DEF u
<1>3. ASSUME Continues(screen, s),
             NEW j \in 1..Len(u), IsPiece(u[j]), NEW i \in 0..(j - 1), Latest(u, i, j)
      PROVE  Fits(At(screen, u, i), u[j])
  <2>1. j \in 1..Len(s)
    BY <1>1, <1>2, <1>3
  <2>2. j \in Nat /\ i \in Nat /\ i < j /\ \A k \in 1..j : u[k] = s[k]
    BY <1>1, <2>1
  <2>3. u[j] = s[j] /\ Latest(s, i, j) /\ At(screen, u, i) = At(screen, s, i)
    BY <1>3, <2>1, <2>2 DEF Latest, At
  <2> QED
    BY <1>3, <2>1, <2>3 DEF Continues
<1>4. ASSUME NEW final, EndsAs(screen, s, final),
             NEW i \in 0..Len(u), Latest(u, i, Len(u) + 1)
      PROVE  At(screen, u, i) = final
  <2>1. i \in 0..Len(s)
    BY <1>1, <1>2, <1>4 DEF Latest
  <2>2. \A k \in 1..Len(s) : u[k] = s[k]
    BY <1>1
  <2>3. Latest(s, i, Len(s) + 1) /\ At(screen, u, i) = At(screen, s, i)
    BY <1>1, <1>4, <2>1, <2>2 DEF Latest, At
  <2> QED
    BY <1>4, <2>1, <2>3 DEF EndsAs
<1> HIDE DEF Continues, EndsAs
<1>5. Continues(screen, s) => Continues(screen, u)
  BY <1>3 DEF Continues
<1>6. \A final : EndsAs(screen, s, final) => EndsAs(screen, u, final)
  BY <1>4 DEF EndsAs
<1> QED
  BY <1>5, <1>6 DEF u

LEMMA AnswersOnly ==
  ASSUME NEW s \in Seq(Message), \A k \in 1..Len(s) : ~IsPiece(s[k]), NEW screen
  PROVE  Continues(screen, s) /\ EndsAs(screen, s, screen)
BY DEF Continues, EndsAs, Latest, At

\* There is one latest piece at most.
LEMMA EndExists ==
  ASSUME NEW s \in Seq(Message), NEW screen \in Screens
  PROVE  \E mid \in Screens : EndsAs(screen, s, mid)
<1>1. Len(s) \in Nat
  OBVIOUS
<1>2. CASE \E i \in 0..Len(s) : Latest(s, i, Len(s) + 1)
  <2>1. PICK i \in 0..Len(s) : Latest(s, i, Len(s) + 1)
    BY <1>2
  <2>2. At(screen, s, i) \in Screens
    <3>1. CASE i = 0
      BY <3>1 DEF At
    <3>2. CASE i # 0
      <4>1. i \in 1..Len(s) /\ IsPiece(s[i]) /\ s[i] \in Message
        BY <1>1, <2>1, <3>2 DEF Latest
      <4>2. After(s[i]) \in Screens
        BY <4>1, PiecesAreShown
      <4> QED
        BY <3>2, <4>2 DEF At
    <3> QED
      BY <3>1, <3>2
  <2>3. ASSUME NEW h \in 0..Len(s), Latest(s, h, Len(s) + 1) PROVE h = i
    <3>1. ~(h < i)
      <4>1. SUFFICES ASSUME h < i PROVE FALSE
        OBVIOUS
      <4>2. i \in (h + 1)..((Len(s) + 1) - 1) /\ i > 0
        BY <1>1, <4>1
      <4> QED
        BY <2>1, <2>3, <4>2 DEF Latest
    <3>2. ~(i < h)
      <4>1. SUFFICES ASSUME i < h PROVE FALSE
        OBVIOUS
      <4>2. h \in (i + 1)..((Len(s) + 1) - 1) /\ h > 0
        BY <1>1, <4>1
      <4> QED
        BY <2>1, <2>3, <4>2 DEF Latest
    <3> QED
      BY <1>1, <3>1, <3>2
  <2>4. EndsAs(screen, s, At(screen, s, i))
    BY <2>3 DEF EndsAs
  <2> QED
    BY <2>2, <2>4
<1>3. CASE ~\E i \in 0..Len(s) : Latest(s, i, Len(s) + 1)
  BY <1>3 DEF EndsAs
<1> QED
  BY <1>2, <1>3

LEMMA LeadsInParts ==
  ASSUME NEW p \in Seq(Piece), NEW k \in 0..Len(p), NEW from \in Screens, NEW to,
         Leads(from, p, to)
  PROVE  \E mid \in Screens :
           Leads(from, SubSeq(p, 1, k), mid) /\ Leads(mid, SubSeq(p, k + 1, Len(p)), to)
<1> DEFINE a == SubSeq(p, 1, k)
           b == SubSeq(p, k + 1, Len(p))
           mid == At(from, p, k)
<1>1. /\ Len(p) \in Nat /\ k \in Nat /\ k <= Len(p)
      /\ Len(a) = k /\ Len(b) = Len(p) - k
      /\ \A j \in 1..k : a[j] = p[j]
      /\ \A j \in 1..(Len(p) - k) : b[j] = p[k + j]
  OBVIOUS
<1> HIDE DEF a, b
<1>2. mid \in Screens
  <2>1. ASSUME k # 0 PROVE After(p[k]) \in Screens
    <3>1. p[k] \in Piece
      BY <1>1, <2>1
    <3> QED
      BY <3>1, PiecesAreShown DEF Message
  <2> QED
    BY <2>1 DEF At
<1>3. Leads(from, a, mid)
  <2>1. ASSUME NEW j \in 1..k PROVE Fits(At(from, a, j - 1), a[j])
    <3>1. j \in 1..Len(p) /\ a[j] = p[j] /\ (j - 1 # 0 => a[j - 1] = p[j - 1])
      BY <1>1
    <3> QED
      BY <3>1 DEF Leads, At
  <2>2. At(from, a, k) = mid
    BY <1>1 DEF At
  <2> QED
    BY <1>1, <2>1, <2>2 DEF Leads
<1>4. Leads(mid, b, to)
  <2>1. ASSUME NEW j \in 0..(Len(p) - k) PROVE At(mid, b, j) = At(from, p, k + j)
    <3>1. CASE j = 0
      BY <1>1, <3>1 DEF At
    <3>2. CASE j # 0
      BY <1>1, <3>2 DEF At
    <3> QED
      BY <3>1, <3>2
  <2> HIDE DEF mid
  <2>2. ASSUME NEW j \in 1..(Len(p) - k) PROVE Fits(At(mid, b, j - 1), b[j])
    <3>1. /\ k + j \in 1..Len(p) /\ (k + j) - 1 = k + (j - 1)
          /\ j - 1 \in 0..(Len(p) - k)
      BY <1>1
    <3>2. At(mid, b, j - 1) = At(from, p, k + (j - 1)) /\ b[j] = p[k + j]
      BY <1>1, <2>1, <3>1
    <3> QED
      BY <3>1, <3>2 DEF Leads
  <2>3. At(mid, b, Len(b)) = to
    BY <1>1, <2>1 DEF Leads
  <2> QED
    BY <1>1, <2>2, <2>3 DEF Leads
<1> QED
  BY <1>2, <1>3, <1>4 DEF a, b

LEMMA LeadsOn ==
  ASSUME NEW s \in Seq(Piece), NEW t \in Seq(Piece), NEW from, NEW mid, NEW to,
         Leads(from, s, mid), Leads(mid, t, to)
  PROVE  Leads(from, s \o t, to)
<1> DEFINE u == s \o t
<1>1. /\ Len(s) \in Nat /\ Len(t) \in Nat /\ Len(u) = Len(s) + Len(t)
      /\ \A k \in 1..Len(s) : u[k] = s[k]
      /\ \A k \in 1..Len(t) : u[Len(s) + k] = t[k]
  OBVIOUS
<1> HIDE DEF u
<1>2. ASSUME NEW j \in 0..Len(s) PROVE At(from, u, j) = At(from, s, j)
  BY <1>1 DEF At
<1>3. ASSUME NEW j \in 0..Len(t) PROVE At(from, u, Len(s) + j) = At(mid, t, j)
  <2>1. CASE j = 0
    <3>1. Len(s) + j = Len(s) /\ Len(s) \in 0..Len(s)
      BY <1>1, <2>1
    <3> QED
      BY <1>2, <2>1, <3>1 DEF Leads, At
  <2>2. CASE j # 0
    BY <1>1, <2>2 DEF At
  <2> QED
    BY <2>1, <2>2
<1>4. ASSUME NEW j \in 1..Len(u) PROVE Fits(At(from, u, j - 1), u[j])
  <2>1. CASE j <= Len(s)
    <3>1. j \in 1..Len(s) /\ j - 1 \in 0..Len(s)
      BY <1>1, <2>1
    <3> QED
      BY <1>1, <1>2, <3>1 DEF Leads
  <2>2. CASE j > Len(s)
    <3> DEFINE m == j - Len(s)
    <3>1. m \in 1..Len(t) /\ j = Len(s) + m /\ j - 1 = Len(s) + (m - 1) /\ m - 1 \in 0..Len(t)
      BY <1>1, <2>2
    <3> HIDE DEF m
    <3>2. At(from, u, j - 1) = At(mid, t, m - 1) /\ u[j] = t[m]
      BY <1>1, <1>3, <3>1
    <3> QED
      BY <3>1, <3>2 DEF Leads
  <2> QED
    BY <1>1, <2>1, <2>2
<1>5. At(from, u, Len(u)) = to
  <2>1. Len(t) \in 0..Len(t)
    BY <1>1
  <2> QED
    BY <1>1, <1>3, <2>1 DEF Leads
<1> QED
  BY <1>4, <1>5 DEF Leads, u

\* A repaint is right on any screen.
LEMMA RepaintLeads ==
  ASSUME NEW n \in 0..MaxOutput, NEW from
  PROVE  /\ Repaint(n) \in Seq(Piece) /\ Len(Repaint(n)) = PaintPieces
         /\ Leads(from, Repaint(n), Whole(n))
<1> DEFINE r == Repaint(n)
<1>1. r \in [1..PaintPieces -> Piece] /\ \A part \in 1..PaintPieces : r[part] = Paint(n, part)
  BY DEF Repaint, Paint, Piece
<1>2. r \in Seq(Piece) /\ Len(r) = PaintPieces
  BY <1>1, OutputOK
<1> HIDE DEF r
<1>3. ASSUME NEW j \in 1..PaintPieces PROVE Fits(At(from, r, j - 1), r[j])
  <2>1. r[j].type = "Paint" /\ r[j].n = n /\ r[j].part = j
    BY <1>1 DEF Paint
  <2>2. CASE j = 1
    BY <2>1, <2>2 DEF Fits
  <2>3. CASE j # 1
    <3>1. j - 1 \in 1..PaintPieces /\ j - 1 # 0
      BY <2>3, OutputOK
    <3>2. r[j - 1].type = "Paint" /\ r[j - 1].n = n /\ r[j - 1].part = j - 1
      BY <1>1, <3>1 DEF Paint
    <3>3. At(from, r, j - 1) = Showing(n, j - 1)
      BY <3>1, <3>2 DEF At, After
    <3> QED
      BY <2>1, <3>3 DEF Fits
  <2> QED
    BY <2>2, <2>3
<1>4. At(from, r, PaintPieces) = Whole(n)
  <2>1. PaintPieces \in 1..PaintPieces /\ PaintPieces # 0
    BY OutputOK
  <2> QED
    BY <1>1, <2>1 DEF At, After, Paint, Whole
<1> QED
  BY <1>2, <1>3, <1>4 DEF Leads, r

LEMMA PrintedLeads ==
  ASSUME NEW got \in Nat, mirror \in 0..MaxOutput, mirror + got <= MaxOutput
  PROVE  /\ Printed(got) \in Seq(Piece) /\ Len(Printed(got)) = got
         /\ Leads(Whole(mirror), Printed(got), Whole(mirror + got))
<1> DEFINE r == Printed(got)
<1>1. \A i \in 1..got : mirror + i \in 1..MaxOutput
  BY OutputOK
<1>2. r \in [1..got -> Piece] /\ \A i \in 1..got : r[i] = Out(mirror + i)
  BY <1>1 DEF Printed, Out, Piece
<1>3. r \in Seq(Piece) /\ Len(r) = got
  BY <1>2
<1> HIDE DEF r
<1>4. ASSUME NEW i \in 0..got PROVE At(Whole(mirror), r, i) = Whole(mirror + i)
  <2>1. CASE i = 0
    BY <2>1, OutputOK DEF At
  <2>2. CASE i # 0
    <3>1. r[i].type = "Out" /\ r[i].n = mirror + i
      BY <1>2, <2>2 DEF Out
    <3> QED
      BY <2>2, <3>1 DEF At, After
  <2> QED
    BY <2>1, <2>2
<1>5. ASSUME NEW j \in 1..got PROVE Fits(At(Whole(mirror), r, j - 1), r[j])
  <2>1. r[j].type = "Out" /\ r[j].n = mirror + j
    BY <1>2 DEF Out
  <2>2. j - 1 \in 0..got /\ mirror + (j - 1) = (mirror + j) - 1
    BY OutputOK
  <2>3. At(Whole(mirror), r, j - 1) = Whole((mirror + j) - 1)
    BY <1>4, <2>2
  <2> QED
    BY <2>1, <2>3 DEF Fits
<1>6. At(Whole(mirror), r, got) = Whole(mirror + got)
  BY <1>4
<1> QED
  BY <1>3, <1>5, <1>6 DEF Leads, r

-----------------------------------------------------------------------------
(* Types.                                                                  *)

\* What the window sends leaves its outbox, for a host that is there or for nobody.
LEMMA EmitsOf ==
  ASSUME Typed, NEW me \in Window, me.dial = viewer.dial, NEW messages \in Seq(Request),
         Emit(me, messages)
  PROVE  /\ viewer' \in Window /\ toHost' \in [Conns -> Seq(Request)]
         /\ \E outbox : viewer' = [me EXCEPT !.outbox = outbox]
         /\ viewer'.outbox = IF me.link THEN <<>> ELSE me.outbox \o messages
         /\ toHost'[Conn] = IF me.link /\ Conn \in up
                            THEN toHost[Conn] \o (me.outbox \o messages) ELSE toHost[Conn]
         /\ \A c \in Conns : c # Conn => toHost'[c] = toHost[c]
<1>1. me.outbox \in Seq(Request) /\ me.outbox \o messages \in Seq(Request)
  BY DEF Window
<1>2. viewer.dial \in Conns /\ toHost \in [Conns -> Seq(Request)]
  BY DEF Typed, Window
<1>3. /\ viewer' = [me EXCEPT !.outbox = IF me.link THEN <<>> ELSE me.outbox \o messages]
      /\ toHost' = IF me.link /\ me.dial \in up
                   THEN [toHost EXCEPT ![me.dial] = @ \o (me.outbox \o messages)] ELSE toHost
  BY DEF Emit
<1> DEFINE box == IF me.link THEN <<>> ELSE me.outbox \o messages
<1>4. box \in Seq(Request) /\ viewer' = [me EXCEPT !.outbox = box]
  BY <1>1, <1>3
<1> HIDE DEF box
<1>5. viewer' \in Window /\ viewer'.outbox = box
  BY <1>4 DEF Window
<1>6. viewer' \in Window /\ viewer'.outbox = IF me.link THEN <<>> ELSE me.outbox \o messages
  BY <1>5 DEF box
<1>7. toHost[Conn] \o (me.outbox \o messages) \in Seq(Request)
  BY <1>1, <1>2 DEF Conn
<1> QED
  BY <1>2, <1>3, <1>6, <1>7 DEF Conn

LEMMA TellsOf ==
  ASSUME Typed, NEW c \in Conns, NEW messages \in Seq(Message), Tell(c, messages)
  PROVE  /\ wire' \in [Conns -> Seq(Message)]
         /\ \A d \in Conns : d # Conn => wire'[d] = wire[d]
         /\ Reaches(c) => c = Conn /\ wire'[Conn] = wire[Conn] \o messages
         /\ ~Reaches(c) => wire' = wire
<1>1. wire \in [Conns -> Seq(Message)] /\ viewer.dial \in Conns
  BY DEF Typed, Message, Window
<1>2. wire[c] \o messages \in Seq(Message)
  BY <1>1
<1> QED
  BY <1>1, <1>2 DEF Tell, Reaches, Conn

LEMMA Values ==
  ASSUME Typed
  PROVE  /\ viewer \in Window /\ Conn \in Conns /\ viewer.link \in BOOLEAN
         /\ viewer.state \in {"Open", "Idle", "Reattaching", "Closed"}
         /\ viewer.screen \in Screens /\ viewer.size \in Sizes /\ viewer.sentSize \in Sizes
         /\ viewer.posted \in Seq({"ready", "lost"}) /\ viewer.outbox \in Seq(Request)
         /\ viewer.doubled \in BOOLEAN
         /\ shell.peer \in Conns /\ shell.pending \in Seq(Piece) /\ shell.behind \in BOOLEAN
         /\ shell.state \in {"Live", "Detached", "Local", "None"}
         /\ wire \in [Conns -> Seq(Message)] /\ wire[Conn] \in Seq(Message)
         /\ toHost \in [Conns -> Seq(Request)] /\ toHost[Conn] \in Seq(Request)
<1>1. /\ viewer \in Window /\ Conn \in Conns /\ viewer.link \in BOOLEAN
      /\ viewer.state \in {"Open", "Idle", "Reattaching", "Closed"}
      /\ viewer.screen \in Screens /\ viewer.size \in Sizes /\ viewer.sentSize \in Sizes
      /\ viewer.posted \in Seq({"ready", "lost"}) /\ viewer.outbox \in Seq(Request)
      /\ viewer.doubled \in BOOLEAN
  BY DEF Typed, Window, Conn
<1>2. /\ shell.peer \in Conns /\ shell.pending \in Seq(Piece) /\ shell.behind \in BOOLEAN
      /\ shell.state \in {"Live", "Detached", "Local", "None"}
  BY DEF Typed, Shell
<1>3. /\ wire \in [Conns -> Seq(Message)]
      /\ toHost \in [Conns -> Seq(Request)]
  BY DEF Typed, Message
<1> QED
  BY <1>1, <1>2, <1>3

-----------------------------------------------------------------------------
(* What most steps leave alone.                                            *)

LEMMA NothingComes ==
  ASSUME AdmissionOK, OutputOnItsWay, UNCHANGED <<mirror, up, wire>>,
         /\ viewer'.state = viewer.state /\ viewer'.screen = viewer.screen
         /\ viewer'.link = viewer.link /\ viewer'.dial = viewer.dial,
         /\ shell'.state = shell.state /\ shell'.peer = shell.peer
         /\ shell'.pending = shell.pending /\ shell'.behind = shell.behind
  PROVE  AdmissionOK' /\ OutputOnItsWay'
<1>1. Conn' = Conn
  BY DEF Conn
<1>2. \A p : Grants(p)' <=> Grants(p)
  BY <1>1 DEF Grants
<1>3. (Watching' <=> Watching) /\ Views' = Views /\ (Reaches(Conn)' <=> Reaches(Conn))
  BY <1>1, <1>2 DEF Watching, Views, Reaches
<1>4. AdmissionOK'
  BY <1>1, <1>2 DEF AdmissionOK
<1>5. OutputOnItsWay'
  BY <1>1, <1>3 DEF OutputOnItsWay
<1> QED
  BY <1>4, <1>5

LEMMA SameSizes ==
  ASSUME SizeOK, UNCHANGED <<shell, up, wire>>,
         viewer.link /\ viewer.state \in {"Open", "Reattaching"} => toHost'[Conn] = toHost[Conn],
         /\ viewer'.state = viewer.state /\ viewer'.link = viewer.link
         /\ viewer'.dial = viewer.dial /\ viewer'.doubled = viewer.doubled
         /\ viewer'.size = viewer.size /\ viewer'.sentSize = viewer.sentSize
  PROVE  SizeOK'
<1>1. Conn' = Conn /\ (HostHasIt' <=> HostHasIt)
  BY DEF Conn, HostHasIt
<1>2. \A p : Grants(p)' <=> Grants(p)
  BY <1>1 DEF Grants
<1>3. toHost'[Conn] = toHost[Conn] =>
        (AskedFor => AskedFor') /\ (AnswerComes => AnswerComes') /\ (SizeTold => SizeTold')
  BY <1>1, <1>2 DEF AskedFor, AnswerComes, SizeTold
<1> QED
  BY <1>1, <1>3 DEF SizeOK

\* A message of another connection than the window's.
LEMMA SizesStay ==
  ASSUME SizeOK, viewer' = viewer, up' = up, wire' = wire, toHost'[Conn] = toHost[Conn],
         HostHasIt' => HostHasIt /\ shell'.size = shell.size
  PROVE  SizeOK'
<1>1. Conn' = Conn /\ \A p : Grants(p)' <=> Grants(p)
  BY DEF Conn, Grants
<1>2. AskedFor => AskedFor'
  BY <1>1 DEF AskedFor
<1>3. AnswerComes => AnswerComes'
  BY <1>1 DEF AnswerComes
<1>4. SizeTold => SizeTold'
  BY <1>1 DEF SizeTold
<1> QED
  BY <1>1, <1>2, <1>3, <1>4 DEF SizeOK

LEMMA NothingHappens ==
  ASSUME IInv, UNCHANGED <<mirror, shell, gone, up, toHost, wire, viewer>>, rested' \in BOOLEAN
  PROVE  IInv'
<1>1. Typed /\ LinkOK /\ NetworkOK /\ AdmissionOK /\ OutputOnItsWay /\ SizeOK
  BY DEF IInv
<1>2. Conn' = Conn
  BY DEF Conn
<1>3. Typed'
  BY <1>1 DEF Typed
<1>4. LinkOK'
  BY <1>1 DEF LinkOK
<1>5. NetworkOK'
  BY <1>1, <1>2 DEF NetworkOK
<1>6. AdmissionOK' /\ OutputOnItsWay'
  BY <1>1, NothingComes
<1>7. SizeOK'
  <2>1. HostHasIt' => HostHasIt
    BY <1>2 DEF HostHasIt
  <2> QED
    BY <1>1, <2>1, SizesStay
<1> QED
  BY <1>3, <1>4, <1>5, <1>6, <1>7 DEF IInv

-----------------------------------------------------------------------------
(* The window asks for its shell.                                          *)

LEMMA AsksOnce ==
  ASSUME NEW s \in Seq(Request), NEW box \in Seq(Request), NEW size \in Sizes,
         \A k \in 1..Len(s) : s[k].type # "Open",
         \A k \in 1..Len(box) : box[k].type # "Open"
  PROVE  LET u == s \o (box \o <<Open(size)>>) IN
         /\ u # <<>> /\ u[Len(u)] = Open(size)
         /\ \A k \in 1..(Len(u) - 1) : u[k].type = "Resize"
<1> DEFINE b == box \o <<Open(size)>>
           u == s \o b
<1>0. Open(size) \in Request
  BY DEF Open, Request
<1>1. /\ Len(s) \in Nat /\ Len(box) \in Nat /\ b \in Seq(Request) /\ Len(b) = Len(box) + 1
      /\ b[Len(box) + 1] = Open(size)
      /\ \A k \in 1..Len(box) : b[k] = box[k]
  BY <1>0
<1> HIDE DEF b
<1>2. /\ u \in Seq(Request) /\ Len(u) = Len(s) + Len(box) + 1
      /\ \A k \in 1..Len(s) : u[k] = s[k]
      /\ \A k \in 1..Len(b) : u[Len(s) + k] = b[k]
  BY <1>1
<1> HIDE DEF u
<1>3. u # <<>> /\ u[Len(u)] = Open(size)
  <2>1. Len(u) = Len(s) + Len(b) /\ Len(b) \in 1..Len(b)
    BY <1>1, <1>2
  <2> QED
    BY <1>1, <1>2, <2>1
<1>4. ASSUME NEW k \in 1..(Len(u) - 1) PROVE u[k].type = "Resize"
  <2>1. k \in 1..Len(u) /\ u[k] \in Request
    BY <1>1, <1>2
  <2>2. u[k].type # "Open"
    <3>1. CASE k <= Len(s)
      <4>1. k \in 1..Len(s)
        BY <1>1, <3>1
      <4> QED
        BY <1>2, <4>1
    <3>2. CASE k > Len(s)
      <4>1. k - Len(s) \in 1..Len(box) /\ k - Len(s) \in 1..Len(b) /\ k = Len(s) + (k - Len(s))
        <5>1. k \in Nat /\ k <= Len(s) + Len(box)
          BY <1>1, <1>2
        <5> QED
          BY <1>1, <3>2, <5>1
      <4>2. u[k] = box[k - Len(s)]
        BY <1>1, <1>2, <4>1
      <4> QED
        BY <4>1, <4>2
    <3> QED
      BY <1>1, <1>2, <3>1, <3>2
  <2> QED
    BY <2>1, <2>2 DEF Request
<1> QED
  BY <1>3, <1>4 DEF u, b

LEMMA Reattaches ==
  ASSUME IInv, NEW me \in Window, Reattach(me),
         viewer.state \in {"Idle", "Reattaching"},
         /\ me.size = viewer.size /\ me.screen = viewer.screen /\ me.dial = viewer.dial
         /\ me.link = viewer.link /\ me.outbox = viewer.outbox /\ me.doubled = viewer.doubled
         /\ me.posted \in Seq({"ready", "lost"}),
         UNCHANGED <<mirror, shell, gone, up, wire>>, rested' = rested
  PROVE  /\ Typed' /\ NetworkOK' /\ AdmissionOK' /\ OutputOnItsWay' /\ SizeOK'
         /\ viewer'.state = "Reattaching" /\ viewer'.link = viewer.link
         /\ viewer'.posted = me.posted /\ (viewer.link => viewer'.outbox = <<>>)
<1> DEFINE we == [me EXCEPT !.state = "Reattaching", !.sentSize = me.size,
                            !.doubled = @ \/ Unanswered]
<1>1. Typed /\ NetworkOK /\ AdmissionOK /\ OutputOnItsWay
  BY DEF IInv
<1>2. /\ viewer.size \in Sizes /\ viewer.dial \in Conns /\ viewer.link \in BOOLEAN
      /\ viewer.outbox \in Seq(Request) /\ toHost[Conn] \in Seq(Request)
      /\ wire[Conn] \in Seq(Message)
  BY <1>1, Values DEF Conn
<1>3. we \in Window /\ we.dial = viewer.dial
  BY <1>2 DEF Window, Unanswered, OpenWaits
<1>4. <<Open(me.size)>> \in Seq(Request)
  BY <1>2 DEF Open, Request
<1>5. Emit(we, <<Open(me.size)>>)
  BY DEF Reattach
<1> HIDE DEF we
<1>6. /\ viewer' \in Window /\ toHost' \in [Conns -> Seq(Request)]
      /\ \E outbox : viewer' = [we EXCEPT !.outbox = outbox]
      /\ viewer'.outbox = IF we.link THEN <<>> ELSE we.outbox \o <<Open(me.size)>>
      /\ toHost'[Conn] = IF we.link /\ Conn \in up
                         THEN toHost[Conn] \o (we.outbox \o <<Open(me.size)>>) ELSE toHost[Conn]
      /\ \A c \in Conns : c # Conn => toHost'[c] = toHost[c]
  BY <1>1, <1>3, <1>4, <1>5, EmitsOf
<1>7. /\ viewer'.state = "Reattaching" /\ viewer'.link = viewer.link
      /\ viewer'.size = viewer.size /\ viewer'.sentSize = viewer.size
      /\ viewer'.dial = viewer.dial /\ viewer'.posted = me.posted
      /\ viewer'.doubled = (viewer.doubled \/ Unanswered)
      /\ we.link = viewer.link /\ we.outbox = viewer.outbox
  BY <1>6 DEF we, Window
<1>8. Conn' = Conn
  BY <1>7 DEF Conn
<1>9. Typed'
  BY <1>1, <1>6 DEF Typed
<1>10. NetworkOK'
  BY <1>1, <1>6, <1>8 DEF NetworkOK
<1>0. \A p : Grants(p)' <=> Grants(p)
  BY <1>8 DEF Grants
<1>11. AdmissionOK'
  BY <1>1, <1>7, <1>8, <1>0 DEF AdmissionOK
<1>12. OutputOnItsWay'
  <2>1. (Watching' => Watching) /\ Views' = Screens /\ Views = Screens
    BY <1>7, <1>8, <1>0 DEF Watching, Views
  <2>2. Reaches(Conn)' => Reaches(Conn)
    BY <1>7, <1>8 DEF Reaches
  <2> QED
    BY <1>1, <1>8, <2>1, <2>2 DEF OutputOnItsWay
<1>13. SizeOK'
  <2>1. SUFFICES ASSUME viewer.link, Conn \in up, ~Unanswered
                 PROVE  AskedFor'
    BY <1>7, <1>8 DEF SizeOK
  <2> DEFINE s == toHost[Conn]
             box == viewer.outbox
  <2>2. /\ \A k \in 1..Len(s) : s[k].type # "Open"
        /\ \A k \in 1..Len(box) : box[k].type # "Open"
        /\ \A k \in 1..Len(wire[Conn]) : wire[Conn][k].type # "Ack"
    BY <2>1 DEF Unanswered, OpenWaits, Conn
  <2>3. toHost'[Conn] = s \o (box \o <<Open(viewer.size)>>)
    BY <1>6, <1>7, <2>1
  <2> HIDE DEF s, box
  <2>4. LET u == s \o (box \o <<Open(viewer.size)>>) IN
        /\ u # <<>> /\ u[Len(u)] = Open(viewer.size)
        /\ \A k \in 1..(Len(u) - 1) : u[k].type = "Resize"
    <3>1. s \in Seq(Request) /\ box \in Seq(Request)
      BY <1>2 DEF s, box
    <3> QED
      BY <1>2, <2>2, <3>1, AsksOnce
  <2> QED
    BY <1>7, <1>8, <2>2, <2>3, <2>4 DEF AskedFor
<1> QED
  BY <1>6, <1>7, <1>9, <1>10, <1>11, <1>12, <1>13

LEMMA RunCommandKeeps ==
  ASSUME IInv, RunCommand
  PROVE  IInv'
<1> DEFINE me == [viewer EXCEPT !.posted = Tail(@)]
<1>1. Typed /\ LinkOK /\ NetworkOK /\ AdmissionOK /\ OutputOnItsWay /\ SizeOK
  BY DEF IInv
<1>2. /\ viewer.posted # <<>> /\ viewer.posted \in Seq({"ready", "lost"})
      /\ UNCHANGED <<mirror, shell, gone, up, wire>> /\ rested' = rested
  BY <1>1, Values DEF RunCommand
<1>3. Tail(viewer.posted) \in Seq({"ready", "lost"})
  BY <1>2
<1>4. viewer \in Window /\ me \in Window /\ viewer.link \in BOOLEAN
  BY <1>1, <1>3, Values DEF Window
<1>5. /\ me.state = viewer.state
      /\ me.size = viewer.size /\ me.screen = viewer.screen /\ me.dial = viewer.dial
      /\ me.link = viewer.link /\ me.outbox = viewer.outbox /\ me.doubled = viewer.doubled
      /\ me.posted = Tail(viewer.posted) /\ me.sentSize = viewer.sentSize
  BY <1>4 DEF Window
<1>6. CASE Head(viewer.posted) = "ready"
  <2>1. me.posted \in IF viewer.link THEN {<<>>} ELSE {<<"lost">>}
    <3>1. CASE viewer.link
      <4>1. viewer.posted = <<"ready">>
        BY <1>1, <1>2, <3>1 DEF LinkOK
      <4> QED
        BY <1>5, <3>1, <4>1
    <3>2. CASE ~viewer.link
      <4>1. viewer.posted = <<"ready", "lost">>
        <5>1. viewer.posted # <<"lost">>
          BY <1>6
        <5> QED
          BY <1>1, <1>2, <3>2, <5>1 DEF LinkOK
      <4>2. Tail(viewer.posted) = <<"lost">>
        BY <4>1
      <4> QED
        BY <1>5, <3>2, <4>2
    <3> QED
      BY <3>1, <3>2
  <2>2. <<"lost">> # <<>> /\ viewer.link \in BOOLEAN
    BY <1>4
  <2>3. CASE me.state \in {"Idle", "Reattaching"} /\ Reattach(me)
    <3>1. me.posted \in Seq({"ready", "lost"})
      BY <1>3, <1>5
    <3> HIDE DEF me
    <3>2. /\ Typed' /\ NetworkOK' /\ AdmissionOK' /\ OutputOnItsWay' /\ SizeOK'
          /\ viewer'.state = "Reattaching" /\ viewer'.link = viewer.link
          /\ viewer'.posted = me.posted /\ (viewer.link => viewer'.outbox = <<>>)
      BY <1>2, <1>4, <1>5, <2>3, <3>1, Reattaches
    <3>3. LinkOK'
      BY <2>1, <2>2, <3>2 DEF LinkOK
    <3> QED
      BY <3>2, <3>3 DEF IInv
  <2>4. CASE me.state # "Idle" /\ Emit(me, <<>>)
    <3>1. <<>> \in Seq(Request)
      OBVIOUS
    <3> HIDE DEF me
    <3>2. /\ viewer' \in Window /\ toHost' \in [Conns -> Seq(Request)]
          /\ \E outbox : viewer' = [me EXCEPT !.outbox = outbox]
          /\ viewer'.outbox = IF me.link THEN <<>> ELSE me.outbox \o <<>>
          /\ toHost'[Conn] = IF me.link /\ Conn \in up
                             THEN toHost[Conn] \o (me.outbox \o <<>>) ELSE toHost[Conn]
          /\ \A c \in Conns : c # Conn => toHost'[c] = toHost[c]
      BY <1>1, <1>4, <1>5, <2>4, <3>1, EmitsOf
    <3>3. /\ viewer'.state = viewer.state /\ viewer'.link = viewer.link
          /\ viewer'.size = viewer.size /\ viewer'.sentSize = viewer.sentSize
          /\ viewer'.dial = viewer.dial /\ viewer'.posted = me.posted
          /\ viewer'.screen = viewer.screen /\ viewer'.doubled = viewer.doubled
      BY <1>4, <1>5, <3>2 DEF Window
    <3>4. Conn' = Conn
      BY <3>3 DEF Conn
    <3>5. viewer.link /\ viewer.state \in {"Open", "Reattaching"} => toHost'[Conn] = toHost[Conn]
      <4>1. SUFFICES ASSUME viewer.outbox = <<>> PROVE toHost'[Conn] = toHost[Conn]
        BY <1>1 DEF LinkOK
      <4>2. me.outbox \o <<>> = <<>> /\ toHost[Conn] \o <<>> = toHost[Conn]
        BY <1>1, <1>5, <4>1, Values
      <4> QED
        BY <3>2, <4>2
    <3>6. Typed'
      BY <1>1, <1>2, <3>2 DEF Typed
    <3>7. LinkOK'
      BY <1>5, <2>1, <2>2, <3>2, <3>3 DEF LinkOK
    <3>8. NetworkOK'
      BY <1>1, <1>2, <3>2, <3>4 DEF NetworkOK
    <3>9. AdmissionOK' /\ OutputOnItsWay'
      BY <1>1, <1>2, <3>3, NothingComes
    <3>10. SizeOK'
      BY <1>1, <1>2, <3>3, <3>5, SameSizes
    <3> QED
      BY <3>6, <3>7, <3>8, <3>9, <3>10 DEF IInv
  <2> QED
    BY <1>6, <2>3, <2>4 DEF RunCommand
<1>7. CASE Head(viewer.posted) = "lost"
  <2>1. /\ viewer' = [me EXCEPT !.state = IF @ = "Closed" THEN @ ELSE "Idle", !.lost = TRUE]
        /\ UNCHANGED toHost
    BY <1>7 DEF RunCommand
  <2>2. ~viewer.link /\ viewer.posted = <<"lost">>
    <3>1. viewer.posted # <<"ready">> /\ viewer.posted # <<"ready", "lost">>
      BY <1>7
    <3> QED
      BY <1>1, <1>2, <3>1 DEF LinkOK
  <2>3. viewer' \in Window
    BY <1>4, <2>1 DEF Window
  <2>4. /\ viewer'.state \in {"Idle", "Closed"} /\ ~viewer'.link
        /\ viewer'.dial = viewer.dial /\ viewer'.posted = <<>>
    BY <1>4, <1>5, <2>1, <2>2 DEF Window
  <2>5. Conn' = Conn
    BY <2>4 DEF Conn
  <2>6. Typed'
    BY <1>1, <1>2, <2>1, <2>3 DEF Typed
  <2>7. LinkOK'
    BY <2>4 DEF LinkOK
  <2>8. NetworkOK'
    BY <1>1, <1>2, <2>1, <2>5 DEF NetworkOK
  <2>0. \A p : Grants(p)' <=> Grants(p)
    BY <1>2, <2>5 DEF Grants
  <2>9. AdmissionOK'
    BY <1>1, <1>2, <2>0, <2>4, <2>5 DEF AdmissionOK
  <2>10. OutputOnItsWay'
    <3>1. Watching' => Watching /\ Views = Screens
      BY <1>1, <1>2, <2>0, <2>4, <2>5 DEF Watching, Views, AdmissionOK
    <3>2. ~Reaches(Conn)' /\ Views' = Screens
      BY <2>4 DEF Reaches, Views
    <3> QED
      BY <1>1, <1>2, <2>5, <3>1, <3>2 DEF OutputOnItsWay
  <2>11. SizeOK'
    BY <2>4 DEF SizeOK
  <2> QED
    BY <2>6, <2>7, <2>8, <2>9, <2>10, <2>11 DEF IInv
<1> QED
  BY <1>6, <1>7 DEF RunCommand

LEMMA RetryResumeKeeps ==
  ASSUME IInv, RetryResume
  PROVE  IInv'
<1> DEFINE me == [viewer EXCEPT !.retry = FALSE]
<1>1. Typed /\ LinkOK /\ NetworkOK /\ AdmissionOK /\ OutputOnItsWay /\ SizeOK
  BY DEF IInv
<1>2. UNCHANGED <<mirror, shell, gone, up, wire>> /\ rested' = rested
  BY DEF RetryResume
<1>3. viewer \in Window /\ me \in Window /\ viewer.lost \in BOOLEAN
  BY <1>1, Values DEF Window
<1>4. /\ me.state = viewer.state
      /\ me.size = viewer.size /\ me.screen = viewer.screen /\ me.dial = viewer.dial
      /\ me.link = viewer.link /\ me.outbox = viewer.outbox /\ me.doubled = viewer.doubled
      /\ me.posted = viewer.posted /\ me.sentSize = viewer.sentSize /\ me.lost = viewer.lost
  BY <1>3 DEF Window
<1>5. CASE me.lost /\ me.link /\ me.state = "Idle" /\ Reattach(me)
  <2>1. me.posted \in Seq({"ready", "lost"}) /\ viewer.state \in {"Idle", "Reattaching"}
    BY <1>1, <1>4, <1>5, Values
  <2>2. Reattach(me) /\ viewer.link
    BY <1>4, <1>5
  <2> HIDE DEF me
  <2>3. /\ Typed' /\ NetworkOK' /\ AdmissionOK' /\ OutputOnItsWay' /\ SizeOK'
        /\ viewer'.state = "Reattaching" /\ viewer'.link = viewer.link
        /\ viewer'.posted = me.posted /\ (viewer.link => viewer'.outbox = <<>>)
    BY <1>2, <1>3, <1>4, <2>1, <2>2, Reattaches
  <2>4. LinkOK'
    BY <1>1, <1>4, <2>2, <2>3 DEF LinkOK
  <2> QED
    BY <2>3, <2>4 DEF IInv
<1>6. CASE viewer' = [me EXCEPT !.failed = me.lost] /\ UNCHANGED toHost
  <2>1. viewer' \in Window
    BY <1>3, <1>4, <1>6 DEF Window
  <2>2. /\ viewer'.state = viewer.state /\ viewer'.link = viewer.link
        /\ viewer'.size = viewer.size /\ viewer'.sentSize = viewer.sentSize
        /\ viewer'.dial = viewer.dial /\ viewer'.posted = viewer.posted
        /\ viewer'.screen = viewer.screen /\ viewer'.doubled = viewer.doubled
        /\ viewer'.outbox = viewer.outbox
    BY <1>3, <1>4, <1>6 DEF Window
  <2>3. Conn' = Conn /\ toHost' = toHost
    BY <1>6, <2>2 DEF Conn
  <2>4. Typed'
    BY <1>1, <1>2, <2>1, <2>3 DEF Typed
  <2>5. LinkOK'
    BY <1>1, <2>2 DEF LinkOK
  <2>6. NetworkOK'
    BY <1>1, <1>2, <2>3 DEF NetworkOK
  <2>7. AdmissionOK' /\ OutputOnItsWay'
    BY <1>1, <1>2, <2>2, NothingComes
  <2>8. SizeOK'
    BY <1>1, <1>2, <2>2, <2>3, SameSizes
  <2> QED
    BY <2>4, <2>5, <2>6, <2>7, <2>8 DEF IInv
<1> QED
  BY <1>5, <1>6 DEF RetryResume

LEMMA FlushKeeps ==
  ASSUME IInv, Flush
  PROVE  IInv'
<1>1. Typed /\ LinkOK /\ NetworkOK /\ AdmissionOK /\ OutputOnItsWay /\ SizeOK
  BY DEF IInv
<1>2. /\ UNCHANGED <<mirror, shell, gone, up, wire>> /\ rested' = rested
      /\ viewer.link /\ viewer.outbox # <<>> /\ Emit(viewer, <<>>)
  BY DEF Flush
<1>3. viewer \in Window /\ <<>> \in Seq(Request) /\ viewer.state \notin {"Open", "Reattaching"}
  BY <1>1, <1>2, Values DEF LinkOK
<1>4. /\ viewer' \in Window /\ toHost' \in [Conns -> Seq(Request)]
      /\ \E outbox : viewer' = [viewer EXCEPT !.outbox = outbox]
      /\ toHost'[Conn] = IF viewer.link /\ Conn \in up
                         THEN toHost[Conn] \o (viewer.outbox \o <<>>) ELSE toHost[Conn]
      /\ \A c \in Conns : c # Conn => toHost'[c] = toHost[c]
  BY <1>1, <1>2, <1>3, EmitsOf
<1>5. /\ viewer'.state = viewer.state /\ viewer'.link = viewer.link
      /\ viewer'.dial = viewer.dial /\ viewer'.posted = viewer.posted
      /\ viewer'.screen = viewer.screen
  BY <1>3, <1>4 DEF Window
<1>6. Conn' = Conn
  BY <1>5 DEF Conn
<1>7. Typed'
  BY <1>1, <1>2, <1>4 DEF Typed
<1>8. LinkOK'
  BY <1>1, <1>3, <1>5 DEF LinkOK
<1>9. NetworkOK'
  BY <1>1, <1>2, <1>4, <1>6 DEF NetworkOK
<1>10. AdmissionOK' /\ OutputOnItsWay'
  BY <1>1, <1>2, <1>5, NothingComes
<1>11. SizeOK'
  BY <1>3, <1>5 DEF SizeOK
<1> QED
  BY <1>7, <1>8, <1>9, <1>10, <1>11 DEF IInv

\* A size told behind others is the last one.
LEMMA ResizeIsTold ==
  ASSUME NEW s \in Seq(Request), NEW size \in Sizes,
         \A k \in 1..Len(s) : s[k].type = "Resize"
  PROVE  LET u == s \o <<Resized(size)>> IN
         /\ u # <<>> /\ u[Len(u)].size = size
         /\ \A k \in 1..Len(u) : u[k].type = "Resize"
<1> DEFINE u == s \o <<Resized(size)>>
<1>1. /\ Len(s) \in Nat /\ Len(u) = Len(s) + 1 /\ u[Len(s) + 1] = Resized(size)
      /\ \A k \in 1..Len(s) : u[k] = s[k]
  OBVIOUS
<1> HIDE DEF u
<1>2. u # <<>>
  BY <1>1
<1>3. u[Len(u)].size = size /\ u[Len(u)].type = "Resize"
  BY <1>1 DEF Resized
<1>4. \A k \in 1..Len(u) : u[k].type = "Resize"
  BY <1>1, <1>3
<1> QED
  BY <1>2, <1>3, <1>4 DEF u

LEMMA ResizeKeeps ==
  ASSUME IInv, NEW size \in Sizes, Resize(size)
  PROVE  IInv'
<1> DEFINE me == [viewer EXCEPT !.size = size, !.resizes = @ + 1]
           told == IF viewer.state = "Open" THEN <<Resized(size)>> ELSE <<>>
<1>1. Typed /\ LinkOK /\ NetworkOK /\ AdmissionOK /\ OutputOnItsWay /\ SizeOK
  BY DEF IInv
<1>2. /\ UNCHANGED <<mirror, shell, gone, up, wire>> /\ rested' = rested
      /\ viewer.resizes < MaxResizes /\ Emit(me, told)
  BY DEF Resize
<1>3. viewer \in Window /\ me \in Window
  <2>1. viewer \in Window /\ viewer.resizes + 1 \in 0..MaxResizes
    <3>1. viewer \in Window
      BY <1>1, Values
    <3>2. viewer.resizes \in 0..MaxResizes
      BY <3>1 DEF Window
    <3> QED
      BY <1>2, <3>1, <3>2, OutputOK
  <2> QED
    BY <2>1 DEF Window
<1>4. /\ me.state = viewer.state /\ me.size = size
      /\ me.screen = viewer.screen /\ me.dial = viewer.dial
      /\ me.link = viewer.link /\ me.outbox = viewer.outbox /\ me.doubled = viewer.doubled
      /\ me.posted = viewer.posted /\ me.sentSize = viewer.sentSize
  BY <1>3 DEF Window
<1>5. told \in Seq(Request)
  <2>1. Resized(size) \in Request
    BY DEF Resized, Request
  <2>2. <<Resized(size)>> \in Seq(Request) /\ <<>> \in Seq(Request)
    BY <2>1
  <2> QED
    BY <2>2
<1> HIDE DEF me, told
<1>6. /\ viewer' \in Window /\ toHost' \in [Conns -> Seq(Request)]
      /\ \E outbox : viewer' = [me EXCEPT !.outbox = outbox]
      /\ viewer'.outbox = IF me.link THEN <<>> ELSE me.outbox \o told
      /\ toHost'[Conn] = IF me.link /\ Conn \in up
                         THEN toHost[Conn] \o (me.outbox \o told) ELSE toHost[Conn]
      /\ \A c \in Conns : c # Conn => toHost'[c] = toHost[c]
  BY <1>1, <1>2, <1>3, <1>4, <1>5, EmitsOf
<1>7. /\ viewer'.state = viewer.state /\ viewer'.link = viewer.link
      /\ viewer'.size = size /\ viewer'.sentSize = viewer.sentSize
      /\ viewer'.dial = viewer.dial /\ viewer'.posted = viewer.posted
      /\ viewer'.screen = viewer.screen /\ viewer'.doubled = viewer.doubled
  BY <1>3, <1>4, <1>6 DEF Window
<1>8. Conn' = Conn
  BY <1>7 DEF Conn
<1>9. Typed'
  BY <1>1, <1>2, <1>6 DEF Typed
<1>10. LinkOK'
  BY <1>1, <1>4, <1>6, <1>7 DEF LinkOK
<1>11. NetworkOK'
  BY <1>1, <1>2, <1>6, <1>8 DEF NetworkOK
<1>12. AdmissionOK' /\ OutputOnItsWay'
  BY <1>1, <1>2, <1>7, NothingComes
<1>13. SizeOK'
  <2>1. SUFFICES ASSUME viewer.link, Conn \in up, ~viewer.doubled,
                        viewer.state \in {"Open", "Reattaching"}
                 PROVE  /\ viewer.state = "Reattaching" => (AskedFor \/ AnswerComes)'
                        /\ viewer.state = "Open" => SizeTold'
    BY <1>2, <1>7, <1>8 DEF SizeOK
  <2>2. viewer.outbox = <<>> /\ toHost'[Conn] = toHost[Conn] \o told
    <3>1. viewer.outbox = <<>>
      BY <1>1, <2>1 DEF LinkOK
    <3>2. <<>> \o told = told
      BY <1>5
    <3> QED
      BY <1>4, <1>6, <2>1, <3>1, <3>2
  <2>3. CASE viewer.state = "Reattaching"
    <3>1. toHost'[Conn] = toHost[Conn]
      BY <1>1, <2>2, <2>3, Values DEF told
    <3> QED
      BY <1>1, <1>2, <1>7, <1>8, <2>1, <2>3, <3>1
      DEF SizeOK, AskedFor, AnswerComes, HostHasIt, Grants
  <2>4. CASE viewer.state = "Open"
    <3>1. \A k \in 1..Len(toHost[Conn]) : toHost[Conn][k].type = "Resize"
      BY <1>1, <2>1, <2>4 DEF SizeOK, SizeTold
    <3>2. toHost'[Conn] = toHost[Conn] \o <<Resized(size)>>
      BY <2>2, <2>4 DEF told
    <3>3. /\ toHost'[Conn] # <<>> /\ toHost'[Conn][Len(toHost'[Conn])].size = size
          /\ \A k \in 1..Len(toHost'[Conn]) : toHost'[Conn][k].type = "Resize"
      BY <1>1, <3>1, <3>2, ResizeIsTold, Values
    <3> QED
      BY <1>7, <1>8, <2>4, <3>3 DEF SizeTold
  <2> QED
    BY <2>1, <2>3, <2>4
<1> QED
  BY <1>9, <1>10, <1>11, <1>12, <1>13 DEF IInv

-----------------------------------------------------------------------------
(* Connections come and go.                                                *)

LEMMA DialAndAdmitKeeps ==
  ASSUME IInv, DialAndAdmit
  PROVE  IInv'
<1>1. Typed /\ LinkOK /\ NetworkOK /\ AdmissionOK /\ OutputOnItsWay /\ SizeOK
  BY DEF IInv
<1>2. /\ ~viewer.link /\ viewer.dial < MaxDials
      /\ viewer.posted = <<>> /\ wire[viewer.dial] = <<>>
      /\ viewer' = [viewer EXCEPT !.link = TRUE, !.dial = @ + 1, !.posted = <<"ready">>,
                                   !.doubled = OpenWaits]
      /\ up' = up \cup {viewer.dial + 1}
      /\ UNCHANGED <<mirror, shell, gone, toHost, wire>> /\ rested' = rested
  BY DEF DialAndAdmit
<1>3. /\ viewer \in Window /\ viewer.state \in {"Idle", "Closed"} /\ <<"ready">> # <<>>
      /\ viewer.dial + 1 \in Conns /\ viewer.dial \in Nat
      /\ Conns \subseteq Nat /\ shell.peer \in Nat
  <2>1. viewer \in Window /\ viewer.dial \in Conns /\ shell.peer \in Conns
    BY <1>1, Values DEF Conn
  <2>2. viewer.state \in {"Idle", "Closed"}
    BY <1>1, <1>2 DEF LinkOK
  <2>3. \A c \in Conns : c \in Nat /\ (c < MaxDials => c + 1 \in Conns)
    BY OutputOK DEF Conns
  <2> QED
    BY <1>2, <2>1, <2>2, <2>3
<1>4. viewer' \in Window
  <2>1. <<"ready">> \in Seq({"ready", "lost"}) /\ OpenWaits \in BOOLEAN
    BY DEF OpenWaits
  <2> HIDE DEF OpenWaits
  <2> QED
    BY <1>2, <1>3, <2>1 DEF Window
<1>5. /\ viewer'.state = viewer.state /\ viewer'.link /\ viewer'.dial = viewer.dial + 1
      /\ viewer'.posted = <<"ready">>
  BY <1>2, <1>3 DEF Window
<1>6. Conn' = Conn + 1 /\ Conn' \in Conns /\ Conn = viewer.dial
  BY <1>3, <1>5 DEF Conn
<1>7. toHost[Conn'] = <<>> /\ wire[Conn'] = <<>> /\ Conn' \notin up \cup gone
  BY <1>1, <1>3, <1>6 DEF NetworkOK
<1>8. Typed'
  BY <1>1, <1>2, <1>3, <1>4 DEF Typed
<1>9. LinkOK'
  BY <1>3, <1>5 DEF LinkOK
<1>10. NetworkOK'
  <2>1. (gone \cap up = {})'
    BY <1>1, <1>2, <1>6, <1>7 DEF NetworkOK
  <2>2. (shell.peer <= Conn)'
    BY <1>1, <1>2, <1>3, <1>6 DEF NetworkOK
  <2>3. ASSUME NEW c \in Conns
        PROVE  /\ c > Conn' => c \notin up' \cup gone' /\ toHost'[c] = <<>> /\ wire'[c] = <<>>
               /\ toHost'[c] # <<>> => c \in up'
    <3>1. c > Conn' => c > Conn /\ c # viewer.dial + 1
      BY <1>3, <1>6
    <3> QED
      BY <1>1, <1>2, <3>1 DEF NetworkOK
  <2>4. (shell.state = "Detached" => shell.peer \notin up)'
    <3>1. shell.peer # viewer.dial + 1
      BY <1>1, <1>3 DEF NetworkOK, Conn
    <3> QED
      BY <1>1, <1>2, <3>1 DEF NetworkOK
  <2> QED
    BY <2>1, <2>2, <2>3, <2>4 DEF NetworkOK
<1>11. Len(wire'[Conn']) = 0 /\ wire'[Conn'] = <<>>
  BY <1>2, <1>7
<1>12. AdmissionOK'
  BY <1>3, <1>5, <1>11 DEF AdmissionOK, Grants
<1>13. OutputOnItsWay'
  <2>1. ~Watching'
    BY <1>3, <1>5, <1>11 DEF Watching, Grants
  <2> QED
    BY <1>1, <1>2, <2>1 DEF OutputOnItsWay
<1>14. SizeOK'
  BY <1>3, <1>5 DEF SizeOK
<1> QED
  BY <1>8, <1>9, <1>10, <1>12, <1>13, <1>14 DEF IInv

LEMMA AppendTwo ==
  ASSUME NEW a, NEW b
  PROVE  Append(<<a>>, b) = <<a, b>> /\ <<a, b>> # <<>>
<1> DEFINE S == {a, b}
           r == <<a>>
           u == Append(r, b)
           v == <<a, b>>
<1>1. r \in Seq(S) /\ Len(r) = 1 /\ r[1] = a /\ b \in S
  OBVIOUS
<1>2. v \in Seq(S) /\ Len(v) = 2 /\ v[1] = a /\ v[2] = b
  OBVIOUS
<1> HIDE DEF r, v, S
<1>3. /\ u \in Seq(S) /\ Len(u) = Len(r) + 1 /\ u[Len(r) + 1] = b
      /\ \A i \in 1..Len(r) : u[i] = r[i]
  BY <1>1
<1> HIDE DEF u
<1>4. Len(u) = 2 /\ u[1] = a /\ u[2] = b
  BY <1>1, <1>3
<1>5. \A i \in 1..Len(u) : u[i] = v[i]
  BY <1>2, <1>4
<1>6. u = v
  BY <1>2, <1>3, <1>4, <1>5, SeqEqual
<1>7. v # <<>>
  BY <1>2
<1> QED
  BY <1>6, <1>7 DEF r, u, v

LEMMA LinkLostKeeps ==
  ASSUME IInv, LinkLost
  PROVE  IInv'
<1>1. Typed /\ LinkOK /\ NetworkOK /\ AdmissionOK /\ OutputOnItsWay /\ SizeOK
  BY DEF IInv
<1>2. PICK n \in 0..Len(toHost[Conn]), m \in 0..Len(wire[Conn]) :
        /\ toHost' = [toHost EXCEPT ![Conn] = SubSeq(@, 1, n)]
        /\ wire' = [wire EXCEPT ![Conn] = SubSeq(@, 1, m)]
  BY DEF LinkLost, Conn
<1>3. /\ viewer.link
      /\ viewer' = [viewer EXCEPT !.link = FALSE, !.posted = Append(@, "lost")]
      /\ UNCHANGED <<mirror, shell, gone, up>> /\ rested' = rested
  BY DEF LinkLost
<1>4. /\ viewer \in Window /\ Conn \in Conns /\ Append(viewer.posted, "lost") \in Seq({"ready", "lost"})
      /\ wire \in [Conns -> Seq(Message)] /\ wire[Conn] \in Seq(Message)
      /\ toHost \in [Conns -> Seq(Request)] /\ toHost[Conn] \in Seq(Request)
  BY <1>1, Values
<1>5. viewer' \in Window
  BY <1>3, <1>4 DEF Window
<1>6. /\ viewer'.state = viewer.state /\ ~viewer'.link /\ viewer'.dial = viewer.dial
      /\ viewer'.posted = Append(viewer.posted, "lost") /\ viewer'.screen = viewer.screen
  BY <1>3, <1>4 DEF Window
<1>7. Conn' = Conn
  BY <1>6 DEF Conn
<1>8. /\ wire'[Conn] = SubSeq(wire[Conn], 1, m) /\ Len(wire'[Conn]) = m
      /\ wire'[Conn] \in Seq(Message) /\ m \in Nat /\ m <= Len(wire[Conn])
      /\ \A k \in 1..m : k \in 1..Len(wire[Conn]) /\ wire'[Conn][k] = wire[Conn][k]
      /\ wire' \in [Conns -> Seq(Message)]
      /\ \A c \in Conns : c # Conn => wire'[c] = wire[c]
  BY <1>2, <1>4
<1>9. /\ toHost'[Conn] = SubSeq(toHost[Conn], 1, n) /\ Len(toHost'[Conn]) = n
      /\ toHost' \in [Conns -> Seq(Request)] /\ n <= Len(toHost[Conn])
      /\ \A c \in Conns : c # Conn => toHost'[c] = toHost[c]
  BY <1>2, <1>4
<1>10. Typed'
  BY <1>1, <1>3, <1>5, <1>8, <1>9 DEF Typed, Message
<1>11. LinkOK'
  <2>1. viewer.posted \in {<<>>, <<"ready">>}
    BY <1>1, <1>3 DEF LinkOK
  <2>2. viewer'.posted \in {<<"lost">>, <<"ready", "lost">>} /\ viewer'.posted # <<>>
    <3>1. Append(<<>>, "lost") = <<"lost">> /\ <<"lost">> # <<>>
      OBVIOUS
    <3>2. Append(<<"ready">>, "lost") = <<"ready", "lost">> /\ <<"ready", "lost">> # <<>>
      BY AppendTwo
    <3> QED
      BY <1>6, <2>1, <3>1, <3>2
  <2> QED
    BY <1>6, <2>2 DEF LinkOK
<1>12. NetworkOK'
  <2>1. toHost[Conn] = <<>> => toHost'[Conn] = <<>>
    BY <1>4, <1>9
  <2>2. Conn \in Nat /\ ~(Conn > Conn)
    BY <1>4 DEF Conns
  <2> QED
    BY <1>1, <1>3, <1>7, <1>8, <1>9, <2>1, <2>2 DEF NetworkOK
<1>13. \A p : Grants(p)' => Grants(p)
  BY <1>7, <1>8 DEF Grants
<1>14. AdmissionOK'
  <2>1. ASSUME NEW p \in 1..Len(wire'[Conn]), Grants(p)'
        PROVE  /\ viewer'.state # "Open"
               /\ \A k \in 1..(p - 1) : ~IsPiece(wire'[Conn][k])
               /\ \A k \in 1..Len(wire'[Conn]) : Grants(k)' => k = p
    <3>1. Grants(p) /\ p \in 1..Len(wire[Conn]) /\ p \in 1..m
      BY <1>8, <1>13, <2>1
    <3>2. \A k \in 1..(p - 1) : k \in 1..m
      BY <1>8, <3>1
    <3> QED
      BY <1>1, <1>6, <1>8, <1>13, <3>1, <3>2 DEF AdmissionOK
  <2>2. ASSUME Conn \in up, shell.peer # Conn
        PROVE  /\ viewer'.state # "Open"
               /\ \A k \in 1..Len(wire'[Conn]) : ~IsPiece(wire'[Conn][k]) /\ ~Grants(k)'
    BY <1>1, <1>6, <1>8, <1>13, <2>2 DEF AdmissionOK
  <2> QED
    BY <1>3, <1>7, <2>1, <2>2 DEF AdmissionOK
<1>15. OutputOnItsWay'
  <2>1. (Watching' => Watching) /\ Views' = Views
    BY <1>6, <1>7, <1>8, <1>13 DEF Watching, Views
  <2>2. Watching' => \A screen \in Views' : Continues(screen, wire'[Conn'])
    <3>1. \A screen : Continues(screen, wire[Conn]) => Continues(screen, wire'[Conn])
      BY <1>4, <1>8, PrefixGoesOn
    <3> QED
      BY <1>1, <1>7, <2>1, <3>1 DEF OutputOnItsWay
  <2>3. ~Reaches(Conn)'
    BY <1>6 DEF Reaches
  <2> QED
    BY <1>1, <1>3, <2>2, <2>3 DEF OutputOnItsWay
<1>16. SizeOK'
  BY <1>6 DEF SizeOK
<1> QED
  BY <1>10, <1>11, <1>12, <1>14, <1>15, <1>16 DEF IInv

LEMMA OnPeerGoneKeeps ==
  ASSUME IInv, NEW c \in Conns, OnPeerGone(c)
  PROVE  IInv'
<1>1. Typed /\ LinkOK /\ NetworkOK /\ AdmissionOK /\ OutputOnItsWay /\ SizeOK
  BY DEF IInv
<1>2. /\ c \in up /\ up' = up \ {c} /\ gone' = gone \cup {c}
      /\ toHost' = [toHost EXCEPT ![c] = <<>>]
      /\ UNCHANGED <<mirror, shell, wire, viewer>> /\ rested' = rested
  BY DEF OnPeerGone
<1>3. toHost' \in [Conns -> Seq(Request)] /\ toHost'[c] = <<>> /\ Conn \in Conns
      /\ \A d \in Conns : d # c => toHost'[d] = toHost[d]
  BY <1>1, <1>2, Values
<1>4. Conn' = Conn
  BY <1>2 DEF Conn
<1>5. Typed'
  BY <1>1, <1>2, <1>3 DEF Typed
<1>6. LinkOK'
  BY <1>1, <1>2 DEF LinkOK
<1>7. NetworkOK'
  BY <1>1, <1>2, <1>3, <1>4 DEF NetworkOK
<1>8. AdmissionOK'
  BY <1>1, <1>2, <1>4 DEF AdmissionOK, Grants
<1>9. OutputOnItsWay'
  BY <1>1, <1>2, <1>4 DEF OutputOnItsWay, Watching, Views, Grants, Reaches
<1>10. SizeOK'
  <2>1. Conn \in up' => toHost'[Conn] = toHost[Conn] /\ Conn \in up
    BY <1>2, <1>3
  <2> QED
    BY <1>1, <1>2, <1>4, <2>1
    DEF SizeOK, AskedFor, AnswerComes, SizeTold, HostHasIt, Grants
<1> QED
  BY <1>5, <1>6, <1>7, <1>8, <1>9, <1>10 DEF IInv

LEMMA IntervalPassesKeeps ==
  ASSUME IInv, IntervalPasses
  PROVE  IInv'
BY NothingHappens DEF IntervalPasses

-----------------------------------------------------------------------------
(* The window is told something.                                           *)

LEMMA KindsOfMessages ==
  ASSUME NEW m \in Message
  PROVE  /\ m.type = "Ack" => m \in Answer /\ m.accepted \in BOOLEAN
         /\ m.type = "Ack" /\ m.accepted => m = Ack(TRUE)
         /\ m.type = "Exit" => m \in Answer
         /\ m.type \in {"Out", "Paint"} => m \in Piece
         /\ m.type # "Ack" => m # Ack(TRUE)
         /\ m \in Answer \cup Piece
<1>1. CASE m \in [type : {"Ack"}, accepted : BOOLEAN]
  BY <1>1 DEF Answer, Ack
<1>2. CASE m = Exit
  BY <1>2 DEF Answer, Exit, Ack
<1>3. CASE m \in Piece
  BY <1>3 DEF Piece, Ack
<1> QED
  BY <1>1, <1>2, <1>3 DEF Message, Answer

\* What every message does: it is taken off the wire, and the window may answer.
LEMMA Handles ==
  ASSUME IInv, NEW me \in Window, NEW messages \in Seq(Request), Emit(me, messages),
         /\ me.size = viewer.size /\ me.sentSize = viewer.sentSize /\ me.dial = viewer.dial
         /\ me.link = viewer.link /\ me.posted = viewer.posted
         /\ me.outbox = viewer.outbox /\ me.doubled = viewer.doubled,
         me.state \in {viewer.state, "Idle", "Closed", "Open"},
         me.state = "Open" => viewer.state \in {"Open", "Reattaching"},
         wire[Conn] # <<>>, wire' = [wire EXCEPT ![Conn] = Tail(@)],
         UNCHANGED <<mirror, shell, gone, up>>, rested' = rested
  PROVE  /\ Typed' /\ LinkOK' /\ NetworkOK' /\ Conn' = Conn
         /\ viewer'.state = me.state /\ viewer'.link = viewer.link
         /\ viewer'.size = viewer.size /\ viewer'.sentSize = viewer.sentSize
         /\ viewer'.screen = me.screen /\ viewer'.doubled = viewer.doubled
         /\ viewer'.dial = viewer.dial
         /\ viewer.link /\ Conn \in up /\ viewer.state \in {"Open", "Reattaching"} =>
              toHost'[Conn] = toHost[Conn] \o messages
         /\ wire'[Conn] = Tail(wire[Conn]) /\ Len(wire'[Conn]) = Len(wire[Conn]) - 1
         /\ \A k \in 1..Len(wire'[Conn]) :
              k + 1 \in 1..Len(wire[Conn]) /\ wire'[Conn][k] = wire[Conn][k + 1]
         /\ \A p : Grants(p)' => Grants(p + 1)
<1>1. Typed /\ LinkOK /\ NetworkOK
  BY DEF IInv
<1>2. /\ Conn \in Conns /\ wire[Conn] \in Seq(Message) /\ wire \in [Conns -> Seq(Message)]
      /\ toHost[Conn] \in Seq(Request) /\ viewer.link \in BOOLEAN
  BY <1>1, Values
<1>3. /\ viewer' \in Window /\ toHost' \in [Conns -> Seq(Request)]
      /\ \E outbox : viewer' = [me EXCEPT !.outbox = outbox]
      /\ viewer'.outbox = IF me.link THEN <<>> ELSE me.outbox \o messages
      /\ toHost'[Conn] = IF me.link /\ Conn \in up
                         THEN toHost[Conn] \o (me.outbox \o messages) ELSE toHost[Conn]
      /\ \A c \in Conns : c # Conn => toHost'[c] = toHost[c]
  BY <1>1, EmitsOf
<1>4. /\ viewer'.state = me.state /\ viewer'.link = viewer.link
      /\ viewer'.size = viewer.size /\ viewer'.sentSize = viewer.sentSize
      /\ viewer'.dial = viewer.dial /\ viewer'.posted = viewer.posted
      /\ viewer'.screen = me.screen /\ viewer'.doubled = viewer.doubled
  BY <1>3 DEF Window
<1>5. Conn' = Conn
  BY <1>4 DEF Conn
<1>6. /\ wire'[Conn] = Tail(wire[Conn]) /\ wire' \in [Conns -> Seq(Message)]
      /\ \A c \in Conns : c # Conn => wire'[c] = wire[c]
  BY <1>2
<1>7. /\ Len(wire[Conn]) \in Nat \ {0} /\ Len(wire'[Conn]) = Len(wire[Conn]) - 1
      /\ \A k \in 1..Len(wire'[Conn]) :
              k + 1 \in 1..Len(wire[Conn]) /\ wire'[Conn][k] = wire[Conn][k + 1]
  BY <1>2, <1>6
<1>8. Typed'
  BY <1>1, <1>3, <1>6 DEF Typed, Message
<1>9. LinkOK'
  BY <1>1, <1>2, <1>3, <1>4 DEF LinkOK
<1>10. NetworkOK'
  <2>1. ~(Conn > Conn)
    BY <1>2 DEF Conns
  <2>2. ASSUME NEW c \in Conns
        PROVE  /\ c > Conn => c \notin up \cup gone /\ toHost'[c] = <<>> /\ wire'[c] = <<>>
               /\ toHost'[c] # <<>> => c \in up
    <3>1. CASE c = Conn
      BY <1>1, <1>2, <1>3, <2>1, <3>1 DEF NetworkOK
    <3>2. CASE c # Conn
      <4>1. toHost'[c] = toHost[c] /\ wire'[c] = wire[c]
        BY <1>3, <1>6, <3>2
      <4> QED
        BY <1>1, <4>1 DEF NetworkOK
    <3> QED
      BY <3>1, <3>2
  <2> QED
    BY <1>1, <1>5, <2>2 DEF NetworkOK
<1>11. \A p : Grants(p)' => Grants(p + 1)
  BY <1>5, <1>7 DEF Grants
<1>12. viewer.link /\ Conn \in up /\ viewer.state \in {"Open", "Reattaching"} =>
         toHost'[Conn] = toHost[Conn] \o messages
  <2>1. SUFFICES ASSUME viewer.link, Conn \in up, viewer.outbox = <<>>
                 PROVE  toHost'[Conn] = toHost[Conn] \o messages
    BY <1>1 DEF LinkOK
  <2>2. <<>> \o messages = messages
    OBVIOUS
  <2> QED
    BY <1>3, <2>1, <2>2
<1> QED
  BY <1>4, <1>5, <1>6, <1>7, <1>8, <1>9, <1>10, <1>11, <1>12

\* A message that leaves the window where it was, or puts it out of its shell.
LEMMA StaysOut ==
  ASSUME IInv, NEW me \in Window, Emit(me, <<>>),
         /\ me.size = viewer.size /\ me.sentSize = viewer.sentSize /\ me.dial = viewer.dial
         /\ me.link = viewer.link /\ me.posted = viewer.posted
         /\ me.outbox = viewer.outbox /\ me.doubled = viewer.doubled,
         me.state \in {viewer.state, "Idle", "Closed"},
         /\ Head(wire[Conn]) \in Answer => me.screen = viewer.screen
         /\ Head(wire[Conn]) \in Piece /\ me.state = "Open" =>
              me.screen = Shown(viewer.screen, Head(wire[Conn])),
         wire[Conn] # <<>>, wire' = [wire EXCEPT ![Conn] = Tail(@)],
         UNCHANGED <<mirror, shell, gone, up>>, rested' = rested
  PROVE  IInv'
<1> DEFINE m == Head(wire[Conn])
<1>1. Typed /\ LinkOK /\ NetworkOK /\ AdmissionOK /\ OutputOnItsWay /\ SizeOK
  BY DEF IInv
<1>2. /\ wire[Conn] \in Seq(Message) /\ toHost[Conn] \in Seq(Request)
      /\ viewer.state \in {"Open", "Idle", "Reattaching", "Closed"}
  BY <1>1, Values
<1>3. m = wire[Conn][1] /\ 1 \in 1..Len(wire[Conn]) /\ m \in Message /\ Len(wire[Conn]) \in Nat
  BY <1>2
<1>4. /\ Typed' /\ LinkOK' /\ NetworkOK' /\ Conn' = Conn
      /\ viewer'.state = me.state /\ viewer'.link = viewer.link
      /\ viewer'.size = viewer.size /\ viewer'.sentSize = viewer.sentSize
      /\ viewer'.screen = me.screen /\ viewer'.doubled = viewer.doubled
      /\ viewer'.dial = viewer.dial
      /\ viewer.link /\ Conn \in up /\ viewer.state \in {"Open", "Reattaching"} =>
           toHost'[Conn] = toHost[Conn] \o <<>>
      /\ wire'[Conn] = Tail(wire[Conn]) /\ Len(wire'[Conn]) = Len(wire[Conn]) - 1
      /\ \A k \in 1..Len(wire'[Conn]) :
           k + 1 \in 1..Len(wire[Conn]) /\ wire'[Conn][k] = wire[Conn][k + 1]
      /\ \A p : Grants(p)' => Grants(p + 1)
  <2>1. <<>> \in Seq(Request)
    OBVIOUS
  <2>2. me.state = "Open" => viewer.state \in {"Open", "Reattaching"}
    OBVIOUS
  <2> QED
    BY <1>2, <2>1, <2>2, Handles
<1>5. me.state = "Open" => viewer.state = "Open"
  OBVIOUS
<1>6. Reaches(Conn)' => Reaches(Conn)
  BY <1>4 DEF Reaches
<1>7. AdmissionOK'
  <2>1. ASSUME NEW p \in 1..Len(wire'[Conn]), Grants(p)'
        PROVE  /\ viewer'.state # "Open"
               /\ \A k \in 1..(p - 1) : ~IsPiece(wire'[Conn][k])
               /\ \A k \in 1..Len(wire'[Conn]) : Grants(k)' => k = p
    <3>1. Grants(p + 1) /\ p + 1 \in 1..Len(wire[Conn])
      BY <1>4, <2>1
    <3>2. \A k \in 1..(p - 1) : k + 1 \in 1..((p + 1) - 1) /\ k \in 1..Len(wire'[Conn])
      BY <1>3, <1>4
    <3>3. ASSUME NEW k \in 1..Len(wire'[Conn]), Grants(k)' PROVE k = p
      <4>1. Grants(k + 1) /\ k + 1 \in 1..Len(wire[Conn])
        BY <1>4, <3>3
      <4>2. k + 1 = p + 1
        BY <1>1, <3>1, <4>1 DEF AdmissionOK
      <4> QED
        BY <4>2
    <3> QED
      BY <1>1, <1>4, <1>5, <3>1, <3>2, <3>3 DEF AdmissionOK
  <2>2. ASSUME Conn \in up, shell.peer # Conn
        PROVE  /\ viewer'.state # "Open"
               /\ \A k \in 1..Len(wire'[Conn]) : ~IsPiece(wire'[Conn][k]) /\ ~Grants(k)'
    BY <1>1, <1>4, <1>5, <2>2 DEF AdmissionOK
  <2> QED
    BY <1>4, <2>1, <2>2 DEF AdmissionOK
<1>8. OutputOnItsWay'
  <2>1. ASSUME Watching'
        PROVE  /\ Watching
               /\ \A screen \in Views' : \E before \in Views :
                    screen = IF IsPiece(m) THEN After(m) ELSE before
    <3>1. CASE viewer'.state = "Open"
      <4>1. viewer.state = "Open" /\ Watching /\ Views = {viewer.screen} /\ Views' = {me.screen}
        BY <1>4, <1>5, <3>1 DEF Watching, Views
      <4>2. CASE m \in Answer
        BY <1>3, <4>1, <4>2, PiecesAreShown
      <4>3. CASE m \in Piece
        <5>1. IsPiece(m) /\ me.screen = Shown(viewer.screen, m)
          BY <1>3, <1>4, <3>1, <4>3, PiecesAreShown
        <5>2. Fits(viewer.screen, m)
          <6>1. Continues(viewer.screen, wire[Conn])
            BY <1>1, <4>1 DEF OutputOnItsWay
          <6> QED
            BY <1>2, <5>1, <6>1, TailGoesOn
        <5> QED
          BY <4>1, <5>1, <5>2 DEF Shown
      <4> QED
        BY <1>3, <4>2, <4>3, KindsOfMessages
    <3>2. CASE viewer'.state # "Open"
      <4>1. PICK p \in 1..Len(wire'[Conn]) : Grants(p)'
        BY <1>4, <2>1, <3>2 DEF Watching
      <4>2. Grants(p + 1) /\ p + 1 \in 1..Len(wire[Conn]) /\ 1 \in 1..((p + 1) - 1)
        BY <1>4, <4>1
      <4>3. viewer.state # "Open" /\ ~IsPiece(m)
        BY <1>1, <1>3, <4>2 DEF AdmissionOK
      <4>4. Watching /\ Views = Screens /\ Views' = Screens
        BY <3>2, <4>2, <4>3 DEF Watching, Views
      <4> QED
        BY <4>3, <4>4
    <3> QED
      BY <3>1, <3>2
  <2>2. ASSUME Watching', NEW screen \in Views' PROVE Continues(screen, wire'[Conn])
    <3>1. Watching
      BY <2>1, <2>2
    <3>2. PICK before \in Views : screen = IF IsPiece(m) THEN After(m) ELSE before
      BY <2>1, <2>2
    <3>3. Continues(before, wire[Conn])
      BY <1>1, <3>1 DEF OutputOnItsWay
    <3> QED
      BY <1>2, <1>4, <3>2, <3>3, TailGoesOn
  <2>3. ASSUME Watching', Reaches(Conn)', shell.state = "Live", shell.peer = Conn,
               ~shell.behind, NEW screen \in Views'
        PROVE  \E mid \in Screens :
                 EndsAs(screen, wire'[Conn], mid) /\ Leads(mid, shell.pending, Whole(mirror))
    <3>1. Watching
      BY <2>1, <2>3
    <3>2. PICK before \in Views : screen = IF IsPiece(m) THEN After(m) ELSE before
      BY <2>1, <2>3
    <3>3. PICK mid \in Screens :
            EndsAs(before, wire[Conn], mid) /\ Leads(mid, shell.pending, Whole(mirror))
      BY <1>1, <1>6, <2>3, <3>1 DEF OutputOnItsWay
    <3>4. EndsAs(screen, wire'[Conn], mid)
      BY <1>2, <1>4, <3>2, <3>3, TailGoesOn
    <3> QED
      BY <3>3, <3>4
  <2>4. (shell.behind => shell.pending = <<>>)'
    BY <1>1 DEF OutputOnItsWay
  <2> QED
    BY <1>4, <2>2, <2>3, <2>4 DEF OutputOnItsWay
<1>9. SizeOK'
  <2>1. SUFFICES ASSUME viewer.link, Conn \in up, ~viewer.doubled,
                        me.state \in {"Open", "Reattaching"}
                 PROVE  /\ me.state = "Reattaching" => (AskedFor \/ AnswerComes)'
                        /\ me.state = "Open" => SizeTold'
    BY <1>4 DEF SizeOK
  <2>2. viewer.state = me.state
    BY <2>1
  <2>3. toHost'[Conn] = toHost[Conn]
    BY <1>2, <1>4, <2>1, <2>2
  <2>4. CASE me.state = "Reattaching"
    <3>1. CASE AskedFor
      <4>1. AskedFor'
        BY <1>4, <2>3, <3>1 DEF AskedFor
      <4> QED
        BY <2>4, <4>1
    <3>2. CASE AnswerComes
      <4>1. (\E p \in 1..Len(wire'[Conn]) : Grants(p)')
              => \E p \in 1..Len(wire[Conn]) : Grants(p)
        BY <1>4
      <4>2. AnswerComes'
        BY <1>4, <2>3, <3>2, <4>1 DEF AnswerComes, HostHasIt
      <4> QED
        BY <2>4, <4>2
    <3> QED
      BY <1>1, <2>1, <2>2, <2>4, <3>1, <3>2 DEF SizeOK
  <2>5. CASE me.state = "Open"
    <3>1. SizeTold
      BY <1>1, <2>1, <2>2, <2>5 DEF SizeOK
    <3> QED
      BY <1>4, <2>3, <2>5, <3>1 DEF SizeTold, HostHasIt
  <2> QED
    BY <2>1, <2>4, <2>5
<1> QED
  BY <1>4, <1>7, <1>8, <1>9 DEF IInv

\* The answer that lets it in: nothing was shown since, and what the host had to say comes
\* behind the answer.
LEMMA LetIn ==
  ASSUME IInv, wire[Conn] # <<>>, wire' = [wire EXCEPT ![Conn] = Tail(@)],
         Head(wire[Conn]) = Ack(TRUE), viewer.state = "Reattaching",
         Emit([viewer EXCEPT !.state = "Open", !.lost = FALSE, !.retry = FALSE],
              SizeToTell(viewer)),
         UNCHANGED <<mirror, shell, gone, up>>, rested' = rested
  PROVE  IInv'
<1> DEFINE me == [viewer EXCEPT !.state = "Open", !.lost = FALSE, !.retry = FALSE]
           told == SizeToTell(viewer)
<1>1. Typed /\ LinkOK /\ NetworkOK /\ AdmissionOK /\ OutputOnItsWay /\ SizeOK
  BY DEF IInv
<1>2. /\ viewer \in Window /\ wire[Conn] \in Seq(Message) /\ toHost[Conn] \in Seq(Request)
      /\ viewer.size \in Sizes /\ viewer.screen \in Screens
  BY <1>1, Values
<1>3. me \in Window
  BY <1>2 DEF Window
<1>4. /\ me.size = viewer.size /\ me.sentSize = viewer.sentSize /\ me.dial = viewer.dial
      /\ me.link = viewer.link /\ me.posted = viewer.posted /\ me.screen = viewer.screen
      /\ me.outbox = viewer.outbox /\ me.doubled = viewer.doubled /\ me.state = "Open"
  BY <1>2 DEF Window
<1>5. told \in Seq(Request)
  <2>1. Resized(viewer.size) \in Request
    BY <1>2 DEF Resized, Request
  <2>2. <<Resized(viewer.size)>> \in Seq(Request) /\ <<>> \in Seq(Request)
    BY <2>1
  <2> QED
    BY <2>2 DEF SizeToTell
<1>6. /\ Typed' /\ LinkOK' /\ NetworkOK' /\ Conn' = Conn
      /\ viewer'.state = me.state /\ viewer'.link = viewer.link
      /\ viewer'.size = viewer.size /\ viewer'.sentSize = viewer.sentSize
      /\ viewer'.screen = me.screen /\ viewer'.doubled = viewer.doubled
      /\ viewer'.dial = viewer.dial
      /\ viewer.link /\ Conn \in up /\ viewer.state \in {"Open", "Reattaching"} =>
           toHost'[Conn] = toHost[Conn] \o told
      /\ wire'[Conn] = Tail(wire[Conn]) /\ Len(wire'[Conn]) = Len(wire[Conn]) - 1
      /\ \A k \in 1..Len(wire'[Conn]) :
           k + 1 \in 1..Len(wire[Conn]) /\ wire'[Conn][k] = wire[Conn][k + 1]
      /\ \A p : Grants(p)' => Grants(p + 1)
  <2>1. Emit(me, told)
    OBVIOUS
  <2> HIDE DEF me, told
  <2> QED
    BY <1>3, <1>4, <1>5, <2>1, Handles
<1> HIDE DEF me
<1>7. wire[Conn][1] = Ack(TRUE) /\ 1 \in 1..Len(wire[Conn]) /\ Grants(1)
  <2>1. Head(wire[Conn]) = wire[Conn][1] /\ 1 \in 1..Len(wire[Conn])
    BY <1>2
  <2> QED
    BY <2>1 DEF Grants
<1>8. ~IsPiece(Head(wire[Conn]))
  BY DEF Ack, IsPiece
<1>9. \A k \in 1..Len(wire'[Conn]) : ~Grants(k)'
  <2>1. ASSUME NEW k \in 1..Len(wire'[Conn]), Grants(k)' PROVE FALSE
    <3>1. Grants(k + 1) /\ k + 1 \in 1..Len(wire[Conn])
      BY <1>6, <2>1
    <3>2. k + 1 = 1
      BY <1>1, <1>7, <3>1 DEF AdmissionOK
    <3> QED
      BY <3>2
  <2> QED
    BY <2>1
<1>10. AdmissionOK'
  <2>1. ~(Conn \in up /\ shell.peer # Conn)
    BY <1>1, <1>7 DEF AdmissionOK
  <2> QED
    BY <1>6, <1>9, <2>1 DEF AdmissionOK
<1>11. OutputOnItsWay'
  <2>1. Watching /\ viewer.screen \in Views /\ Views' = {viewer.screen}
    BY <1>2, <1>4, <1>6, <1>7 DEF Watching, Views
  <2>2. Continues(viewer.screen, wire'[Conn])
    <3>1. Continues(viewer.screen, wire[Conn])
      BY <1>1, <2>1 DEF OutputOnItsWay
    <3> QED
      BY <1>2, <1>6, <1>8, <3>1, TailGoesOn
  <2>3. ASSUME Reaches(Conn)', shell.state = "Live", shell.peer = Conn, ~shell.behind
        PROVE  \E mid \in Screens : /\ EndsAs(viewer.screen, wire'[Conn], mid)
                                    /\ Leads(mid, shell.pending, Whole(mirror))
    <3>1. Reaches(Conn)
      BY <1>6, <2>3 DEF Reaches
    <3>2. PICK mid \in Screens : /\ EndsAs(viewer.screen, wire[Conn], mid)
                                 /\ Leads(mid, shell.pending, Whole(mirror))
      BY <1>1, <2>1, <2>3, <3>1 DEF OutputOnItsWay
    <3>3. EndsAs(viewer.screen, wire'[Conn], mid)
      BY <1>2, <1>6, <1>8, <3>2, TailGoesOn
    <3> QED
      BY <3>2, <3>3
  <2>4. (shell.behind => shell.pending = <<>>)'
    BY <1>1 DEF OutputOnItsWay
  <2> QED
    BY <1>6, <2>1, <2>2, <2>3, <2>4 DEF OutputOnItsWay
<1>12. SizeOK'
  <2>1. SUFFICES ASSUME viewer.link, Conn \in up, ~viewer.doubled PROVE SizeTold'
    BY <1>4, <1>6 DEF SizeOK
  <2>2. ~AskedFor
    BY <1>7 DEF AskedFor, Ack
  <2>3. AnswerComes
    BY <1>1, <2>1, <2>2 DEF SizeOK
  <2>4. toHost[Conn] = <<>> /\ (HostHasIt => shell.size = viewer.sentSize)
    BY <1>7, <2>3 DEF AnswerComes
  <2>5. toHost'[Conn] = told
    <3>1. <<>> \o told = told
      BY <1>5
    <3> QED
      BY <1>6, <2>1, <2>4, <3>1
  <2>6. CASE viewer.size # viewer.sentSize
    <3>1. toHost'[Conn] = <<Resized(viewer.size)>>
      BY <2>5, <2>6 DEF SizeToTell
    <3>2. /\ Len(toHost'[Conn]) = 1 /\ toHost'[Conn] # <<>>
          /\ toHost'[Conn][1].type = "Resize" /\ toHost'[Conn][1].size = viewer.size
      BY <3>1 DEF Resized
    <3> QED
      BY <1>6, <3>2 DEF SizeTold
  <2>7. CASE viewer.size = viewer.sentSize
    <3>1. toHost'[Conn] = <<>> /\ Len(toHost'[Conn]) = 0
      BY <2>5, <2>7 DEF SizeToTell
    <3> QED
      BY <1>6, <2>4, <2>7, <3>1 DEF SizeTold, HostHasIt
  <2> QED
    BY <2>6, <2>7
<1> QED
  BY <1>6, <1>10, <1>11, <1>12 DEF IInv

LEMMA ClientHandlesMessageKeeps ==
  ASSUME IInv, ClientHandlesMessage
  PROVE  IInv'
<1> DEFINE m == Head(wire[Conn])
<1>1. Typed /\ LinkOK /\ NetworkOK /\ AdmissionOK /\ OutputOnItsWay /\ SizeOK
  BY DEF IInv
<1>2. /\ wire[Conn] # <<>> /\ wire' = [wire EXCEPT ![Conn] = Tail(@)]
      /\ UNCHANGED <<mirror, shell, gone, up>> /\ rested' = rested
      /\ \/ m.type = "Ack" /\ Acknowledged(viewer, m.accepted)
         \/ m.type = "Exit" /\ Emit([viewer EXCEPT !.state = "Closed"], <<>>)
         \/ /\ m.type \in {"Out", "Paint"}
            /\ Emit([viewer EXCEPT !.screen =
                       IF viewer.state = "Open" THEN Shown(@, m) ELSE @], <<>>)
  BY DEF ClientHandlesMessage, Conn
<1>3. /\ viewer \in Window /\ wire[Conn] \in Seq(Message) /\ viewer.screen \in Screens
      /\ viewer.state \in {"Open", "Idle", "Reattaching", "Closed"}
  BY <1>1, Values
<1>4. m \in Message
  BY <1>2, <1>3
<1>5. Answer \cap Piece = {}
  BY DEF Answer, Piece, Exit
<1>6. ASSUME NEW me \in Window, Emit(me, <<>>), m \in Answer,
             me \in {viewer, AskAgain(viewer), [viewer EXCEPT !.state = "Closed"]}
      PROVE  IInv'
  <2>1. /\ me.size = viewer.size /\ me.sentSize = viewer.sentSize /\ me.dial = viewer.dial
        /\ me.link = viewer.link /\ me.posted = viewer.posted /\ me.screen = viewer.screen
        /\ me.outbox = viewer.outbox /\ me.doubled = viewer.doubled
        /\ me.state \in {viewer.state, "Idle", "Closed"}
    BY <1>3, <1>6 DEF Window, AskAgain
  <2> QED
    BY <1>2, <1>5, <1>6, <2>1, StaysOut
<1>7. CASE m.type = "Ack" /\ Acknowledged(viewer, m.accepted)
  <2>1. m \in Answer /\ m.accepted \in BOOLEAN
    BY <1>4, <1>7, KindsOfMessages
  <2>2. CASE viewer.state # "Reattaching"
    BY <1>3, <1>6, <1>7, <2>1, <2>2 DEF Acknowledged
  <2>3. CASE viewer.state = "Reattaching" /\ ~m.accepted
    <3>1. Emit(AskAgain(viewer), <<>>)
      BY <1>7, <2>3 DEF Acknowledged
    <3>2. AskAgain(viewer) \in Window
      BY <1>3 DEF AskAgain, Window
    <3> QED
      BY <1>6, <2>1, <3>1, <3>2
  <2>4. CASE viewer.state = "Reattaching" /\ m.accepted
    <3>1. Emit([viewer EXCEPT !.state = "Open", !.lost = FALSE, !.retry = FALSE],
               SizeToTell(viewer))
      BY <1>7, <2>4 DEF Acknowledged
    <3>2. m = Ack(TRUE)
      BY <1>4, <1>7, <2>4, KindsOfMessages
    <3> QED
      BY <1>2, <2>4, <3>1, <3>2, LetIn
  <2> QED
    BY <2>1, <2>2, <2>3, <2>4
<1>8. CASE m.type = "Exit" /\ Emit([viewer EXCEPT !.state = "Closed"], <<>>)
  <2>1. m \in Answer
    BY <1>4, <1>8, KindsOfMessages
  <2>2. [viewer EXCEPT !.state = "Closed"] \in Window
    BY <1>3 DEF Window
  <2> QED
    BY <1>6, <1>8, <2>1, <2>2
<1>9. CASE /\ m.type \in {"Out", "Paint"}
           /\ Emit([viewer EXCEPT !.screen =
                      IF viewer.state = "Open" THEN Shown(@, m) ELSE @], <<>>)
  <2> DEFINE shows == IF viewer.state = "Open" THEN Shown(viewer.screen, m) ELSE viewer.screen
             me == [viewer EXCEPT !.screen = shows]
  <2>1. m \in Piece /\ m \notin Answer /\ IsPiece(m) /\ After(m) \in Screens
    BY <1>4, <1>5, <1>9, KindsOfMessages, PiecesAreShown
  <2>2. Emit(me, <<>>)
    BY <1>9
  <2>3. shows \in Screens
    <3>1. CASE viewer.state = "Open"
      <4>1. Continues(viewer.screen, wire[Conn])
        BY <1>1, <3>1 DEF OutputOnItsWay, Watching, Views
      <4>2. Fits(viewer.screen, m)
        BY <1>2, <1>3, <2>1, <4>1, TailGoesOn
      <4> QED
        BY <2>1, <3>1, <4>2 DEF Shown
    <3>2. CASE viewer.state # "Open"
      BY <1>3, <3>2
    <3> QED
      BY <3>1, <3>2
  <2>4. viewer.state = "Open" => shows = Shown(viewer.screen, m)
    OBVIOUS
  <2> HIDE DEF shows
  <2>5. /\ me \in Window
        /\ me.size = viewer.size /\ me.sentSize = viewer.sentSize /\ me.dial = viewer.dial
        /\ me.link = viewer.link /\ me.posted = viewer.posted /\ me.screen = shows
        /\ me.outbox = viewer.outbox /\ me.doubled = viewer.doubled
        /\ me.state = viewer.state
    BY <1>3, <2>3 DEF Window
  <2> HIDE DEF me
  <2> QED
    BY <1>2, <2>1, <2>2, <2>4, <2>5, StaysOut
<1> QED
  BY <1>2, <1>7, <1>8, <1>9

-----------------------------------------------------------------------------
(* The host.                                                               *)

\* One message more behind what is on its way: the answers that let the window in, and the
\* pieces, are those of before and perhaps this one.
LEMMA AnswerTold ==
  ASSUME IInv, NEW c \in Conns, NEW m \in Answer, Tell(c, <<m>>), viewer' = viewer
  PROVE  /\ wire' \in [Conns -> Seq(Message)]
         /\ \A d \in Conns : d # Conn => wire'[d] = wire[d]
         /\ wire' = wire \/ (c = Conn /\ Reaches(c) /\ wire'[Conn] = Append(wire[Conn], m))
         /\ Reaches(c) => wire'[Conn] = Append(wire[Conn], m)
         /\ Len(wire'[Conn]) >= Len(wire[Conn])
         /\ \A k \in 1..Len(wire'[Conn]) :
              \/ k \in 1..Len(wire[Conn]) /\ wire'[Conn][k] = wire[Conn][k]
              \/ /\ k = Len(wire[Conn]) + 1 /\ wire'[Conn][k] = m /\ ~IsPiece(wire'[Conn][k])
                 /\ Reaches(c) /\ c = Conn
         /\ \A screen : Continues(screen, wire[Conn]) => Continues(screen, wire'[Conn])
         /\ \A screen, final : EndsAs(screen, wire[Conn], final) => EndsAs(screen, wire'[Conn], final)
<1>1. Typed /\ wire[Conn] \in Seq(Message) /\ Len(wire[Conn]) \in Nat
  BY Values DEF IInv
<1>2. m \in Message /\ <<m>> \in Seq(Message) /\ ~IsPiece(m)
  BY PiecesAreShown DEF Message
<1>3. /\ wire' \in [Conns -> Seq(Message)]
      /\ \A d \in Conns : d # Conn => wire'[d] = wire[d]
      /\ Reaches(c) => c = Conn /\ wire'[Conn] = wire[Conn] \o <<m>>
      /\ ~Reaches(c) => wire' = wire
  BY <1>1, <1>2, TellsOf
<1>4. Append(wire[Conn], m) = wire[Conn] \o <<m>>
  BY <1>1, <1>2, AppendIsConcat
<1>5. CASE ~Reaches(c)
  BY <1>1, <1>3, <1>5
<1>6. CASE Reaches(c)
  <2>1. wire'[Conn] = Append(wire[Conn], m) /\ c = Conn
    BY <1>3, <1>4, <1>6
  <2>2. /\ Len(wire'[Conn]) = Len(wire[Conn]) + 1 /\ wire'[Conn][Len(wire[Conn]) + 1] = m
        /\ \A k \in 1..Len(wire[Conn]) : wire'[Conn][k] = wire[Conn][k]
    BY <1>1, <1>2, <2>1
  <2>3. \A k \in 1..Len(wire'[Conn]) : k \in 1..Len(wire[Conn]) \/ k = Len(wire[Conn]) + 1
    BY <1>1, <2>2
  <2>4. /\ \A screen : Continues(screen, wire[Conn]) => Continues(screen, wire'[Conn])
        /\ \A screen, final :
             EndsAs(screen, wire[Conn], final) => EndsAs(screen, wire'[Conn], final)
    BY <1>1, <2>1, AnswerGoesOn
  <2> QED
    BY <1>1, <1>2, <1>3, <1>6, <2>1, <2>2, <2>3, <2>4
<1> QED
  BY <1>5, <1>6

\* An answer that lets nobody in.
LEMMA TurnedAway ==
  ASSUME IInv, NEW c \in Conns, NEW m \in Answer, m # Ack(TRUE), Tell(c, <<m>>),
         UNCHANGED <<mirror, gone, up, viewer>>,
         NEW sh \in Shell, shell' = sh, sh.peer = shell.peer, sh.size = shell.size,
         sh.behind = shell.behind, sh.pending \in {<<>>, shell.pending},
         \/ sh.state = shell.state /\ sh.pending = shell.pending
         \/ sh.state \in {"Local", "None"}
  PROVE  /\ wire' \in [Conns -> Seq(Message)] /\ AdmissionOK' /\ OutputOnItsWay'
         /\ \A d \in Conns : d # Conn => wire'[d] = wire[d]
         /\ Conn' = Conn
         /\ wire' = wire \/ (c = Conn /\ Reaches(c) /\ wire'[Conn] = Append(wire[Conn], m))
         /\ \A p : Grants(p)' => Grants(p)
         /\ \A k \in 1..Len(wire'[Conn]) : wire'[Conn][k].type = "Ack" =>
              \/ k \in 1..Len(wire[Conn]) /\ wire[Conn][k].type = "Ack"
              \/ m.type = "Ack" /\ Reaches(c) /\ c = Conn
<1>1. Typed /\ AdmissionOK /\ OutputOnItsWay /\ Conn' = Conn
  BY DEF IInv, Conn
<1>2. /\ wire' \in [Conns -> Seq(Message)]
      /\ \A d \in Conns : d # Conn => wire'[d] = wire[d]
      /\ wire' = wire \/ (c = Conn /\ Reaches(c) /\ wire'[Conn] = Append(wire[Conn], m))
      /\ Len(wire'[Conn]) >= Len(wire[Conn])
      /\ \A k \in 1..Len(wire'[Conn]) :
           \/ k \in 1..Len(wire[Conn]) /\ wire'[Conn][k] = wire[Conn][k]
           \/ /\ k = Len(wire[Conn]) + 1 /\ wire'[Conn][k] = m /\ ~IsPiece(wire'[Conn][k])
              /\ Reaches(c) /\ c = Conn
      /\ \A screen : Continues(screen, wire[Conn]) => Continues(screen, wire'[Conn])
      /\ \A screen, final : EndsAs(screen, wire[Conn], final) => EndsAs(screen, wire'[Conn], final)
  BY AnswerTold
<1>3. \A p : Grants(p)' => Grants(p)
  BY <1>1, <1>2 DEF Grants
<1>4. AdmissionOK'
  <2>1. ASSUME NEW p \in 1..Len(wire'[Conn]), Grants(p)'
        PROVE  /\ viewer'.state # "Open"
               /\ \A k \in 1..(p - 1) : ~IsPiece(wire'[Conn][k])
               /\ \A k \in 1..Len(wire'[Conn]) : Grants(k)' => k = p
    <3>1. Grants(p) /\ p \in 1..Len(wire[Conn])
      BY <1>3, <2>1 DEF Grants
    <3>2. \A k \in 1..(p - 1) : k \in 1..Len(wire'[Conn])
      BY <2>1
    <3>3. \A k : Grants(k)' => k \in 1..Len(wire[Conn])
      BY <1>3 DEF Grants
    <3>4. \A k \in 1..(p - 1) : ~IsPiece(wire'[Conn][k])
      BY <1>1, <1>2, <3>1, <3>2 DEF AdmissionOK
    <3> QED
      BY <1>1, <1>3, <3>1, <3>3, <3>4 DEF AdmissionOK
  <2>2. ASSUME Conn \in up, shell.peer # Conn
        PROVE  /\ viewer'.state # "Open"
               /\ \A k \in 1..Len(wire'[Conn]) : ~IsPiece(wire'[Conn][k]) /\ ~Grants(k)'
    <3>1. \A k \in 1..Len(wire'[Conn]) : ~Grants(k)'
      BY <1>1, <1>3, <2>2 DEF AdmissionOK, Grants
    <3> QED
      BY <1>1, <1>2, <2>2, <3>1 DEF AdmissionOK
  <2> QED
    BY <1>1, <2>1, <2>2 DEF AdmissionOK
<1>5. OutputOnItsWay'
  <2>1. (Watching' => Watching) /\ Views' = Views /\ Reaches(Conn)' = Reaches(Conn)
    BY <1>1, <1>3 DEF Watching, Views, Reaches, Grants
  <2>2. Watching' => \A screen \in Views' : Continues(screen, wire'[Conn])
    BY <1>1, <1>2, <2>1 DEF OutputOnItsWay
  <2>3. (shell.behind => shell.pending = <<>>)'
    BY <1>1 DEF OutputOnItsWay
  <2>4. ASSUME Watching', Reaches(Conn)', sh.state = "Live", sh.peer = Conn,
               ~sh.behind, NEW screen \in Views'
        PROVE  \E mid \in Screens :
                 EndsAs(screen, wire'[Conn], mid) /\ Leads(mid, sh.pending, Whole(mirror))
    <3>1. PICK mid \in Screens :
            EndsAs(screen, wire[Conn], mid) /\ Leads(mid, shell.pending, Whole(mirror))
      BY <1>1, <2>1, <2>4 DEF OutputOnItsWay
    <3>2. sh.pending = shell.pending
      BY <2>4
    <3> QED
      BY <1>2, <3>1, <3>2
  <2> QED
    BY <1>1, <2>2, <2>3, <2>4 DEF OutputOnItsWay
<1>6. \A k \in 1..Len(wire'[Conn]) : wire'[Conn][k].type = "Ack" =>
        \/ k \in 1..Len(wire[Conn]) /\ wire[Conn][k].type = "Ack"
        \/ m.type = "Ack" /\ Reaches(c) /\ c = Conn
  BY <1>2
<1> QED
  BY <1>1, <1>2, <1>3, <1>4, <1>5, <1>6

\* The shell ends for the window, or is shown at the host.
LEMMA LeavesTheWindow ==
  ASSUME IInv, NEW sh \in Shell, shell' = sh, sh.peer = shell.peer, sh.size = shell.size,
         sh.behind = shell.behind, sh.pending \in {<<>>, shell.pending},
         sh.state \in {"Local", "None"},
         Tell(shell.peer, <<Exit>>) \/ UNCHANGED wire,
         UNCHANGED <<mirror, gone, up, toHost, viewer>>, rested' = rested
  PROVE  IInv'
<1>1. Typed /\ LinkOK /\ NetworkOK /\ AdmissionOK /\ OutputOnItsWay /\ SizeOK
  BY DEF IInv
<1>2. /\ shell.peer \in Conns /\ Conn \in Conns /\ wire \in [Conns -> Seq(Message)]
      /\ shell.pending \in Seq(Piece)
  BY <1>1, Values
<1>3. Exit \in Answer /\ Exit # Ack(TRUE) /\ Exit.type # "Ack"
  BY DEF Answer, Exit, Ack
<1>4. Conn' = Conn
  BY DEF Conn
<1>5. /\ wire' \in [Conns -> Seq(Message)] /\ AdmissionOK' /\ OutputOnItsWay'
      /\ \A d \in Conns : d # Conn => wire'[d] = wire[d]
      /\ \A p : Grants(p)' => Grants(p)
      /\ \A k \in 1..Len(wire'[Conn]) : wire'[Conn][k].type = "Ack" =>
           k \in 1..Len(wire[Conn]) /\ wire[Conn][k].type = "Ack"
  <2>1. CASE Tell(shell.peer, <<Exit>>)
    BY <1>2, <1>3, <2>1, TurnedAway
  <2>2. CASE UNCHANGED wire
    <3>1. \A p : Grants(p)' <=> Grants(p)
      BY <1>4, <2>2 DEF Grants
    <3>2. AdmissionOK'
      BY <1>1, <1>4, <2>2, <3>1 DEF AdmissionOK
    <3>3. OutputOnItsWay'
      BY <1>1, <1>4, <2>2, <3>1 DEF OutputOnItsWay, Watching, Views
    <3> QED
      BY <1>2, <2>2, <3>1, <3>2, <3>3
  <2> QED
    BY <2>1, <2>2
<1>6. Typed'
  <2>1. Len(sh.pending) <= MaxPending \/ Len(sh.pending) <= PaintPieces
    <3>1. CASE sh.pending = <<>>
      BY <3>1, OutputOK
    <3>2. CASE sh.pending = shell.pending
      BY <1>1, <3>2 DEF Typed
    <3> QED
      BY <3>1, <3>2
  <2> QED
    BY <1>1, <1>5, <2>1 DEF Typed, Message
<1>7. LinkOK'
  BY <1>1 DEF LinkOK
<1>8. NetworkOK'
  <2>1. ~(Conn > Conn)
    BY <1>2 DEF Conns
  <2> QED
    BY <1>1, <1>4, <1>5, <2>1 DEF NetworkOK
<1>9. SizeOK'
  <2>1. ~HostHasIt'
    BY DEF HostHasIt
  <2> QED
    BY <1>1, <1>4, <1>5, <2>1 DEF SizeOK, AskedFor, AnswerComes, SizeTold
<1> QED
  BY <1>5, <1>6, <1>7, <1>8, <1>9 DEF IInv

LEMMA EndsKeeps ==
  ASSUME IInv, Ends
  PROVE  IInv'
<1> DEFINE sh == [shell EXCEPT !.state = "None", !.pending = <<>>]
<1>1. shell \in Shell /\ <<>> \in Seq(Piece)
  BY DEF IInv, Typed
<1>2. /\ sh \in Shell /\ sh.peer = shell.peer /\ sh.size = shell.size
      /\ sh.behind = shell.behind /\ sh.pending = <<>> /\ sh.state = "None"
  BY <1>1 DEF Shell
<1>3. /\ shell' = sh /\ UNCHANGED <<mirror, gone, up, toHost, viewer>> /\ rested' = rested
      /\ Tell(shell.peer, <<Exit>>) \/ UNCHANGED wire
  BY DEF Ends
<1> HIDE DEF sh
<1> QED
  BY <1>2, <1>3, LeavesTheWindow

LEMMA AttachLocalKeeps ==
  ASSUME IInv, AttachLocal
  PROVE  IInv'
<1> DEFINE sh == [shell EXCEPT !.state = "Local"]
<1>1. shell \in Shell
  BY DEF IInv, Typed
<1>2. /\ sh \in Shell /\ sh.peer = shell.peer /\ sh.size = shell.size
      /\ sh.behind = shell.behind /\ sh.pending = shell.pending /\ sh.state = "Local"
  BY <1>1 DEF Shell
<1>3. /\ shell' = sh /\ UNCHANGED <<mirror, gone, up, toHost, viewer>> /\ rested' = rested
      /\ Tell(shell.peer, <<Exit>>) \/ UNCHANGED wire
  BY DEF AttachLocal
<1> HIDE DEF sh
<1> QED
  BY <1>2, <1>3, LeavesTheWindow

\* What every message does here: it is taken off the line of a connection that is up.
LEMMA HostTakes ==
  ASSUME IInv, NEW c \in Conns, toHost[c] # <<>>, toHost' = [toHost EXCEPT ![c] = Tail(@)],
         UNCHANGED <<mirror, gone, up, viewer>>
  PROVE  /\ c \in up /\ Conn' = Conn /\ ~(c > Conn) /\ toHost' \in [Conns -> Seq(Request)]
         /\ toHost'[c] = Tail(toHost[c]) /\ Len(toHost[c]) \in Nat \ {0}
         /\ Len(toHost'[c]) = Len(toHost[c]) - 1
         /\ \A k \in 1..Len(toHost'[c]) : toHost'[c][k] = toHost[c][k + 1]
         /\ Head(toHost[c]) = toHost[c][1] /\ Head(toHost[c]) \in Request
         /\ \A d \in Conns : d # c => toHost'[d] = toHost[d]
<1>1. Typed /\ NetworkOK /\ toHost \in [Conns -> Seq(Request)]
  BY Values DEF IInv
<1>2. c \in up /\ ~(c > Conn)
  BY <1>1 DEF NetworkOK
<1>3. toHost[c] \in Seq(Request)
  BY <1>1
<1>4. /\ toHost'[c] = Tail(toHost[c]) /\ toHost' \in [Conns -> Seq(Request)]
      /\ \A d \in Conns : d # c => toHost'[d] = toHost[d]
  BY <1>1, <1>3
<1>5. /\ Len(toHost[c]) \in Nat \ {0} /\ Len(toHost'[c]) = Len(toHost[c]) - 1
      /\ \A k \in 1..Len(toHost'[c]) : toHost'[c][k] = toHost[c][k + 1]
      /\ Head(toHost[c]) = toHost[c][1] /\ Head(toHost[c]) \in Request
  BY <1>3, <1>4
<1> QED
  BY <1>2, <1>4, <1>5 DEF Conn

\* The shell is detached, so from a connection that is gone: this one has seen none of it.
LEMMA OpenLetsIn ==
  ASSUME IInv, NEW c \in Conns, toHost[c] # <<>>, toHost' = [toHost EXCEPT ![c] = Tail(@)],
         UNCHANGED <<mirror, gone, up, viewer>>,
         NEW size \in Sizes, Head(toHost[c]) = Open(size), shell.state = "Detached",
         shell' = Attached(c, size), rested' = TRUE, Tell(c, <<Ack(TRUE)>>)
  PROVE  IInv'
<1>1. Typed /\ LinkOK /\ NetworkOK /\ AdmissionOK /\ OutputOnItsWay /\ SizeOK
  BY DEF IInv
<1>2. /\ c \in up /\ Conn' = Conn /\ ~(c > Conn) /\ toHost' \in [Conns -> Seq(Request)]
      /\ toHost'[c] = Tail(toHost[c]) /\ Len(toHost[c]) \in Nat \ {0}
      /\ Len(toHost'[c]) = Len(toHost[c]) - 1
      /\ \A k \in 1..Len(toHost'[c]) : toHost'[c][k] = toHost[c][k + 1]
      /\ Head(toHost[c]) = toHost[c][1]
      /\ \A d \in Conns : d # c => toHost'[d] = toHost[d]
  BY HostTakes
<1>3. Ack(TRUE) \in Answer
  BY DEF Answer, Ack
<1>4. /\ wire' \in [Conns -> Seq(Message)]
      /\ \A d \in Conns : d # Conn => wire'[d] = wire[d]
      /\ Reaches(c) => wire'[Conn] = Append(wire[Conn], Ack(TRUE))
      /\ wire' = wire \/ c = Conn
      /\ \A k \in 1..Len(wire'[Conn]) :
           \/ k \in 1..Len(wire[Conn]) /\ wire'[Conn][k] = wire[Conn][k]
           \/ /\ k = Len(wire[Conn]) + 1 /\ wire'[Conn][k] = Ack(TRUE)
              /\ ~IsPiece(wire'[Conn][k])
  BY <1>3, AnswerTold
<1>5. /\ Conn \in Conns /\ c \in Nat /\ Conn \in Nat /\ wire[Conn] \in Seq(Message)
      /\ wire'[Conn] \in Seq(Message)
  <2>1. Conn \in Conns /\ wire[Conn] \in Seq(Message)
    BY <1>1, Values
  <2>2. Conns \subseteq Nat
    BY DEF Conns
  <2> QED
    BY <1>4, <2>1, <2>2
<1>6. /\ shell' \in Shell /\ shell'.state = "Live" /\ shell'.peer = c /\ shell'.size = size
      /\ shell'.pending = <<>> /\ shell'.behind
  <2>1. shell \in Shell /\ <<>> \in Seq(Piece)
    BY <1>1 DEF Typed
  <2> QED
    BY <2>1 DEF Attached, Shell
<1>7. Conn \in up => shell.peer # Conn
  BY <1>1 DEF NetworkOK
<1>8. Typed'
  <2>1. Len(<<>>) <= MaxPending
    BY OutputOK
  <2> QED
    BY <1>1, <1>2, <1>4, <1>6, <2>1 DEF Typed, Message
<1>9. LinkOK'
  BY <1>1 DEF LinkOK
<1>10. NetworkOK'
  <2>1. ~(Conn > Conn) /\ c <= Conn
    BY <1>2, <1>5
  <2>2. ASSUME NEW d \in Conns
        PROVE  /\ d > Conn => d \notin up \cup gone /\ toHost'[d] = <<>> /\ wire'[d] = <<>>
               /\ toHost'[d] # <<>> => d \in up
    <3>1. toHost'[d] = toHost[d] \/ d = c
      BY <1>2
    <3>2. d > Conn => wire'[d] = wire[d]
      BY <1>4, <2>1
    <3> QED
      BY <1>1, <1>2, <3>1, <3>2 DEF NetworkOK
  <2> QED
    BY <1>1, <1>2, <1>6, <2>1, <2>2 DEF NetworkOK
<1>11. CASE c = Conn
  <2>1. /\ viewer.state # "Open"
        /\ \A k \in 1..Len(wire[Conn]) : ~IsPiece(wire[Conn][k]) /\ ~Grants(k)
    BY <1>1, <1>2, <1>7, <1>11 DEF AdmissionOK
  <2>2. \A k \in 1..Len(wire'[Conn]) :
          ~IsPiece(wire'[Conn][k]) /\ (Grants(k)' => k = Len(wire[Conn]) + 1)
    BY <1>2, <1>4, <2>1 DEF Grants
  <2>3. AdmissionOK'
    <3>1. ASSUME NEW p \in 1..Len(wire'[Conn]), Grants(p)'
          PROVE  /\ viewer.state # "Open"
                 /\ \A k \in 1..(p - 1) : ~IsPiece(wire'[Conn][k])
                 /\ \A k \in 1..Len(wire'[Conn]) : Grants(k)' => k = p
      <4>1. \A k \in 1..(p - 1) : k \in 1..Len(wire'[Conn])
        BY <3>1
      <4>2. p = Len(wire[Conn]) + 1
        BY <2>2, <3>1
      <4> QED
        BY <2>1, <2>2, <4>1, <4>2
    <3>2. shell'.peer = Conn
      BY <1>6, <1>11
    <3> QED
      BY <1>2, <3>1, <3>2 DEF AdmissionOK
  <2>4. OutputOnItsWay'
    <3>1. \A screen : Continues(screen, wire'[Conn])
      BY <1>5, <2>2, AnswersOnly
    <3> QED
      BY <1>2, <1>6, <3>1 DEF OutputOnItsWay
  <2>5. SizeOK'
    <3>1. SUFFICES ASSUME viewer.link, ~viewer.doubled, viewer.state = "Reattaching"
                   PROVE  AnswerComes'
      BY <1>2, <2>1 DEF SizeOK
    <3>2. AskedFor
      BY <1>1, <1>2, <1>11, <3>1 DEF SizeOK, AnswerComes
    <3>3. Len(toHost[Conn]) = 1 /\ toHost[Conn][1] = Open(viewer.sentSize)
      <4>1. ~(1 \in 1..(Len(toHost[Conn]) - 1))
        BY <1>2, <1>11, <3>2 DEF AskedFor, Open
      <4>2. Len(toHost[Conn]) = 1
        BY <1>2, <1>11, <4>1
      <4> QED
        BY <3>2, <4>2 DEF AskedFor
    <3>4. toHost'[Conn] = <<>>
      BY <1>2, <1>11, <3>3
    <3>5. size = viewer.sentSize
      BY <1>2, <1>11, <3>3 DEF Open
    <3> QED
      BY <1>2, <1>6, <3>4, <3>5 DEF AnswerComes
  <2> QED
    BY <1>8, <1>9, <1>10, <2>3, <2>4, <2>5 DEF IInv
<1>12. CASE c # Conn
  <2>1. wire' = wire /\ toHost'[Conn] = toHost[Conn]
    BY <1>2, <1>4, <1>5, <1>12
  <2>2. \A p : Grants(p)' <=> Grants(p)
    BY <1>2, <2>1 DEF Grants
  <2>3. AdmissionOK'
    BY <1>1, <1>2, <1>7, <2>1, <2>2 DEF AdmissionOK
  <2>4. OutputOnItsWay'
    BY <1>1, <1>2, <1>6, <2>1, <2>2 DEF OutputOnItsWay, Watching, Views
  <2>5. SizeOK'
    <3>1. ~HostHasIt'
      BY <1>2, <1>6, <1>12 DEF HostHasIt
    <3> QED
      BY <1>1, <2>1, <3>1, SizesStay
  <2> QED
    BY <1>8, <1>9, <1>10, <2>3, <2>4, <2>5 DEF IInv
<1> QED
  BY <1>11, <1>12

\* There is no shell to go back to, or it is still held.
LEMMA OpenIsRefused ==
  ASSUME IInv, NEW c \in Conns, toHost[c] # <<>>, toHost' = [toHost EXCEPT ![c] = Tail(@)],
         UNCHANGED <<mirror, gone, up, viewer>>,
         Head(toHost[c]).type = "Open", shell' = shell, rested' = rested,
         Tell(c, <<Ack(FALSE)>>)
  PROVE  IInv'
<1>1. Typed /\ LinkOK /\ NetworkOK /\ AdmissionOK /\ OutputOnItsWay /\ SizeOK
  BY DEF IInv
<1>2. /\ c \in up /\ Conn' = Conn /\ ~(c > Conn) /\ toHost' \in [Conns -> Seq(Request)]
      /\ toHost'[c] = Tail(toHost[c]) /\ Len(toHost[c]) \in Nat \ {0}
      /\ Len(toHost'[c]) = Len(toHost[c]) - 1
      /\ \A k \in 1..Len(toHost'[c]) : toHost'[c][k] = toHost[c][k + 1]
      /\ Head(toHost[c]) = toHost[c][1]
      /\ \A d \in Conns : d # c => toHost'[d] = toHost[d]
  BY HostTakes
<1>3. Ack(FALSE) \in Answer /\ Ack(FALSE) # Ack(TRUE)
  BY DEF Answer, Ack
<1>4. /\ wire' \in [Conns -> Seq(Message)] /\ AdmissionOK' /\ OutputOnItsWay'
      /\ \A d \in Conns : d # Conn => wire'[d] = wire[d]
      /\ wire' = wire \/ c = Conn
      /\ \A p : Grants(p)' => Grants(p)
  <2>1. shell \in Shell
    BY <1>1 DEF Typed
  <2> QED
    BY <1>3, <2>1, TurnedAway
<1>5. Conn \in Conns /\ ~(Conn > Conn) /\ toHost[Conn] \in Seq(Request)
  BY <1>1, Values DEF Conns
<1>6. Typed'
  BY <1>1, <1>2, <1>4 DEF Typed, Message
<1>7. LinkOK'
  BY <1>1 DEF LinkOK
<1>8. NetworkOK'
  <2>1. ASSUME NEW d \in Conns
        PROVE  /\ d > Conn => d \notin up \cup gone /\ toHost'[d] = <<>> /\ wire'[d] = <<>>
               /\ toHost'[d] # <<>> => d \in up
    <3>1. toHost'[d] = toHost[d] \/ d = c
      BY <1>2
    <3>2. d > Conn => wire'[d] = wire[d]
      BY <1>4, <1>5
    <3> QED
      BY <1>1, <1>2, <3>1, <3>2 DEF NetworkOK
  <2> QED
    BY <1>1, <1>2, <2>1 DEF NetworkOK
<1>9. SizeOK'
  <2>1. CASE c # Conn
    <3>1. wire' = wire /\ toHost'[Conn] = toHost[Conn]
      BY <1>2, <1>4, <1>5, <2>1
    <3>2. HostHasIt' = HostHasIt
      BY <1>2 DEF HostHasIt
    <3> QED
      BY <1>1, <3>1, <3>2, SizesStay
  <2>2. CASE c = Conn
    <3>1. SUFFICES ASSUME viewer.link, ~viewer.doubled,
                          viewer.state \in {"Open", "Reattaching"}
                   PROVE  viewer.state = "Reattaching" /\ AnswerComes'
      BY <1>2 DEF SizeOK
    <3>2. ~SizeTold
      BY <1>2, <2>2 DEF SizeTold
    <3>3. viewer.state = "Reattaching" /\ AskedFor
      BY <1>1, <1>2, <2>2, <3>1, <3>2 DEF SizeOK, AnswerComes
    <3>4. Len(toHost[Conn]) = 1
      <4>1. ~(1 \in 1..(Len(toHost[Conn]) - 1))
        BY <1>2, <2>2, <3>3 DEF AskedFor
      <4> QED
        BY <1>2, <2>2, <4>1
    <3>5. toHost'[Conn] = <<>>
      BY <1>2, <2>2, <3>4
    <3>6. \A p : ~Grants(p)'
      BY <1>4, <3>3 DEF Grants, AskedFor, Ack
    <3> QED
      BY <1>2, <3>3, <3>5, <3>6 DEF AnswerComes
  <2> QED
    BY <2>1, <2>2
<1> QED
  BY <1>4, <1>6, <1>7, <1>8, <1>9 DEF IInv

LEMMA ResizeIsTaken ==
  ASSUME IInv, NEW c \in Conns, toHost[c] # <<>>, toHost' = [toHost EXCEPT ![c] = Tail(@)],
         UNCHANGED <<mirror, gone, up, viewer>>,
         Head(toHost[c]).type = "Resize", HandleResize(c, Head(toHost[c]).size)
  PROVE  IInv'
<1> DEFINE size == Head(toHost[c]).size
           takes == shell.state \in {"Live", "Detached"} /\ shell.peer = c
<1>1. Typed /\ LinkOK /\ NetworkOK /\ AdmissionOK /\ OutputOnItsWay /\ SizeOK
  BY DEF IInv
<1>2. /\ c \in up /\ Conn' = Conn /\ ~(c > Conn) /\ toHost' \in [Conns -> Seq(Request)]
      /\ toHost'[c] = Tail(toHost[c]) /\ Len(toHost[c]) \in Nat \ {0}
      /\ Len(toHost'[c]) = Len(toHost[c]) - 1
      /\ \A k \in 1..Len(toHost'[c]) : toHost'[c][k] = toHost[c][k + 1]
      /\ Head(toHost[c]) = toHost[c][1] /\ Head(toHost[c]) \in Request
      /\ \A d \in Conns : d # c => toHost'[d] = toHost[d]
  BY HostTakes
<1>3. wire' = wire /\ rested' = rested /\ shell' = IF takes THEN [shell EXCEPT !.size = size] ELSE shell
  BY DEF HandleResize
<1>4. shell \in Shell /\ size \in Sizes
  BY <1>1, <1>2 DEF Typed, Request
<1> HIDE DEF size
<1>5. /\ shell' \in Shell /\ shell'.state = shell.state /\ shell'.peer = shell.peer
      /\ shell'.pending = shell.pending /\ shell'.behind = shell.behind
      /\ shell'.size = IF takes THEN size ELSE shell.size
  BY <1>3, <1>4 DEF Shell
<1>6. Conn \in Conns /\ toHost[Conn] \in Seq(Request)
  BY <1>1, Values
<1>7. Typed'
  BY <1>1, <1>2, <1>3, <1>5 DEF Typed
<1>8. LinkOK'
  BY <1>1 DEF LinkOK
<1>9. NetworkOK'
  BY <1>1, <1>2, <1>3, <1>5 DEF NetworkOK
<1> HIDE DEF takes
<1>10. AdmissionOK' /\ OutputOnItsWay'
  BY <1>1, <1>3, <1>5, NothingComes
<1>11. SizeOK'
  <2>1. CASE c # Conn
    <3>1. toHost'[Conn] = toHost[Conn]
      BY <1>2, <1>6, <2>1
    <3>2. HostHasIt' = HostHasIt /\ (HostHasIt => shell'.size = shell.size)
      BY <1>2, <1>5, <2>1 DEF HostHasIt, takes
    <3> QED
      BY <1>1, <1>3, <3>1, <3>2, SizesStay
  <2>2. CASE c = Conn
    <3> DEFINE s == toHost[Conn]
               t == toHost'[Conn]
    <3>1. /\ Len(s) \in Nat \ {0} /\ Len(t) = Len(s) - 1 /\ t = Tail(s) /\ t \in Seq(Request)
          /\ \A k \in 1..Len(t) : t[k] = s[k + 1]
          /\ s[1].type = "Resize" /\ s[1].size = size
      BY <1>2, <1>6, <2>2 DEF size
    <3>2. SUFFICES ASSUME viewer.link, ~viewer.doubled,
                          viewer.state \in {"Open", "Reattaching"}
                   PROVE  /\ viewer.state = "Reattaching" => AskedFor'
                          /\ viewer.state = "Open" => SizeTold'
      BY <1>2 DEF SizeOK
    <3>3. CASE viewer.state = "Reattaching"
      <4>1. AskedFor
        BY <1>1, <1>2, <2>2, <3>2, <3>3 DEF SizeOK, AnswerComes
      <4>2. Len(s) > 1
        BY <3>1, <4>1 DEF AskedFor, Open
      <4>3. t # <<>> /\ t[Len(t)] = s[Len(s)] /\ \A k \in 1..(Len(t) - 1) : t[k] = s[k + 1]
        <5>1. Len(t) \in 1..Len(t) /\ Len(t) + 1 = Len(s)
          BY <3>1, <4>2
        <5>2. \A k \in 1..(Len(t) - 1) : k \in 1..Len(t)
          BY <3>1
        <5> HIDE DEF s, t
        <5>3. t # <<>>
          <6>1. Len(t) # 0
            BY <3>1, <4>2
          <6> QED
            BY <6>1
        <5>4. t[Len(t)] = s[Len(s)]
          BY <3>1, <5>1
        <5>5. \A k \in 1..(Len(t) - 1) : t[k] = s[k + 1]
          BY <3>1, <5>2
        <5> QED
          BY <5>3, <5>4, <5>5
      <4>4. \A k \in 1..(Len(t) - 1) : k + 1 \in 1..(Len(s) - 1)
        BY <3>1
      <4> HIDE DEF s, t
      <4>5. /\ s[Len(s)] = Open(viewer.sentSize) /\ \A k \in 1..(Len(s) - 1) : s[k].type = "Resize"
            /\ \A k \in 1..Len(wire[Conn]) : wire[Conn][k].type # "Ack"
        BY <4>1 DEF AskedFor, s
      <4>6. t[Len(t)] = Open(viewer.sentSize) /\ \A k \in 1..(Len(t) - 1) : t[k].type = "Resize"
        BY <4>3, <4>4, <4>5
      <4> QED
        BY <1>2, <1>3, <3>3, <4>3, <4>5, <4>6 DEF AskedFor, t
    <3>4. CASE viewer.state = "Open"
      <4> HIDE DEF t
      <4>1. /\ \A k \in 1..Len(s) : s[k].type = "Resize"
            /\ HostHasIt => viewer.size = s[Len(s)].size
        BY <1>1, <1>2, <2>2, <3>1, <3>2, <3>4 DEF SizeOK, SizeTold
      <4>2. HostHasIt' = HostHasIt /\ (HostHasIt => shell'.size = size)
        BY <1>2, <1>5, <2>2 DEF HostHasIt, takes
      <4> HIDE DEF s
      <4>3. \A k \in 1..Len(t) : t[k].type = "Resize"
        <5>1. \A k \in 1..Len(t) : k + 1 \in 1..Len(s)
          BY <3>1
        <5> QED
          BY <3>1, <4>1, <5>1
      <4>4. HostHasIt => viewer.size = IF t = <<>> THEN size ELSE t[Len(t)].size
        <5>1. CASE t = <<>>
          <6>1. Len(t) = 0
            BY <5>1
          <6>2. Len(s) = 1
            BY <3>1, <6>1
          <6>3. HostHasIt => viewer.size = s[1].size
            BY <4>1, <6>2
          <6> QED
            BY <3>1, <5>1, <6>3
        <5>2. CASE t # <<>>
          <6>1. t[Len(t)] = s[Len(s)]
            BY <3>1, <5>2
          <6> QED
            BY <4>1, <5>2, <6>1
        <5> QED
          BY <5>1, <5>2
      <4> QED
        BY <1>2, <3>4, <4>2, <4>3, <4>4 DEF SizeTold, t
    <3> QED
      BY <3>2, <3>3, <3>4
  <2> QED
    BY <2>1, <2>2
<1> QED
  BY <1>7, <1>8, <1>9, <1>10, <1>11 DEF IInv

LEMMA HostHandlesMessageKeeps ==
  ASSUME IInv, NEW c \in Conns, HostHandlesMessage(c)
  PROVE  IInv'
<1> DEFINE m == Head(toHost[c])
<1>1. /\ toHost[c] # <<>> /\ toHost' = [toHost EXCEPT ![c] = Tail(@)]
      /\ UNCHANGED <<mirror, gone, up, viewer>>
      /\ \/ m.type = "Open" /\ HandleOpen(c, m.size)
         \/ m.type = "Resize" /\ HandleResize(c, m.size)
  BY DEF HostHandlesMessage
<1>2. m \in Request
  BY <1>1, HostTakes
<1>3. CASE m.type = "Open" /\ HandleOpen(c, m.size)
  <2>1. m.size \in Sizes /\ m = Open(m.size)
    BY <1>2, <1>3 DEF Request, Open
  <2>2. CASE shell.state = "Detached"
    <3>1. shell' = Attached(c, m.size) /\ rested' = TRUE /\ Tell(c, <<Ack(TRUE)>>)
      BY <1>3, <2>2 DEF HandleOpen
    <3> HIDE DEF m
    <3>2. Head(toHost[c]) = Open(m.size)
      BY <2>1 DEF m
    <3> QED
      BY <1>1, <2>1, <2>2, <3>1, <3>2, OpenLetsIn
  <2>3. CASE shell.state # "Detached"
    <3>1. shell' = shell /\ rested' = rested /\ Tell(c, <<Ack(FALSE)>>)
      BY <1>3, <2>3 DEF HandleOpen
    <3> QED
      BY <1>1, <1>3, <3>1, OpenIsRefused
  <2> QED
    BY <2>2, <2>3
<1>4. CASE m.type = "Resize" /\ HandleResize(c, m.size)
  BY <1>1, <1>4, ResizeIsTaken
<1> QED
  BY <1>1, <1>3, <1>4

-----------------------------------------------------------------------------
(* The pump.                                                               *)

Fine(sh) ==
  /\ sh \in Shell
  /\ Len(sh.pending) <= MaxPending \/ Len(sh.pending) <= PaintPieces
  /\ sh.behind => sh.pending = <<>>

SameHolder(sh, s) == sh.state = s.state /\ sh.peer = s.peer /\ sh.size = s.size

\* With w on its way to a window that shows screen, and what sh keeps behind it, the window
\* comes to show so much of the output, or a repaint is owed.
InOrder(screen, w, sh, upto) ==
  /\ Continues(screen, w)
  /\ sh.behind \/ \E mid \in Screens :
       EndsAs(screen, w, mid) /\ Leads(mid, sh.pending, Whole(upto))

LEMMA FlushedInOrder ==
  ASSUME NEW sh, Fine(sh), NEW k \in 0..Len(sh.pending)
  PROVE  /\ Fine(Flushed(sh, k)) /\ SameHolder(Flushed(sh, k), sh)
         /\ SubSeq(sh.pending, 1, k) \in Seq(Piece)
         /\ \A screen, upto : \A w \in Seq(Message) :
              InOrder(screen, w, sh, upto) =>
                InOrder(screen, w \o SubSeq(sh.pending, 1, k), Flushed(sh, k), upto)
<1> DEFINE p == sh.pending
           sent == SubSeq(p, 1, k)
           rest == SubSeq(p, k + 1, Len(p))
<1>1. sh \in Shell /\ p \in Seq(Piece) /\ Len(p) \in Nat /\ k \in Nat /\ k <= Len(p)
  BY DEF Fine, Shell
<1>2. /\ sent \in Seq(Piece) /\ rest \in Seq(Piece) /\ Len(rest) = Len(p) - k
      /\ Len(sent) = k
  BY <1>1
<1>3. p = <<>> => k = 0 /\ sent = <<>> /\ rest = <<>>
  <2>1. SUFFICES ASSUME p = <<>> PROVE k = 0 /\ sent = <<>> /\ rest = <<>>
    OBVIOUS
  <2>2. Len(p) = 0 /\ k = 0
    BY <1>1, <2>1
  <2>3. Len(sent) = 0 /\ Len(rest) = 0
    BY <1>2, <2>2
  <2> HIDE DEF sent, rest
  <2>4. sent = <<>> /\ rest = <<>>
    BY <1>2, <2>3, EmptySeq
  <2> QED
    BY <2>2, <2>4
<1>4. Flushed(sh, k) = [sh EXCEPT !.pending = rest]
  BY DEF Flushed
<1> HIDE DEF sent, rest
<1>5. /\ Flushed(sh, k) \in Shell /\ SameHolder(Flushed(sh, k), sh)
      /\ Flushed(sh, k).pending = rest /\ Flushed(sh, k).behind = sh.behind
  BY <1>1, <1>2, <1>4 DEF Shell, SameHolder
<1>6. Fine(Flushed(sh, k))
  <2>1. Len(rest) <= MaxPending \/ Len(rest) <= PaintPieces
    BY <1>1, <1>2, OutputOK DEF Fine
  <2> QED
    BY <1>3, <1>5, <2>1 DEF Fine
<1>7. ASSUME NEW screen, NEW upto, NEW w \in Seq(Message), InOrder(screen, w, sh, upto)
      PROVE  InOrder(screen, w \o sent, Flushed(sh, k), upto)
  <2>1. CASE sh.behind
    <3>1. w \o sent = w
      BY <1>3, <2>1, ConcatEmptySeq DEF Fine
    <3> QED
      BY <1>5, <1>7, <2>1, <3>1 DEF InOrder
  <2>2. CASE ~sh.behind
    <3>1. PICK mid \in Screens : EndsAs(screen, w, mid) /\ Leads(mid, p, Whole(upto))
      BY <1>7, <2>2 DEF InOrder
    <3>2. PICK next \in Screens : Leads(mid, sent, next) /\ Leads(next, rest, Whole(upto))
      BY <1>1, <3>1, LeadsInParts DEF sent, rest
    <3>3. Continues(screen, w \o sent) /\ EndsAs(screen, w \o sent, next)
      BY <1>2, <1>7, <3>1, <3>2, PiecesGoOn DEF InOrder
    <3> QED
      BY <1>5, <3>2, <3>3 DEF InOrder
  <2> QED
    BY <2>1, <2>2
<1> QED
  BY <1>2, <1>5, <1>6, <1>7 DEF sent

LEMMA RepaintedInOrder ==
  ASSUME NEW sh, Fine(sh), mirror \in 0..MaxOutput
  PROVE  /\ Fine(Repainted(sh)) /\ SameHolder(Repainted(sh), sh)
         /\ \A screen \in Screens : \A w \in Seq(Message) :
              InOrder(screen, w, sh, mirror) => InOrder(screen, w, Repainted(sh), mirror)
<1>1. CASE ~Repainting(sh)
  BY <1>1 DEF Repainted, SameHolder
<1>2. CASE Repainting(sh)
  <2> DEFINE r == Repaint(mirror)
  <2>1. r \in Seq(Piece) /\ Len(r) = PaintPieces /\ \A from : Leads(from, r, Whole(mirror))
    BY RepaintLeads
  <2>2. Repainted(sh) = [sh EXCEPT !.pending = r, !.behind = FALSE] /\ sh \in Shell
    BY <1>2 DEF Repainted, Fine
  <2> HIDE DEF r
  <2>3. /\ Repainted(sh) \in Shell /\ SameHolder(Repainted(sh), sh)
        /\ Repainted(sh).pending = r /\ ~Repainted(sh).behind
    BY <2>1, <2>2 DEF Shell, SameHolder
  <2>4. Fine(Repainted(sh))
    BY <2>1, <2>3, OutputOK DEF Fine
  <2>5. ASSUME NEW screen \in Screens, NEW w \in Seq(Message), InOrder(screen, w, sh, mirror)
        PROVE  InOrder(screen, w, Repainted(sh), mirror)
    <3>1. PICK mid \in Screens : EndsAs(screen, w, mid)
      BY EndExists
    <3> QED
      BY <2>1, <2>3, <2>5, <3>1 DEF InOrder
  <2> QED
    BY <2>3, <2>4, <2>5
<1> QED
  BY <1>1, <1>2

LEMMA QueuedInOrder ==
  ASSUME NEW sh, Fine(sh), mirror \in 0..MaxOutput, NEW got \in Nat,
         mirror + got <= MaxOutput
  PROVE  /\ Fine(Queued(sh, Printed(got))) /\ SameHolder(Queued(sh, Printed(got)), sh)
         /\ \A screen, w : InOrder(screen, w, sh, mirror) =>
              InOrder(screen, w, Queued(sh, Printed(got)), mirror + got)
<1> DEFINE fresh == Printed(got)
           q == Queued(sh, fresh)
<1>1. /\ fresh \in Seq(Piece) /\ Len(fresh) = got
      /\ Leads(Whole(mirror), fresh, Whole(mirror + got))
  BY PrintedLeads
<1>2. sh \in Shell /\ sh.pending \in Seq(Piece) /\ Len(sh.pending) \in Nat /\ <<>> \in Seq(Piece)
  BY DEF Fine, Shell
<1> HIDE DEF fresh
<1>3. CASE sh.behind
  <2>1. q = sh
    BY <1>3 DEF Queued
  <2> QED
    BY <1>3, <2>1 DEF SameHolder, InOrder, fresh
<1>4. CASE fresh = <<>> /\ ~sh.behind
  <2>1. q = sh
    BY <1>4 DEF Queued
  <2>2. mirror + got = mirror
    <3>1. got = 0
      BY <1>1, <1>4
    <3> QED
      BY <3>1, OutputOK
  <2> QED
    BY <2>1, <2>2 DEF SameHolder, fresh
<1>5. CASE fresh # <<>> /\ ~sh.behind /\ Len(sh.pending) + Len(fresh) > MaxPending
  <2>1. q = [sh EXCEPT !.pending = <<>>, !.behind = TRUE]
    BY <1>5 DEF Queued
  <2>2. q \in Shell /\ SameHolder(q, sh) /\ q.behind /\ q.pending = <<>>
    BY <1>2, <2>1 DEF Shell, SameHolder
  <2>3. Len(<<>>) <= MaxPending
    BY OutputOK
  <2>4. Fine(q)
    BY <2>2, <2>3 DEF Fine
  <2> QED
    BY <2>2, <2>4 DEF InOrder, fresh
<1>6. CASE fresh # <<>> /\ ~sh.behind /\ ~(Len(sh.pending) + Len(fresh) > MaxPending)
  <2> DEFINE both == sh.pending \o fresh
  <2>1. q = [sh EXCEPT !.pending = both]
    BY <1>6 DEF Queued
  <2>2. both \in Seq(Piece) /\ Len(both) = Len(sh.pending) + Len(fresh)
    BY <1>1, <1>2
  <2> HIDE DEF both
  <2>3. q \in Shell /\ SameHolder(q, sh) /\ ~q.behind /\ q.pending = both
    BY <1>2, <1>6, <2>1, <2>2 DEF Shell, SameHolder
  <2>4. Fine(q)
    <3>1. Len(both) <= MaxPending
      BY <1>1, <1>2, <1>6, <2>2, OutputOK
    <3> QED
      BY <2>3, <3>1 DEF Fine
  <2>5. ASSUME NEW screen, NEW w, InOrder(screen, w, sh, mirror)
        PROVE  InOrder(screen, w, q, mirror + got)
    <3>1. PICK mid \in Screens :
            EndsAs(screen, w, mid) /\ Leads(mid, sh.pending, Whole(mirror))
      BY <1>6, <2>5 DEF InOrder
    <3>2. Leads(mid, both, Whole(mirror + got))
      BY <1>1, <1>2, <3>1, LeadsOn DEF both
    <3> HIDE DEF q
    <3> QED
      BY <2>3, <2>5, <3>1, <3>2 DEF InOrder
  <2> QED
    BY <2>3, <2>4, <2>5 DEF fresh
<1> QED
  BY <1>3, <1>4, <1>5, <1>6

LEMMA TakesSome ==
  ASSUME NEW c, NEW pieces \in Nat, NEW queued \in Nat
  PROVE  Takes(c, pieces, queued) \subseteq 0..pieces
BY OutputOK DEF Takes

\* Pieces behind what is on its way let nobody in, and answer nothing.
LEMMA PiecesTold ==
  ASSUME Typed, NEW s \in Seq(Piece), Tell(shell.peer, s), viewer' = viewer
  PROVE  /\ wire' \in [Conns -> Seq(Message)]
         /\ \A d \in Conns : d # Conn => wire'[d] = wire[d]
         /\ Reaches(shell.peer) => shell.peer = Conn /\ wire'[Conn] = wire[Conn] \o s
         /\ ~Reaches(shell.peer) => wire' = wire
         /\ \A k \in 1..Len(wire'[Conn]) :
              \/ k \in 1..Len(wire[Conn]) /\ wire'[Conn][k] = wire[Conn][k]
              \/ k > Len(wire[Conn]) /\ wire'[Conn][k].type # "Ack" /\ shell.peer = Conn
         /\ \A p : Grants(p)' <=> Grants(p)
<1>1. wire[Conn] \in Seq(Message) /\ shell.peer \in Conns /\ s \in Seq(Message)
  BY Values DEF Message
<1>2. /\ wire' \in [Conns -> Seq(Message)]
      /\ \A d \in Conns : d # Conn => wire'[d] = wire[d]
      /\ Reaches(shell.peer) => shell.peer = Conn /\ wire'[Conn] = wire[Conn] \o s
      /\ ~Reaches(shell.peer) => wire' = wire
  BY <1>1, TellsOf
<1>3. /\ Len(wire'[Conn]) >= Len(wire[Conn]) /\ Len(wire[Conn]) \in Nat
      /\ \A k \in 1..Len(wire'[Conn]) :
           \/ k \in 1..Len(wire[Conn]) /\ wire'[Conn][k] = wire[Conn][k]
           \/ k > Len(wire[Conn]) /\ wire'[Conn][k].type # "Ack" /\ shell.peer = Conn
      /\ \A k \in 1..Len(wire[Conn]) : wire'[Conn][k] = wire[Conn][k]
  <2>1. CASE ~Reaches(shell.peer)
    BY <1>1, <1>2, <2>1
  <2>2. CASE Reaches(shell.peer)
    <3> DEFINE u == wire'[Conn]
               w == wire[Conn]
    <3>1. /\ u = w \o s /\ Len(w) \in Nat /\ Len(s) \in Nat /\ Len(u) = Len(w) + Len(s)
          /\ \A k \in 1..Len(w) : u[k] = w[k]
          /\ \A k \in 1..Len(s) : u[Len(w) + k] = s[k] /\ s[k] \in Piece
      <4>1. u = w \o s /\ w \in Seq(Message) /\ s \in Seq(Message)
        BY <1>1, <1>2, <2>2
      <4> HIDE DEF u, w
      <4>2. Len(s) \in Nat /\ \A k \in 1..Len(s) : s[k] \in Piece
        OBVIOUS
      <4>3. /\ Len(w) \in Nat /\ Len(u) = Len(w) + Len(s)
            /\ \A k \in 1..Len(w) : u[k] = w[k]
            /\ \A k \in 1..Len(s) : u[Len(w) + k] = s[k]
        BY <4>1
      <4> QED
        BY <4>1, <4>2, <4>3
    <3>2. shell.peer = Conn
      BY <1>2, <2>2
    <3> HIDE DEF u, w
    <3>3. ASSUME NEW k \in 1..Len(u), k > Len(w) PROVE u[k].type # "Ack"
      <4>1. k - Len(w) \in 1..Len(s) /\ Len(w) + (k - Len(w)) = k
        BY <3>1, <3>3
      <4>2. u[k] \in Piece
        BY <3>1, <4>1
      <4> QED
        BY <4>2 DEF Piece
    <3>4. /\ Len(u) >= Len(w) /\ Len(w) \in Nat
          /\ \A k \in 1..Len(u) :
               \/ k \in 1..Len(w) /\ u[k] = w[k]
               \/ k > Len(w) /\ u[k].type # "Ack" /\ shell.peer = Conn
          /\ \A k \in 1..Len(w) : u[k] = w[k]
      BY <3>1, <3>2, <3>3
    <3> QED
      BY <3>4 DEF u, w
  <2> QED
    BY <2>1, <2>2
<1>4. Conn' = Conn
  BY DEF Conn
<1>5. \A p : Grants(p)' <=> Grants(p)
  <2>1. ASSUME NEW p, Grants(p)' PROVE Grants(p)
    BY <1>3, <1>4, <2>1 DEF Grants, Ack
  <2>2. ASSUME NEW p, Grants(p) PROVE Grants(p)'
    <3>1. p \in 1..Len(wire[Conn]) /\ p \in 1..Len(wire'[Conn])
      BY <1>1, <1>3, <2>2 DEF Grants
    <3> QED
      BY <1>3, <1>4, <2>2, <3>1 DEF Grants
  <2> QED
    BY <2>1, <2>2
<1> QED
  BY <1>2, <1>3, <1>5

LEMMA PumpKeeps ==
  ASSUME IInv, NEW got \in 0..Rounds, Pump(got)
  PROVE  IInv'
<1> DEFINE s0 == AfterGone(shell)
           c == s0.peer
           was == Len(wire[c])
<1>1. Typed /\ LinkOK /\ NetworkOK /\ AdmissionOK /\ OutputOnItsWay /\ SizeOK
  BY DEF IInv
<1>2. /\ wire[Conn] \in Seq(Message) /\ Conn \in Conns /\ shell.peer \in Conns
      /\ viewer.screen \in Screens /\ shell.behind \in BOOLEAN
      /\ wire \in [Conns -> Seq(Message)]
  BY <1>1, Values
<1>3. /\ mirror' = mirror + got /\ gone' = {} /\ UNCHANGED <<up, toHost, viewer>>
      /\ shell.state \in {"Live", "Detached"} /\ mirror + got <= MaxOutput
      /\ mirror \in 0..MaxOutput /\ got \in Nat
  BY <1>1, OutputOK DEF Pump, Typed
<1>4. PICK k \in Takes(c, Len(s0.pending), was) :
        \E l \in Takes(c, Len(Queued(Repainted(Flushed(s0, k)), Printed(got)).pending), was + k) :
          /\ shell' = Flushed(Queued(Repainted(Flushed(s0, k)), Printed(got)), l)
          /\ Tell(c, SubSeq(s0.pending, 1, k)
                     \o SubSeq(Queued(Repainted(Flushed(s0, k)), Printed(got)).pending, 1, l))
          /\ rested' = (rested /\ ~Repainting(Flushed(s0, k)))
  BY DEF Pump
<1> DEFINE s2 == Queued(Repainted(Flushed(s0, k)), Printed(got))
<1>5. PICK l \in Takes(c, Len(s2.pending), was + k) :
        /\ shell' = Flushed(s2, l)
        /\ Tell(c, SubSeq(s0.pending, 1, k) \o SubSeq(s2.pending, 1, l))
        /\ rested' = (rested /\ ~Repainting(Flushed(s0, k)))
  BY <1>4
<1>6. /\ Fine(s0) /\ s0.peer = shell.peer /\ s0.size = shell.size
      /\ s0.pending = shell.pending /\ s0.behind = shell.behind
      /\ s0.state \in {"Live", "Detached"}
      /\ s0.state = "Live" => shell.state = "Live" /\ s0 = shell /\ shell.peer \notin gone
      /\ s0.state = "Detached" => shell.peer \notin up
  <2>1. shell \in Shell
    BY <1>1 DEF Typed
  <2>2. CASE shell.peer \in gone /\ shell.state = "Live"
    <3>1. s0 = [shell EXCEPT !.state = "Detached"]
      BY <2>2 DEF AfterGone
    <3>2. /\ s0 \in Shell /\ s0.peer = shell.peer /\ s0.size = shell.size
          /\ s0.pending = shell.pending /\ s0.behind = shell.behind /\ s0.state = "Detached"
      BY <2>1, <3>1 DEF Shell
    <3> HIDE DEF s0
    <3>3. Fine(s0)
      BY <1>1, <3>2 DEF Fine, Typed, OutputOnItsWay
    <3>4. shell.peer \notin up
      BY <1>1, <2>2 DEF NetworkOK
    <3> QED
      BY <3>2, <3>3, <3>4
  <2>3. CASE ~(shell.peer \in gone /\ shell.state = "Live")
    <3>1. s0 = shell
      BY <2>3 DEF AfterGone
    <3> HIDE DEF s0
    <3>2. Fine(s0)
      BY <1>1, <2>1, <3>1 DEF Fine, Typed, OutputOnItsWay
    <3> QED
      BY <1>1, <1>3, <2>3, <3>1, <3>2 DEF NetworkOK
  <2> QED
    BY <2>2, <2>3
<1> HIDE DEF s0
<1>7. c = shell.peer /\ was \in Nat
  BY <1>2, <1>6
<1> HIDE DEF was
<1>8. k \in 0..Len(s0.pending)
  <2>1. Len(s0.pending) \in Nat
    BY <1>6 DEF Fine, Shell
  <2> QED
    BY <1>7, <2>1, TakesSome
<1>9. /\ Fine(Flushed(s0, k)) /\ SameHolder(Flushed(s0, k), s0)
      /\ SubSeq(s0.pending, 1, k) \in Seq(Piece)
      /\ \A screen : \A w \in Seq(Message) :
           InOrder(screen, w, s0, mirror) =>
             InOrder(screen, w \o SubSeq(s0.pending, 1, k), Flushed(s0, k), mirror)
  BY <1>6, <1>8, FlushedInOrder
<1>10. /\ Fine(Repainted(Flushed(s0, k)))
       /\ SameHolder(Repainted(Flushed(s0, k)), Flushed(s0, k))
       /\ \A screen \in Screens : \A w \in Seq(Message) :
            InOrder(screen, w, Flushed(s0, k), mirror) =>
              InOrder(screen, w, Repainted(Flushed(s0, k)), mirror)
  BY <1>3, <1>9, RepaintedInOrder
<1>11. /\ Fine(s2) /\ SameHolder(s2, Repainted(Flushed(s0, k)))
       /\ \A screen, w : InOrder(screen, w, Repainted(Flushed(s0, k)), mirror) =>
            InOrder(screen, w, s2, mirror + got)
  BY <1>3, <1>10, QueuedInOrder
<1> HIDE DEF s2
<1>12. l \in 0..Len(s2.pending)
  <2>1. Len(s2.pending) \in Nat /\ was + k \in Nat
    <3>1. Len(s2.pending) \in Nat
      BY <1>11 DEF Fine, Shell
    <3>2. k \in Nat
      BY <1>8
    <3> QED
      BY <1>7, <3>1, <3>2
  <2> QED
    BY <2>1, TakesSome
<1>13. /\ Fine(Flushed(s2, l)) /\ SameHolder(Flushed(s2, l), s2)
       /\ SubSeq(s2.pending, 1, l) \in Seq(Piece)
       /\ \A screen : \A w \in Seq(Message) :
            InOrder(screen, w, s2, mirror + got) =>
              InOrder(screen, w \o SubSeq(s2.pending, 1, l), Flushed(s2, l), mirror + got)
  BY <1>11, <1>12, FlushedInOrder
<1> DEFINE sent == SubSeq(s0.pending, 1, k)
           more == SubSeq(s2.pending, 1, l)
<1>14. Fine(shell') /\ SameHolder(shell', s0)
  BY <1>5, <1>9, <1>10, <1>11, <1>13 DEF SameHolder
<1>15. ASSUME NEW screen \in Screens, InOrder(screen, wire[Conn], s0, mirror)
       PROVE  InOrder(screen, wire[Conn] \o (sent \o more), shell', mirror + got)
  <2> DEFINE w == wire[Conn]
             w1 == w \o sent
  <2>1. sent \in Seq(Message) /\ more \in Seq(Message) /\ w \in Seq(Message)
    BY <1>2, <1>9, <1>13 DEF Message
  <2>2. w1 \in Seq(Message)
    BY <2>1
  <2>3. InOrder(screen, w1, Flushed(s0, k), mirror)
    BY <1>9, <1>15, <2>1
  <2> HIDE DEF sent, more, w, w1
  <2>4. InOrder(screen, w1, s2, mirror + got)
    BY <1>10, <1>11, <2>2, <2>3
  <2>5. InOrder(screen, w1 \o more, shell', mirror + got)
    BY <1>5, <1>13, <2>2, <2>4 DEF more
  <2>6. w1 \o more = w \o (sent \o more)
    <3>1. (w \o sent) \o more = w \o (sent \o more)
      BY <2>1, ConcatAssociative, SMTT(30)
    <3> QED
      BY <3>1 DEF w1
  <2> QED
    BY <2>5, <2>6 DEF w
<1>16. sent \o more \in Seq(Piece) /\ Tell(shell.peer, sent \o more)
  BY <1>5, <1>7, <1>9, <1>13
<1> HIDE DEF sent, more
<1>17. /\ wire' \in [Conns -> Seq(Message)]
       /\ \A d \in Conns : d # Conn => wire'[d] = wire[d]
       /\ Reaches(shell.peer) => shell.peer = Conn /\ wire'[Conn] = wire[Conn] \o (sent \o more)
       /\ ~Reaches(shell.peer) => wire' = wire
       /\ \A j \in 1..Len(wire'[Conn]) :
            \/ j \in 1..Len(wire[Conn]) /\ wire'[Conn][j] = wire[Conn][j]
            \/ j > Len(wire[Conn]) /\ wire'[Conn][j].type # "Ack" /\ shell.peer = Conn
       /\ \A p : Grants(p)' <=> Grants(p)
  BY <1>1, <1>3, <1>16, PiecesTold
<1>18. Conn' = Conn /\ shell'.peer = shell.peer /\ shell'.size = shell.size
       /\ shell'.state = s0.state
  BY <1>3, <1>6, <1>14 DEF SameHolder, Conn
<1>19. Typed'
  <2>1. rested' \in BOOLEAN
    BY <1>5
  <2>2. mirror + got \in 0..MaxOutput
    BY <1>3, OutputOK
  <2> QED
    BY <1>1, <1>3, <1>14, <1>17, <2>1, <2>2 DEF Typed, Fine, Message
<1>20. LinkOK'
  BY <1>1, <1>3 DEF LinkOK
<1>21. NetworkOK'
  <2>1. ~(Conn > Conn)
    BY <1>2 DEF Conns
  <2> QED
    BY <1>1, <1>3, <1>6, <1>17, <1>18, <2>1 DEF NetworkOK
<1>22. AdmissionOK'
  <2>1. ASSUME NEW p \in 1..Len(wire'[Conn]), Grants(p)'
        PROVE  /\ viewer.state # "Open"
               /\ \A j \in 1..(p - 1) : ~IsPiece(wire'[Conn][j])
               /\ \A j \in 1..Len(wire'[Conn]) : Grants(j)' => j = p
    <3>1. Grants(p) /\ p \in 1..Len(wire[Conn]) /\ Len(wire[Conn]) \in Nat
      <4>1. Grants(p)
        BY <1>17, <2>1
      <4>2. Len(wire[Conn]) \in Nat
        BY <1>2
      <4> QED
        BY <4>1, <4>2 DEF Grants
    <3>2. \A j \in 1..(p - 1) : j \in 1..Len(wire'[Conn]) /\ ~(j > Len(wire[Conn]))
      BY <2>1, <3>1
    <3>3. \A j : Grants(j)' => Grants(j) /\ j \in 1..Len(wire[Conn])
      BY <1>17 DEF Grants
    <3>4. \A j \in 1..(p - 1) : ~IsPiece(wire'[Conn][j])
      BY <1>1, <1>17, <3>1, <3>2 DEF AdmissionOK
    <3> QED
      BY <1>1, <3>1, <3>3, <3>4 DEF AdmissionOK
  <2>2. ASSUME Conn \in up, shell.peer # Conn
        PROVE  /\ viewer.state # "Open"
               /\ \A j \in 1..Len(wire'[Conn]) : ~IsPiece(wire'[Conn][j]) /\ ~Grants(j)'
    <3>1. wire' = wire
      BY <1>17, <2>2
    <3> QED
      BY <1>1, <1>17, <2>2, <3>1 DEF AdmissionOK
  <2> QED
    BY <1>3, <1>18, <2>1, <2>2 DEF AdmissionOK
<1>23. OutputOnItsWay'
  <2>1. (Watching' <=> Watching) /\ Views' = Views /\ Views \subseteq Screens
    <3>1. Watching' <=> Watching
      BY <1>3, <1>17 DEF Watching, Grants
    <3> QED
      BY <1>2, <1>3, <3>1 DEF Views
  <2>2. (shell.behind => shell.pending = <<>>)'
    BY <1>14 DEF Fine
  <2>3. CASE ~Reaches(shell.peer)
    <3>1. \A screen \in Views' : Watching' => Continues(screen, wire'[Conn])
      BY <1>1, <1>17, <2>1, <2>3 DEF OutputOnItsWay
    <3>2. ~(Reaches(Conn)' /\ shell'.peer = Conn')
      BY <1>3, <1>18, <2>3 DEF Reaches
    <3> QED
      BY <1>18, <2>2, <3>1, <3>2 DEF OutputOnItsWay
  <2>4. CASE Reaches(shell.peer)
    <3>1. shell.peer = Conn /\ Reaches(Conn) /\ shell.peer \in up
      BY <1>17, <2>4 DEF Reaches
    <3>2. shell.state = "Live" /\ s0 = shell
      BY <1>6, <3>1
    <3>3. ASSUME Watching', NEW screen \in Views'
          PROVE  InOrder(screen, wire'[Conn], shell', mirror')
      <4>1. screen \in Screens /\ screen \in Views
        BY <2>1, <3>3
      <4>2. InOrder(screen, wire[Conn], s0, mirror)
        BY <1>1, <1>2, <2>1, <3>1, <3>2, <3>3, <4>1 DEF OutputOnItsWay, InOrder
      <4> QED
        BY <1>3, <1>15, <1>17, <2>4, <4>1, <4>2
    <3> QED
      BY <1>18, <2>2, <3>3 DEF OutputOnItsWay, InOrder
  <2> QED
    BY <2>3, <2>4
<1>24. SizeOK'
  <2>1. HostHasIt' => HostHasIt
    BY <1>6, <1>18 DEF HostHasIt
  <2>2. AskedFor => AskedFor'
    BY <1>3, <1>17, <1>18 DEF AskedFor
  <2>3. AnswerComes => AnswerComes'
    <3>1. SUFFICES ASSUME AnswerComes, HostHasIt', NEW p, Grants(p)'
                   PROVE  shell'.size = viewer'.sentSize
      BY <1>3, <1>18 DEF AnswerComes
    <3>2. Grants(p) /\ p \in 1..Len(wire[Conn])
      BY <1>17, <3>1 DEF Grants
    <3> QED
      BY <1>3, <1>18, <2>1, <3>1, <3>2 DEF AnswerComes
  <2>4. SizeTold => SizeTold'
    BY <1>3, <1>18, <2>1 DEF SizeTold
  <2> QED
    BY <1>1, <1>3, <1>18, <2>2, <2>3, <2>4 DEF SizeOK
<1> QED
  BY <1>19, <1>20, <1>21, <1>22, <1>23, <1>24 DEF IInv

-----------------------------------------------------------------------------
(* The theorems.                                                           *)

LEMMA InitIInv == Init => IInv
<1>1. SUFFICES ASSUME Init PROVE IInv
  OBVIOUS
<1>2. PICK size \in Sizes :
        /\ shell = [state |-> "Live", peer |-> 1, size |-> size, pending |-> <<>>,
                    behind |-> FALSE]
        /\ viewer = [state |-> "Open", size |-> size, sentSize |-> size,
                     screen |-> Whole(0), dial |-> 1, link |-> TRUE, posted |-> <<>>,
                     outbox |-> <<>>, lost |-> FALSE, retry |-> FALSE, failed |-> FALSE,
                     resizes |-> 0, doubled |-> FALSE]
  BY <1>1 DEF Init
<1>3. /\ mirror = 0 /\ rested = TRUE /\ gone = {} /\ up = {1}
      /\ toHost = [c \in Conns |-> <<>>] /\ wire = [c \in Conns |-> <<>>]
  BY <1>1 DEF Init
<1>4. 1 \in Conns /\ Whole(0) \in Screens /\ 0 \in 0..MaxOutput /\ 0 \in 0..MaxResizes
  BY WholeIsAScreen, OutputOK DEF Conns
<1>5. shell \in Shell /\ shell.pending = <<>> /\ Len(shell.pending) = 0
  BY <1>2, <1>4 DEF Shell
<1>6. viewer \in Window
  BY <1>2, <1>4 DEF Window
<1>7. Typed
  BY <1>3, <1>4, <1>5, <1>6, OutputOK DEF Typed
<1>8. Conn = 1 /\ wire[Conn] = <<>> /\ toHost[Conn] = <<>>
  BY <1>2, <1>3, <1>4 DEF Conn
<1>9. LinkOK
  BY <1>2 DEF LinkOK
<1>10. NetworkOK
  BY <1>2, <1>3, <1>8 DEF NetworkOK, Conns
<1>11. AdmissionOK
  BY <1>2, <1>8 DEF AdmissionOK
<1>12. OutputOnItsWay
  <2>1. Continues(Whole(0), <<>>) /\ EndsAs(Whole(0), <<>>, Whole(0))
    <3>1. <<>> \in Seq(Message) /\ \A k \in 1..Len(<<>>) : FALSE
      OBVIOUS
    <3> QED
      BY <3>1, AnswersOnly
  <2>2. Leads(Whole(0), <<>>, Whole(0))
    BY DEF Leads, At
  <2>3. Views = {Whole(0)}
    BY <1>2 DEF Views
  <2> QED
    BY <1>2, <1>3, <1>4, <1>8, <2>1, <2>2, <2>3 DEF OutputOnItsWay
<1>13. SizeOK
  <2>1. SizeTold
    BY <1>2, <1>8 DEF SizeTold
  <2> QED
    BY <1>2, <2>1 DEF SizeOK
<1> QED
  BY <1>7, <1>9, <1>10, <1>11, <1>12, <1>13 DEF IInv

LEMMA StepIInv == IInv /\ [Next]_vars => IInv'
<1>1. SUFFICES ASSUME IInv, [Next]_vars PROVE IInv'
  OBVIOUS
<1>2. CASE RunCommand
  BY <1>1, <1>2, RunCommandKeeps
<1>3. CASE ClientHandlesMessage
  BY <1>1, <1>3, ClientHandlesMessageKeeps
<1>4. CASE Flush
  BY <1>1, <1>4, FlushKeeps
<1>5. CASE RetryResume
  BY <1>1, <1>5, RetryResumeKeeps
<1>6. ASSUME NEW size \in Sizes, Resize(size) PROVE IInv'
  BY <1>1, <1>6, ResizeKeeps
<1>7. CASE DialAndAdmit
  BY <1>1, <1>7, DialAndAdmitKeeps
<1>8. CASE LinkLost
  BY <1>1, <1>8, LinkLostKeeps
<1>9. ASSUME NEW c \in Conns, OnPeerGone(c) PROVE IInv'
  BY <1>1, <1>9, OnPeerGoneKeeps
<1>10. ASSUME NEW c \in Conns, HostHandlesMessage(c) PROVE IInv'
  BY <1>1, <1>10, HostHandlesMessageKeeps
<1>11. ASSUME NEW got \in 0..Rounds, Pump(got) PROVE IInv'
  BY <1>1, <1>11, PumpKeeps
<1>12. CASE Ends
  BY <1>1, <1>12, EndsKeeps
<1>13. CASE AttachLocal
  BY <1>1, <1>13, AttachLocalKeeps
<1>14. CASE IntervalPasses
  BY <1>1, <1>14, IntervalPassesKeeps
<1>15. CASE UNCHANGED vars
  <2>1. UNCHANGED <<mirror, shell, rested, gone, up, toHost, wire, viewer>> /\ rested \in BOOLEAN
    BY <1>1, <1>15 DEF vars, IInv, Typed
  <2> QED
    BY <1>1, <2>1, NothingHappens
<1> QED
  BY <1>1, <1>2, <1>3, <1>4, <1>5, <1>6, <1>7, <1>8, <1>9, <1>10, <1>11, <1>12, <1>13, <1>14,
     <1>15
  DEF Next, ViewerThread

LEMMA SpecIInv == Spec => []IInv
BY InitIInv, StepIInv, PTL DEF Spec

\* The values of the variables, whatever the sizes of the buffers: what TerminalHost keeps
\* for a window (QueueForPeer, QueueRepaint) is never more than MaxPending pieces, or than
\* one repaint takes.
THEOREM TypeCorrect == Spec => []TypeOK
<1>1. IInv => TypeOK
  <2>1. SUFFICES ASSUME IInv PROVE TypeOK
    OBVIOUS
  <2>2. Typed
    BY <2>1 DEF IInv
  <2>3. viewer.screen \in [n : 0..MaxOutput, part : 0..PaintPieces]
    BY <2>2, OutputOK DEF Typed, Window, Screens
  <2> HIDE DEF Screens
  <2>4. /\ viewer.state \in {"Open", "Idle", "Reattaching", "Closed"}
        /\ viewer.size \in Sizes /\ viewer.sentSize \in Sizes
        /\ viewer.dial \in Conns /\ viewer.link \in BOOLEAN
        /\ viewer.posted \in Seq({"ready", "lost"}) /\ viewer.outbox \in Seq(Request)
        /\ {viewer.lost, viewer.retry, viewer.failed, viewer.doubled} \subseteq BOOLEAN
        /\ viewer.resizes \in 0..MaxResizes
    BY <2>2 DEF Typed, Window
  <2>5. /\ shell.state \in {"Live", "Detached", "Local", "None"}
        /\ shell.peer \in Conns /\ shell.size \in Sizes /\ shell.behind \in BOOLEAN
        /\ shell.pending \in Seq(Piece)
    BY <2>2 DEF Typed, Shell
  <2> QED
    BY <2>2, <2>3, <2>4, <2>5 DEF TypeOK, Typed
<1> QED
  BY <1>1, SpecIInv, PTL

\* However small the outbox and what the host keeps, however long a repaint, and however
\* often the connection is lost: TerminalHost's pump never has a window show a piece of
\* output on a screen it was not printed on, or half a repaint with output over it; and what
\* is on its way to a window in its shell leads to the shell's screen of now, unless the
\* host knows that it owes a repaint (behind, set by QueueForPeer and TERM_OPEN).
THEOREM NothingMissed == Spec => []NothingIsMissed
<1>1. IInv => NothingIsMissed
  <2>1. SUFFICES ASSUME IInv PROVE NothingIsMissed
    OBVIOUS
  <2>2. /\ viewer.screen \in Screens /\ wire[Conn] \in Seq(Message)
        /\ shell.pending \in Seq(Piece) /\ shell.behind \in BOOLEAN
    BY <2>1, Values DEF IInv
  <2>3. viewer.screen # Garbled
    BY <2>2, ScreensAreFine
  <2>4. ASSUME InShell
        PROVE  /\ Continues(viewer.screen, OnItsWay)
               /\ shell.behind \/ EndsAs(viewer.screen, OnItsWay, Whole(mirror))
    <3>1. OutputOnItsWay
      BY <2>1 DEF IInv
    <3>2. Watching /\ Views = {viewer.screen} /\ Continues(viewer.screen, wire[Conn])
      BY <2>4, <3>1 DEF InShell, Watching, Views, OutputOnItsWay
    <3>3. CASE shell.behind
      <4>1. OnItsWay = wire[Conn]
        BY <2>2, <3>1, <3>3, ConcatEmptySeq DEF OnItsWay, OutputOnItsWay
      <4> QED
        BY <3>2, <3>3, <4>1
    <3>4. CASE ~shell.behind
      <4>1. PICK mid \in Screens : /\ EndsAs(viewer.screen, wire[Conn], mid)
                                   /\ Leads(mid, shell.pending, Whole(mirror))
        BY <2>4, <3>1, <3>2, <3>4 DEF InShell, OutputOnItsWay
      <4> QED
        BY <2>2, <3>2, <4>1, PiecesGoOn DEF OnItsWay
    <3> QED
      BY <2>2, <3>3, <3>4
  <2> QED
    BY <2>3, <2>4 DEF NothingIsMissed
<1> QED
  BY <1>1, SpecIInv, PTL

\* However often the user resizes the window while it waits to be let in, and however often
\* its connection is lost: a window in its shell that asked for it once on this connection,
\* and has told all it had to (SizeToTell), has told the host the size it has.
THEOREM SizesAgreed == Spec => []SizesAgree
<1>1. IInv => SizesAgree
  BY DEF IInv, SizeOK, SizeTold, HostHasIt, SizesAgree, InShell, Reaches, Conn
<1> QED
  BY <1>1, SpecIInv, PTL
=============================================================================
