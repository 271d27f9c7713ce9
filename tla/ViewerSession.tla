---------------------------- MODULE ViewerSession ----------------------------
(***************************************************************************)
(* The screen sessions of one host: a ScreenHostSession with its           *)
(* ViewerTable per shared source, and the ViewerBudget all the sources of  *)
(* a HostEngine share.  Every handler runs on the host's receive thread,   *)
(* so each one is a single step.                                           *)
(*                                                                         *)
(* Time stamps are kept as ages that saturate just past the limit they are *)
(* compared with: "idle" is nowUs - lastRecvUs, "quiet" is nowUs -         *)
(* lastInputUs (a lastInputUs of 0 is an age past the hold).               *)
(***************************************************************************)
EXTENDS Integers, FiniteSets

CONSTANTS
  Sources,       \* the displays a host shares
  Clients,       \* client ids, one per running viewer window
  Addrs,         \* packed peer addresses
  NoAddr,        \* the packed address 0
  NoClient,      \* the client id of a free seat
  AddrsOf,       \* the addresses a client's datagrams may come from
  MaxViewers,    \* kMaxViewersPerHost, also the seats of one source
  HoldTicks,     \* kInputControlHoldUs
  TimeoutTicks,  \* kSessionTimeoutUs
  MaxJoins       \* bound on the joins of one source

ASSUME ConstantsOK ==
  /\ NoAddr \notin Addrs
  /\ NoClient \notin Clients
  /\ AddrsOf \in [Clients -> SUBSET Addrs]
  /\ MaxViewers \in Nat \ {0}
  /\ HoldTicks \in Nat
  /\ TimeoutTicks \in Nat
  /\ MaxJoins \in Nat
  /\ IsFiniteSet(Sources)

VARIABLES
  ses,      \* source -> its session and viewer table
  taken,    \* seats taken from the host's budget
  stopped,  \* sources that ShutdownSource has ended
  running,  \* the host is sharing
  gone      \* clients that will never send again

vars == <<ses, taken, stopped, running, gone>>

Seats == 1..MaxViewers

Seat == [active : BOOLEAN, started : BOOLEAN,
         client : Clients \cup {NoClient}, addr : Addrs \cup {NoAddr},
         order : 0..MaxJoins, idle : 0..TimeoutTicks + 1,
         quiet : 0..HoldTicks + 1]

Session == [seats : [Seats -> Seat], count : Int,
            nextOrder : 1..MaxJoins + 1, state : {"Idle", "Ready", "Streaming"},
            open : BOOLEAN, driver : Addrs \cup {NoAddr},
            held : SUBSET Clients, published : SUBSET Addrs]

FreeSeat == [active |-> FALSE, started |-> FALSE, client |-> NoClient,
             addr |-> NoAddr, order |-> 0, idle |-> 0, quiet |-> HoldTicks + 1]

NewSession == [seats |-> [i \in Seats |-> FreeSeat], count |-> 0, nextOrder |-> 1,
               state |-> "Idle", open |-> FALSE, driver |-> NoAddr,
               held |-> {}, published |-> {}]

Active(s) == {i \in Seats : s.seats[i].active}
SeatsAt(s, a) == {i \in Active(s) : s.seats[i].addr = a}
SeatsOf(s, c) == {i \in Active(s) : s.seats[i].client = c}
Driving(v) == v.active /\ v.quiet <= HoldTicks

-----------------------------------------------------------------------------
(* The viewer table.                                                       *)

Publish(s) ==
  [s EXCEPT !.published = {s.seats[i].addr : i \in Active(s)}]

\* Faulty variant of FreeSeats: the seats are freed and not counted back.
FreeSeatsUncounted(s, S) ==
  Publish([s EXCEPT !.seats = [i \in Seats |-> IF i \in S THEN FreeSeat ELSE @[i]]])

FreeSeats(s, S) ==
  Publish([s EXCEPT !.seats = [i \in Seats |-> IF i \in S THEN FreeSeat ELSE @[i]],
                    !.count = @ - Cardinality(S)])

Admit(s, i, c, a) ==
  Publish([s EXCEPT
    !.seats[i] = [FreeSeat EXCEPT !.active = TRUE, !.client = c, !.addr = a,
                                  !.order = s.nextOrder],
    !.nextOrder = @ + 1,
    !.count = @ + 1])

\* Faulty variant of Rebind: the snapshot keeps the old address.
RebindUnpublished(s, i, a) ==
  [s EXCEPT !.seats[i].addr = a, !.seats[i].idle = 0]

\* Faulty variant of Rebind: a viewer that comes back joins anew.
RebindAsNew(s, i, a) ==
  Publish([s EXCEPT !.seats[i].addr = a, !.seats[i].idle = 0,
                    !.seats[i].order = s.nextOrder, !.nextOrder = @ + 1])

Rebind(s, i, a) ==
  Publish([s EXCEPT !.seats[i].addr = a, !.seats[i].idle = 0])

AnyStarted(s) == \E i \in Active(s) : s.seats[i].started

\* Faulty variant of HigherPriorityIsDriving: the later viewer wins.
LowerPriorityIsDriving(s, i) ==
  \E j \in Seats : /\ s.seats[j].order > s.seats[i].order
                   /\ Driving(s.seats[j])

HigherPriorityIsDriving(s, i) ==
  \E j \in Seats : /\ s.seats[j].order < s.seats[i].order
                   /\ Driving(s.seats[j])

-----------------------------------------------------------------------------
(* The session.  A new controller, or none, makes the host release every   *)
(* key and button it holds down for this source (onControllerChange).      *)

\* Faulty variant of HandOverControl: nothing is released on a change.
HandOverKeepingKeys(s, a) == [s EXCEPT !.driver = a]

HandOverControl(s, a) ==
  IF s.driver = a THEN s ELSE [s EXCEPT !.driver = a, !.held = {}]

RefreshState(s) ==
  [s EXCEPT !.state = IF AnyStarted(s) THEN "Streaming" ELSE "Ready"]

Disconnect(s) ==
  HandOverControl(FreeSeats([s EXCEPT !.state = "Idle", !.open = FALSE], Active(s)),
                  NoAddr)

\* DropViewer for each seat of the non-empty set S: the last one to leave ends
\* the session, otherwise the controls are freed if their holder left.
DropViewers(s, S) ==
  LET left  == FreeSeats(s, S)
      fresh == RefreshState(left)
  IN  IF left.count = 0 THEN Disconnect(left)
      ELSE IF \E i \in S : s.seats[i].addr = s.driver
           THEN HandOverControl(fresh, NoAddr)
           ELSE fresh

\* A step that turns source x's session into s: what the table gave back to the
\* budget, or took from it, is the change of its count.
Becomes(x, s) ==
  /\ ses' = [ses EXCEPT ![x] = s]
  /\ taken' = (taken + s.count) - ses[x].count
  /\ UNCHANGED <<stopped, running>>

Serving(x) == running /\ x \notin stopped

\* Faulty variant of AfterEviction: the stale viewer at the address stays.
AfterNoEviction(s, c, a) == s

\* HELLO from client c at address a.  A seat at a that belongs to another client
\* is dropped first; then c is moved to a if it is seated, or else admitted when
\* a seat and a place in the budget are free.  beginOk is whether BeginSession
\* could draw a session id.
AfterEviction(s, c, a) ==
  LET stale == {i \in SeatsAt(s, a) : s.seats[i].client # c}
  IN  IF stale = {} THEN s ELSE DropViewers(s, stale)

Hello(x, c, a, beginOk) ==
  LET s      == AfterEviction(ses[x], c, a)
      opened == IF s.count = 0 THEN [s EXCEPT !.open = TRUE] ELSE s
      evicted == ses[x].count - s.count
  IN  /\ Serving(x) /\ c \notin gone /\ a \in AddrsOf[c]
      /\ UNCHANGED gone
      /\ \/ \E i \in SeatsOf(s, c) : Becomes(x, Rebind(s, i, a))
         \/ /\ SeatsOf(s, c) = {}
            /\ s.count = 0 /\ ~beginOk
            /\ Becomes(x, [s EXCEPT !.state = "Idle"])
         \/ /\ SeatsOf(s, c) = {}
            /\ s.count = 0 => beginOk
            /\ Active(s) # Seats /\ taken - evicted < MaxViewers
            /\ s.nextOrder <= MaxJoins
            /\ \E i \in Seats \ Active(s) :
                 /\ \A j \in Seats \ Active(s) : i <= j
                 /\ Becomes(x, RefreshState(Admit(opened, i, c, a)))
         \/ /\ SeatsOf(s, c) = {}
            /\ s.count = 0 => beginOk
            /\ Active(s) = Seats \/ taken - evicted >= MaxViewers
            /\ Becomes(x, opened)

\* A packet of the session from the viewer in seat i: it counts as a sign of life.
FromSeat(x, i) ==
  /\ Serving(x) /\ ses[x].open
  /\ i \in Active(ses[x]) /\ ses[x].seats[i].client \notin gone
  /\ UNCHANGED gone

Heard(s, i) == [s EXCEPT !.seats[i].idle = 0]

Bye(x, i) ==
  /\ FromSeat(x, i)
  /\ Becomes(x, DropViewers(ses[x], {i}))

Start(x, i) ==
  /\ FromSeat(x, i)
  /\ Becomes(x, IF ses[x].seats[i].started THEN Heard(ses[x], i)
                ELSE [Heard(ses[x], i) EXCEPT !.seats[i].started = TRUE,
                                              !.state = "Streaming"])

\* Ping, Feedback, RequestKeyframe, Nack, ...: nothing but a sign of life here.
KeepAlive(x, i) ==
  /\ FromSeat(x, i)
  /\ Becomes(x, Heard(ses[x], i))

\* An input packet: down says whether it leaves a key or button held.
InputEvent(x, i, down) ==
  LET s     == Heard(ses[x], i)
      c     == s.seats[i].client
      taker == HandOverControl([s EXCEPT !.seats[i].quiet = 0], s.seats[i].addr)
  IN  /\ FromSeat(x, i)
      /\ s.state = "Streaming"
      /\ Becomes(x, IF HigherPriorityIsDriving(s, i) THEN s
                    ELSE [taker EXCEPT !.held = IF down THEN @ \cup {c} ELSE @ \ {c}])

\* SET_FOCUS: ignored from anyone but the controller; losing it frees the
\* controls and releases what is held (onFocus(false)).
SetFocus(x, i, focused) ==
  LET s == Heard(ses[x], i)
      blurred == HandOverControl([s EXCEPT !.seats[i].quiet = HoldTicks + 1], NoAddr)
  IN  /\ FromSeat(x, i)
      /\ s.state = "Streaming"
      /\ Becomes(x, IF s.driver \notin {NoAddr, s.seats[i].addr} \/ focused THEN s
                    ELSE [blurred EXCEPT !.held = {}])

\* Faulty variant of Expired: only viewers that started are timed out.
ExpiredStarted(s) ==
  {i \in Active(s) : s.seats[i].started /\ s.seats[i].idle > TimeoutTicks}

Expired(s) == {i \in Active(s) : s.seats[i].idle > TimeoutTicks}

Tick(x) ==
  /\ Serving(x) /\ ses[x].state # "Idle"
  /\ Expired(ses[x]) # {}
  /\ Becomes(x, DropViewers(ses[x], Expired(ses[x])))
  /\ UNCHANGED gone

\* A kick asked for by address in the host's window, drained by the loop.
KickViewer(x, a) ==
  /\ Serving(x)
  /\ \E i \in SeatsAt(ses[x], a) : Becomes(x, DropViewers(ses[x], {i}))
  /\ UNCHANGED gone

-----------------------------------------------------------------------------
(* HostEngine: a source is shut down alone, or all of them with the host.  *)

Release(s) == [s EXCEPT !.held = {}]

\* The source stops being served, with its session object left as it is.
ShutdownSource(x) ==
  /\ Serving(x)
  /\ stopped' = stopped \cup {x}
  /\ ses' = [ses EXCEPT ![x] = Release(@)]
  /\ UNCHANGED <<taken, running, gone>>

StopHost ==
  /\ running
  /\ running' = FALSE
  /\ stopped' = Sources
  /\ ses' = [x \in Sources |-> IF x \in stopped THEN ses[x] ELSE Release(ses[x])]
  /\ UNCHANGED <<taken, gone>>

\* pipes_.clear(): the table's destructor gives its seats back.
DestroySession(x) ==
  /\ ~running /\ ses[x] # NewSession
  /\ Becomes(x, NewSession)
  /\ UNCHANGED gone

StartHost ==
  /\ ~running /\ \A x \in Sources : ses[x] = NewSession
  /\ running' = TRUE
  /\ stopped' = {}
  /\ UNCHANGED <<ses, taken, gone>>

-----------------------------------------------------------------------------
(* The environment: time, and clients that fall silent for good.           *)

Older(age, limit) == IF age > limit THEN age ELSE age + 1

Aged(v) == IF v.active
           THEN [v EXCEPT !.idle = Older(@, TimeoutTicks), !.quiet = Older(@, HoldTicks)]
           ELSE v

PassTime ==
  /\ ses' = [x \in Sources |->
               [ses[x] EXCEPT !.seats = [i \in Seats |-> Aged(ses[x].seats[i])]]]
  /\ UNCHANGED <<taken, stopped, running, gone>>

Vanish(c) ==
  /\ c \notin gone
  /\ gone' = gone \cup {c}
  /\ UNCHANGED <<ses, taken, stopped, running>>

Init ==
  /\ ses = [x \in Sources |-> NewSession]
  /\ taken = 0
  /\ stopped = {}
  /\ running = TRUE
  /\ gone = {}

Packet(x) ==
  \/ \E c \in Clients, a \in Addrs, beginOk \in BOOLEAN : Hello(x, c, a, beginOk)
  \/ \E i \in Seats : Bye(x, i)
  \/ \E i \in Seats : Start(x, i)
  \/ \E i \in Seats : KeepAlive(x, i)
  \/ \E i \in Seats, down \in BOOLEAN : InputEvent(x, i, down)
  \/ \E i \in Seats, focused \in BOOLEAN : SetFocus(x, i, focused)

Engine(x) ==
  \/ Tick(x)
  \/ \E a \in Addrs : KickViewer(x, a)
  \/ ShutdownSource(x)
  \/ DestroySession(x)

Next ==
  \/ \E x \in Sources : Packet(x) \/ Engine(x)
  \/ StopHost
  \/ StartHost
  \/ PassTime
  \/ \E c \in Clients : Vanish(c)

Spec == Init /\ [][Next]_vars

\* The receive loop keeps running and time keeps passing.
FairSpec == Spec /\ WF_vars(PassTime) /\ \A x \in Sources : WF_vars(Tick(x))
-----------------------------------------------------------------------------
(* Properties.                                                             *)

\* Every field of every session has its type.
TypeOK ==
  /\ ses \in [Sources -> Session]
  /\ taken \in Int
  /\ stopped \in SUBSET Sources
  /\ running \in BOOLEAN
  /\ gone \in SUBSET Clients

\* The seats of all the sources together.
TakenSeats == {xi \in Sources \X Seats : ses[xi[1]].seats[xi[2]].active}

\* The host's budget counts exactly the viewers seated on any of its sources, and
\* never exceeds the host-wide limit: Drop, Clear, Disconnect and the destructor
\* give each seat back once, however they follow one another.
SeatsAccounted ==
  /\ taken = Cardinality(TakenSeats)
  /\ taken <= MaxViewers
  /\ \A x \in Sources : ses[x].count = Cardinality(Active(ses[x]))

\* No two viewers of a source share an address or a client id: a HELLO that
\* evicts, rebinds and admits leaves each lookup with one answer.
ViewersDistinct ==
  \A x \in Sources : \A i, j \in Active(ses[x]) :
    i # j => /\ ses[x].seats[i].addr # ses[x].seats[j].addr
             /\ ses[x].seats[i].client # ses[x].seats[j].client
             /\ ses[x].seats[i].order # ses[x].seats[j].order

\* The snapshot the capture threads read sends frames to the seated viewers'
\* current addresses, to all of them and to nobody else.
FramesGoToTheSeated ==
  \A x \in Sources :
    ses[x].published = {ses[x].seats[i].addr : i \in Active(ses[x])}

\* Keys and buttons held on the host belong to one seated viewer, the one the
\* session takes for the controller, so losing control or leaving lets go of them.
HeldByTheDriver ==
  \A x \in Sources : LET s == ses[x] IN
    s.held # {} => \E i \in SeatsAt(s, s.driver) : s.held = {s.seats[i].client}

\* Whatever a viewer held down is let go when it leaves: nothing stays pressed for
\* a client without a seat.
HeldKeysHaveAViewer ==
  \A x \in Sources : \A c \in ses[x].held : SeatsOf(ses[x], c) # {}

\* While an earlier viewer is driving, no later one takes the controls or presses
\* anything: its input is dropped until the earlier one pauses or leaves.
EarlierViewerKeepsControl ==
  [][\A x \in Sources : \A i, j \in Active(ses[x]) :
       LET s == ses[x]  t == ses'[x]
       IN  Driving(s.seats[i]) /\ s.seats[i].order < s.seats[j].order
           => /\ t.driver = s.seats[j].addr => s.driver = s.seats[j].addr
              /\ s.seats[j].client \in t.held => s.seats[j].client \in s.held]_vars

\* A viewer that comes back from another address keeps its place in the order of
\* priority and its stream, whoever else its HELLO evicts.
ReattachKeepsPriority ==
  [][\A x \in Sources, c \in Clients :
       \A i \in SeatsOf(ses[x], c), j \in SeatsOf(ses[x], c)' :
         /\ ses'[x].seats[j].order = ses[x].seats[i].order
         /\ ses[x].seats[i].started => ses'[x].seats[j].started]_vars

\* A viewer that vanishes without a BYE loses its seat on every source still
\* served, so neither its place nor its hold on the controls lasts: time and again
\* none of those gone has a seat.
VanishedLoseTheirSeats ==
  []<>(\A c \in gone, x \in Sources : ~Serving(x) \/ SeatsOf(ses[x], c) = {})
=============================================================================
