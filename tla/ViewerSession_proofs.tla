----------------------- MODULE ViewerSession_proofs -----------------------
(***************************************************************************)
(* Proofs about ViewerSession: whatever HELLOs, packets, timeouts, kicks    *)
(* and stops come in whatever order, each session is well formed: its       *)
(* viewers are distinct and its snapshot is that of its table.  Its seats   *)
(* are counted once in the host's budget and, where nobody roams, what is   *)
(* held down is the driver's.  Who comes back keeps its place, and nobody   *)
(* takes the controls from an earlier viewer that drives.                   *)
(***************************************************************************)
EXTENDS ViewerSession, FiniteSetTheorems, TLAPS

\* The snapshot is that of the table.
Current(s) == s.published = {s.seats[i].addr : i \in Active(s)}

\* No two viewers share an address, a client or a place in the order of joining.
Distinct(s) ==
  \A i, j \in Active(s) :
    i # j => /\ s.seats[i].addr # s.seats[j].addr
             /\ s.seats[i].client # s.seats[j].client
             /\ s.seats[i].order # s.seats[j].order

\* A seat is a client's, and orders are given out once.
Joined(s) ==
  \A i \in Active(s) : s.seats[i].client \in Clients /\ s.seats[i].order < s.nextOrder

WellFormed(s) == s \in Session /\ Current(s) /\ Distinct(s) /\ Joined(s)

\* A change of session that leaves its viewers where they are: neither who is seated, nor
\* where, nor in what order.
SameViewers(s, t) ==
  /\ t.published = s.published /\ t.nextOrder = s.nextOrder
  /\ \A i \in Seats : /\ t.seats[i].active = s.seats[i].active
                      /\ t.seats[i].addr = s.seats[i].addr
                      /\ t.seats[i].client = s.seats[i].client
                      /\ t.seats[i].order = s.seats[i].order

\* Such a change keeps a session well formed.
LEMMA SameViewersWellFormed ==
  ASSUME NEW s, WellFormed(s), NEW t, t \in Session, SameViewers(s, t)
  PROVE  WellFormed(t)
<1>1. Active(t) = Active(s)
  BY DEF SameViewers, Active
<1>2. \A i \in Active(s) : i \in Seats
  BY DEF Active
<1>3. {t.seats[i].addr : i \in Active(t)} = {s.seats[i].addr : i \in Active(s)}
  BY <1>1, <1>2 DEF SameViewers
<1>4. Current(t)
  BY <1>3 DEF WellFormed, Current, SameViewers
<1>5. Distinct(t)
  BY <1>1, <1>2 DEF WellFormed, Distinct, SameViewers
<1>6. Joined(t)
  BY <1>1, <1>2 DEF WellFormed, Joined, SameViewers
<1>7. QED
  BY <1>4, <1>5, <1>6 DEF WellFormed

\* The free seat is a seat, and the new session a session.
LEMMA NewSessionWellFormed == FreeSeat \in Seat /\ WellFormed(NewSession)
<1>1. 0 \in 0..MaxJoins /\ 1 \in 1..MaxJoins + 1
      /\ 0 \in 0..TimeoutTicks + 1 /\ HoldTicks + 1 \in 0..HoldTicks + 1
  BY ConstantsOK
<1>2. FreeSeat \in Seat
  BY <1>1 DEF FreeSeat, Seat
<1>3. NewSession \in Session
  BY <1>1, <1>2 DEF NewSession, Session
<1>4. Active(NewSession) = {}
  BY DEF Active, NewSession, FreeSeat
<1>5. QED
  BY <1>2, <1>3, <1>4 DEF WellFormed, Current, Distinct, Joined, NewSession

-----------------------------------------------------------------------------
(* The operations of the table.                                            *)

\* t is s with the seats of S freed, and maybe others.
Thinned(s, S, t) ==
  /\ t.nextOrder = s.nextOrder
  /\ \A i \in Seats : \/ t.seats[i] = FreeSeat
                      \/ i \notin S /\ t.seats[i] = s.seats[i]

\* Freeing seats and publishing the rest keeps a session well formed.
LEMMA ThinnedWellFormed ==
  ASSUME NEW s, WellFormed(s), NEW S, NEW t, t \in Session, Current(t), Thinned(s, S, t)
  PROVE  WellFormed(t)
<1>1. ASSUME NEW i \in Active(t)
      PROVE  i \in Active(s) /\ t.seats[i] = s.seats[i]
  BY <1>1 DEF Active, Thinned, FreeSeat
<1>2. Distinct(t)
  BY <1>1 DEF WellFormed, Distinct
<1>3. Joined(t)
  BY <1>1 DEF WellFormed, Joined, Thinned
<1>4. QED
  BY <1>2, <1>3 DEF WellFormed

\* Freeing the seats of S frees them and keeps the session well formed.
LEMMA FreeSeatsWellFormed ==
  ASSUME NEW s, WellFormed(s), NEW S \in SUBSET Seats
  PROVE  /\ WellFormed(FreeSeats(s, S))
         /\ Thinned(s, S, FreeSeats(s, S))
<1> DEFINE u == [s EXCEPT !.seats = [i \in Seats |-> IF i \in S THEN FreeSeat ELSE @[i]],
                          !.count = @ - Cardinality(S)]
           p == {u.seats[i].addr : i \in Active(u)}
           t == FreeSeats(s, S)
<1>1. Cardinality(S) \in Int
  <2>1. IsFiniteSet(Seats)
    BY FS_Interval, ConstantsOK DEF Seats
  <2>2. QED
    BY <2>1, FS_Subset, FS_CardinalityType
<1>2. s \in Session
  BY DEF WellFormed
<1>3. /\ u \in Session
      /\ u.seats = [i \in Seats |-> IF i \in S THEN FreeSeat ELSE s.seats[i]]
      /\ u.nextOrder = s.nextOrder
  <2> DEFINE q == [i \in Seats |-> IF i \in S THEN FreeSeat ELSE s.seats[i]]
             n == s.count - Cardinality(S)
  <2>1. q \in [Seats -> Seat]
    BY <1>2, NewSessionWellFormed DEF Session
  <2>2. n \in Int
    BY <1>1, <1>2 DEF Session
  <2>3. u = [s EXCEPT !.seats = q, !.count = n]
    OBVIOUS
  <2> HIDE DEF q, n, u
  <2>4. u \in Session /\ u.seats = q /\ u.nextOrder = s.nextOrder
    BY <1>2, <2>1, <2>2, <2>3 DEF Session
  <2>5. QED
    BY <2>4 DEF q
<1>4. p \in SUBSET Addrs
  <2>1. \A i \in Active(u) : i \in Active(s) /\ u.seats[i] = s.seats[i]
    BY <1>3 DEF Active, FreeSeat
  <2>2. p \subseteq s.published
    BY <2>1 DEF WellFormed, Current
  <2>3. QED
    BY <1>2, <2>2 DEF Session
<1>5. t = [u EXCEPT !.published = p]
  BY DEF FreeSeats, Publish
<1> HIDE DEF u, p
<1>6. /\ t \in Session
      /\ t.seats = u.seats /\ t.published = p /\ t.nextOrder = u.nextOrder
  BY <1>3, <1>4, <1>5 DEF Session
<1>7. Current(t)
  BY <1>6 DEF Current, p, Active
<1>8. Thinned(s, S, t)
  BY <1>3, <1>6 DEF Thinned
<1>9. QED
  BY <1>6, <1>7, <1>8, ThinnedWellFormed

\* The controls change hands without anybody moving.
LEMMA HandOverWellFormed ==
  ASSUME NEW s, WellFormed(s), NEW a \in Addrs \cup {NoAddr}
  PROVE  /\ WellFormed(HandOverControl(s, a))
         /\ HandOverControl(s, a).seats = s.seats
         /\ HandOverControl(s, a).nextOrder = s.nextOrder
<1> DEFINE t == HandOverControl(s, a)
<1>1. s \in Session
  BY DEF WellFormed
<1>2. t \in Session /\ t.seats = s.seats /\ t.published = s.published
      /\ t.nextOrder = s.nextOrder
  BY <1>1 DEF HandOverControl, Session
<1>3. SameViewers(s, t)
  BY <1>2 DEF SameViewers
<1>4. QED
  BY <1>2, <1>3, SameViewersWellFormed

\* Nor does anybody move when the state is refreshed.
LEMMA RefreshStateWellFormed ==
  ASSUME NEW s, WellFormed(s)
  PROVE  /\ WellFormed(RefreshState(s))
         /\ RefreshState(s).seats = s.seats
         /\ RefreshState(s).nextOrder = s.nextOrder
<1> DEFINE t == RefreshState(s)
<1>1. s \in Session
  BY DEF WellFormed
<1>2. t \in Session /\ t.seats = s.seats /\ t.published = s.published
      /\ t.nextOrder = s.nextOrder
  BY <1>1 DEF RefreshState, Session
<1>3. SameViewers(s, t)
  BY <1>2 DEF SameViewers
<1>4. QED
  BY <1>2, <1>3, SameViewersWellFormed

\* Ending the session frees every seat.
LEMMA DisconnectWellFormed ==
  ASSUME NEW s, WellFormed(s)
  PROVE  WellFormed(Disconnect(s)) /\ Thinned(s, {}, Disconnect(s))
<1> DEFINE u == [s EXCEPT !.state = "Idle", !.open = FALSE]
           f == FreeSeats(u, Active(s))
<1>1. s \in Session
  BY DEF WellFormed
<1>2. u \in Session /\ u.seats = s.seats /\ u.published = s.published
      /\ u.nextOrder = s.nextOrder
  BY <1>1 DEF Session
<1>3. WellFormed(u)
  BY <1>2, SameViewersWellFormed DEF SameViewers
<1>4. Active(s) \in SUBSET Seats
  BY DEF Active
<1> HIDE DEF u
<1>5. WellFormed(f) /\ Thinned(u, Active(s), f)
  BY <1>3, <1>4, FreeSeatsWellFormed
<1>6. Disconnect(s) = HandOverControl(f, NoAddr)
  BY DEF Disconnect, u
<1> HIDE DEF f
<1>7. /\ WellFormed(Disconnect(s))
      /\ Disconnect(s).seats = f.seats /\ Disconnect(s).nextOrder = f.nextOrder
  BY <1>5, <1>6, HandOverWellFormed
<1>8. QED
  BY <1>2, <1>5, <1>7 DEF Thinned

\* Dropping the viewers of S leaves the others where they are, or ends the session.
LEMMA DropViewersWellFormed ==
  ASSUME NEW s, WellFormed(s), NEW S \in SUBSET Seats
  PROVE  WellFormed(DropViewers(s, S)) /\ Thinned(s, S, DropViewers(s, S))
<1> DEFINE left  == FreeSeats(s, S)
           fresh == RefreshState(left)
           t     == DropViewers(s, S)
<1>1. WellFormed(left) /\ Thinned(s, S, left)
  BY FreeSeatsWellFormed
<1>2. t \in {Disconnect(left), HandOverControl(fresh, NoAddr), fresh}
  BY DEF DropViewers
<1> HIDE DEF left, t
<1>3. WellFormed(fresh) /\ fresh.seats = left.seats /\ fresh.nextOrder = left.nextOrder
  BY <1>1, RefreshStateWellFormed
<1> HIDE DEF fresh
<1>4. CASE t = Disconnect(left)
  <2>1. WellFormed(t) /\ Thinned(left, {}, t)
    BY <1>1, <1>4, DisconnectWellFormed
  <2>2. Thinned(s, S, t)
    BY <1>1, <2>1 DEF Thinned
  <2>3. QED
    BY <2>1, <2>2 DEF t
<1>5. CASE t = HandOverControl(fresh, NoAddr)
  <2>1. WellFormed(t) /\ t.seats = fresh.seats /\ t.nextOrder = fresh.nextOrder
    BY <1>3, <1>5, HandOverWellFormed
  <2>2. Thinned(s, S, t)
    BY <1>1, <1>3, <2>1 DEF Thinned
  <2>3. QED
    BY <2>1, <2>2 DEF t
<1>6. CASE t = fresh
  <2>1. Thinned(s, S, t)
    BY <1>1, <1>3, <1>6 DEF Thinned
  <2>2. QED
    BY <1>3, <1>6, <2>1 DEF t
<1>7. QED
  BY <1>2, <1>4, <1>5, <1>6

\* After the eviction a HELLO begins with, nobody but its client is at its address.
LEMMA AfterEvictionLeavesOne ==
  ASSUME NEW s, WellFormed(s), NEW c, NEW a
  PROVE  LET t == AfterEviction(s, c, a) IN
         /\ WellFormed(t)
         /\ \A i \in Active(t) : t.seats[i].addr = a => t.seats[i].client = c
<1> DEFINE stale == {i \in SeatsAt(s, a) : s.seats[i].client # c}
           t == AfterEviction(s, c, a)
<1>1. stale \in SUBSET Seats
  BY DEF SeatsAt, Active
<1>2. CASE stale = {}
  <2>1. t = s
    BY <1>2 DEF AfterEviction
  <2>2. \A i \in Active(s) : s.seats[i].addr = a => s.seats[i].client = c
    BY <1>2 DEF SeatsAt
  <2>3. QED
    BY <2>1, <2>2
<1>3. CASE stale # {}
  <2>1. t = DropViewers(s, stale)
    BY <1>3 DEF AfterEviction
  <2> HIDE DEF t
  <2>2. WellFormed(t) /\ Thinned(s, stale, t)
    BY <1>1, <2>1, DropViewersWellFormed
  <2>3. ASSUME NEW i \in Active(t)
        PROVE  i \in Active(s) /\ i \notin stale /\ t.seats[i] = s.seats[i]
    BY <2>2 DEF Thinned, Active, FreeSeat
  <2>4. \A i \in Active(t) : t.seats[i].addr = a => t.seats[i].client = c
    BY <2>3 DEF SeatsAt
  <2>5. QED
    BY <2>2, <2>4 DEF t
<1>4. QED
  BY <1>2, <1>3

\* Moving a client to an address nobody else is at keeps the viewers distinct.
LEMMA RebindWellFormed ==
  ASSUME NEW s, WellFormed(s), NEW c, NEW a \in Addrs, NEW i \in SeatsOf(s, c),
         \A j \in Active(s) : s.seats[j].addr = a => s.seats[j].client = c
  PROVE  WellFormed(Rebind(s, i, a))
<1> DEFINE q == [s.seats EXCEPT ![i].addr = a, ![i].idle = 0]
           u == [s EXCEPT !.seats[i].addr = a, !.seats[i].idle = 0]
           p == {u.seats[j].addr : j \in Active(u)}
           t == Rebind(s, i, a)
<1>1. /\ s \in Session /\ i \in Seats /\ s.seats[i].active /\ s.seats[i].client = c
      /\ s.seats \in [Seats -> Seat]
  BY DEF WellFormed, SeatsOf, Active, Session
<1>2. 0 \in 0..TimeoutTicks + 1
  BY ConstantsOK
<1>3. /\ q \in [Seats -> Seat]
      /\ q[i].addr = a
      /\ \A j \in Seats : /\ q[j].active = s.seats[j].active
                          /\ q[j].client = s.seats[j].client
                          /\ q[j].order = s.seats[j].order
                          /\ j # i => q[j].addr = s.seats[j].addr
  BY <1>1, <1>2 DEF Seat
<1>4. u.seats = q
  BY <1>1 DEF Session
<1>5. t = [u EXCEPT !.published = p]
  BY DEF Rebind, Publish
<1> HIDE DEF q
<1>6. u \in Session /\ u.seats = q /\ u.nextOrder = s.nextOrder
  BY <1>1, <1>3, <1>4 DEF Session
<1> HIDE DEF u
<1>7. Active(u) = Active(s)
  BY <1>3, <1>6 DEF Active
<1>8. p \in SUBSET Addrs
  <2>1. p \subseteq s.published \cup {a}
    BY <1>3, <1>6, <1>7 DEF WellFormed, Current, Active
  <2>2. QED
    BY <1>1, <2>1 DEF Session
<1> HIDE DEF p
<1>9. /\ t \in Session /\ t.seats = q /\ t.published = p /\ t.nextOrder = s.nextOrder
  BY <1>5, <1>6, <1>8 DEF Session
<1> HIDE DEF t
<1>10. Active(t) = Active(s)
  BY <1>6, <1>7, <1>9 DEF Active
<1>11. Current(t)
  BY <1>6, <1>7, <1>9, <1>10 DEF Current, p
<1>12. Distinct(t)
  <2>1. \A j \in Active(s) : j \in Seats /\ (j # i => s.seats[j].addr # a)
    BY <1>1 DEF WellFormed, Distinct, Active
  <2>2. QED
    BY <1>3, <1>9, <1>10, <2>1 DEF WellFormed, Distinct
<1>13. Joined(t)
  BY <1>3, <1>9, <1>10 DEF WellFormed, Joined, Active
<1>14. QED
  BY <1>9, <1>11, <1>12, <1>13 DEF WellFormed, t

\* A client without a seat, at an address where nobody is, joins as a distinct viewer.
LEMMA AdmitWellFormed ==
  ASSUME NEW s, WellFormed(s), NEW c \in Clients, NEW a \in Addrs,
         NEW i \in Seats \ Active(s), s.nextOrder <= MaxJoins, SeatsOf(s, c) = {},
         \A j \in Active(s) : s.seats[j].addr # a
  PROVE  WellFormed(Admit(s, i, c, a))
<1> DEFINE v == [FreeSeat EXCEPT !.active = TRUE, !.client = c, !.addr = a,
                                 !.order = s.nextOrder]
           q == [s.seats EXCEPT ![i] = v]
           u == [s EXCEPT !.seats[i] = v, !.nextOrder = @ + 1, !.count = @ + 1]
           p == {u.seats[j].addr : j \in Active(u)}
           t == Admit(s, i, c, a)
<1>1. /\ s \in Session /\ i \in Seats
      /\ s.seats \in [Seats -> Seat] /\ s.nextOrder \in 1..MaxJoins + 1 /\ s.count \in Int
  BY DEF WellFormed, Session
<1>2. /\ s.nextOrder \in 0..MaxJoins /\ s.nextOrder + 1 \in 1..MaxJoins + 1
      /\ s.count + 1 \in Int
  BY <1>1, ConstantsOK
<1>3. /\ v \in Seat
      /\ v.active /\ v.addr = a /\ v.client = c /\ v.order = s.nextOrder
  BY <1>2, NewSessionWellFormed DEF FreeSeat, Seat
<1>4. t = [u EXCEPT !.published = p]
  BY DEF Admit, Publish
<1> HIDE DEF v
<1>5. q \in [Seats -> Seat] /\ q[i] = v /\ \A j \in Seats \ {i} : q[j] = s.seats[j]
  BY <1>1, <1>3
<1>6. u.seats = q /\ u.nextOrder = s.nextOrder + 1 /\ u \in Session
  BY <1>1, <1>2, <1>3, <1>5 DEF Session
<1> HIDE DEF q, u
<1>7. Active(u) = Active(s) \cup {i}
  BY <1>1, <1>3, <1>5, <1>6 DEF Active
<1>8. p \in SUBSET Addrs
  <2>1. p \subseteq s.published \cup {a}
    BY <1>3, <1>5, <1>6, <1>7 DEF WellFormed, Current, Active
  <2>2. QED
    BY <1>1, <2>1 DEF Session
<1> HIDE DEF p
<1>9. /\ t \in Session /\ t.seats = q /\ t.published = p
      /\ t.nextOrder = s.nextOrder + 1
  BY <1>4, <1>6, <1>8 DEF Session
<1> HIDE DEF t
<1>10. Active(t) = Active(s) \cup {i}
  BY <1>6, <1>7, <1>9 DEF Active
<1>11. Current(t)
  BY <1>6, <1>7, <1>9, <1>10 DEF Current, p
<1>12. \A j \in Active(s) : /\ j \in Seats /\ j # i /\ t.seats[j] = s.seats[j]
                            /\ s.seats[j].client # c /\ s.seats[j].client \in Clients
                            /\ s.seats[j].order < s.nextOrder /\ s.seats[j].order \in Int
  BY <1>1, <1>5, <1>9 DEF SeatsOf, Active, WellFormed, Joined, Seat
<1>13. t.seats[i] = v
  BY <1>5, <1>9
<1>14. Distinct(t)
  <2> SUFFICES ASSUME NEW j \in Active(t), NEW k \in Active(t), j # k
               PROVE  /\ t.seats[j].addr # t.seats[k].addr
                      /\ t.seats[j].client # t.seats[k].client
                      /\ t.seats[j].order # t.seats[k].order
    BY DEF Distinct
  <2>1. CASE j = i
    BY <1>1, <1>3, <1>10, <1>12, <1>13, <2>1
  <2>2. CASE k = i
    BY <1>1, <1>3, <1>10, <1>12, <1>13, <2>2
  <2>3. CASE j # i /\ k # i
    BY <1>10, <1>12, <2>3 DEF WellFormed, Distinct
  <2>4. QED
    BY <2>1, <2>2, <2>3
<1>15. Joined(t)
  BY <1>1, <1>3, <1>9, <1>10, <1>12, <1>13 DEF Joined
<1>16. QED
  BY <1>9, <1>11, <1>14, <1>15 DEF WellFormed, t

-----------------------------------------------------------------------------
(* What a viewer's packets change of its own seat.                         *)

\* A seat may be marked as started, heard from or driving without anybody moving.
LEMMA MarkedSeatWellFormed ==
  ASSUME NEW s, WellFormed(s), NEW i \in Seats, NEW v \in Seat,
         v.active = s.seats[i].active, v.addr = s.seats[i].addr,
         v.client = s.seats[i].client, v.order = s.seats[i].order
  PROVE  LET t == [s EXCEPT !.seats[i] = v] IN
         /\ WellFormed(t)
         /\ t.seats = [s.seats EXCEPT ![i] = v]
         /\ t.state = s.state /\ t.driver = s.driver
<1> DEFINE t == [s EXCEPT !.seats[i] = v]
<1>1. s \in Session /\ s.seats \in [Seats -> Seat]
  BY DEF WellFormed, Session
<1>2. [s.seats EXCEPT ![i] = v] \in [Seats -> Seat]
  BY <1>1
<1>3. /\ t \in Session /\ t.seats = [s.seats EXCEPT ![i] = v]
      /\ t.published = s.published /\ t.nextOrder = s.nextOrder
      /\ t.state = s.state /\ t.driver = s.driver
  BY <1>1, <1>2 DEF Session
<1>4. SameViewers(s, t)
  BY <1>1, <1>3 DEF SameViewers
<1>5. QED
  BY <1>3, <1>4, SameViewersWellFormed

\* A packet counts as a sign of life of its viewer.
LEMMA HeardWellFormed ==
  ASSUME NEW s, WellFormed(s), NEW i \in Seats
  PROVE  /\ WellFormed(Heard(s, i))
         /\ Heard(s, i).seats[i].addr = s.seats[i].addr
         /\ Heard(s, i).seats[i].client = s.seats[i].client
<1> DEFINE v == [s.seats[i] EXCEPT !.idle = 0]
<1>1. s.seats[i] \in Seat /\ 0 \in 0..TimeoutTicks + 1 /\ s.seats \in [Seats -> Seat]
  BY ConstantsOK DEF WellFormed, Session
<1>2. /\ v \in Seat
      /\ v.active = s.seats[i].active /\ v.addr = s.seats[i].addr
      /\ v.client = s.seats[i].client /\ v.order = s.seats[i].order
  BY <1>1 DEF Seat
<1>3. Heard(s, i) = [s EXCEPT !.seats[i] = v]
  BY <1>1 DEF Heard
<1> HIDE DEF v
<1>4. WellFormed(Heard(s, i)) /\ Heard(s, i).seats = [s.seats EXCEPT ![i] = v]
  BY <1>2, <1>3, MarkedSeatWellFormed
<1>5. QED
  BY <1>1, <1>2, <1>4

\* An input packet lets its viewer drive, unless an earlier one does.
LEMMA InputEventWellFormed ==
  ASSUME NEW s, WellFormed(s), NEW i \in Active(s), NEW down \in BOOLEAN
  PROVE  LET r     == Heard(s, i)
             c     == r.seats[i].client
             taker == HandOverControl([r EXCEPT !.seats[i].quiet = 0], r.seats[i].addr)
         IN  WellFormed([taker EXCEPT !.held = IF down THEN @ \cup {c} ELSE @ \ {c}])
<1> DEFINE r == Heard(s, i)
           v == [r.seats[i] EXCEPT !.quiet = 0]
           u == [r EXCEPT !.seats[i].quiet = 0]
           a == r.seats[i].addr
           c == r.seats[i].client
           t == HandOverControl(u, a)
           held == IF down THEN t.held \cup {c} ELSE t.held \ {c}
           w == [t EXCEPT !.held = held]
<1> HIDE DEF r
<1>1. i \in Seats
  BY DEF Active
<1>2. WellFormed(r)
  BY <1>1, HeardWellFormed DEF r
<1>3. r \in Session /\ r.seats \in [Seats -> Seat] /\ r.seats[i] \in Seat
      /\ 0 \in 0..HoldTicks + 1
  BY <1>1, <1>2, ConstantsOK DEF WellFormed, Session
<1>4. /\ v \in Seat
      /\ v.active = r.seats[i].active /\ v.addr = r.seats[i].addr
      /\ v.client = r.seats[i].client /\ v.order = r.seats[i].order
  BY <1>3 DEF Seat
<1>5. u = [r EXCEPT !.seats[i] = v]
  BY <1>1, <1>3
<1> HIDE DEF v, u
<1>6. WellFormed(u)
  BY <1>1, <1>2, <1>4, <1>5, MarkedSeatWellFormed
<1>7. a \in Addrs \cup {NoAddr}
  BY <1>3 DEF Seat
<1> HIDE DEF a
<1>8. WellFormed(t)
  BY <1>6, <1>7, HandOverWellFormed
<1>9. c \in Clients
  BY <1>1, HeardWellFormed DEF WellFormed, Joined, r
<1> HIDE DEF t
<1>10. t \in Session
  BY <1>8 DEF WellFormed
<1>11. held \in SUBSET Clients
  BY <1>9, <1>10 DEF Session
<1> HIDE DEF held
<1>12. w \in Session /\ w.seats = t.seats /\ w.published = t.published
      /\ w.nextOrder = t.nextOrder
  BY <1>10, <1>11 DEF Session
<1>13. WellFormed(w)
  BY <1>8, <1>12, SameViewersWellFormed DEF SameViewers
<1>14. QED
  BY <1>13 DEF r, u, a, t, held

\* A viewer that loses the focus lets go of what it held and of the controls.
LEMMA BlurredWellFormed ==
  ASSUME NEW s, WellFormed(s), NEW i \in Seats
  PROVE  WellFormed([HandOverControl([s EXCEPT !.seats[i].quiet = HoldTicks + 1], NoAddr)
                       EXCEPT !.held = {}])
<1> DEFINE v == [s.seats[i] EXCEPT !.quiet = HoldTicks + 1]
           u == [s EXCEPT !.seats[i].quiet = HoldTicks + 1]
           t == HandOverControl(u, NoAddr)
<1>1. s \in Session /\ s.seats \in [Seats -> Seat] /\ s.seats[i] \in Seat
      /\ HoldTicks + 1 \in 0..HoldTicks + 1
  BY ConstantsOK DEF WellFormed, Session
<1>2. /\ v \in Seat
      /\ v.active = s.seats[i].active /\ v.addr = s.seats[i].addr
      /\ v.client = s.seats[i].client /\ v.order = s.seats[i].order
  BY <1>1 DEF Seat
<1>3. u = [s EXCEPT !.seats[i] = v]
  BY <1>1
<1> HIDE DEF v, u
<1>4. WellFormed(u)
  BY <1>2, <1>3, MarkedSeatWellFormed
<1>5. WellFormed(t)
  BY <1>4, HandOverWellFormed
<1> HIDE DEF t
<1> DEFINE w == [t EXCEPT !.held = {}]
<1>6. w \in Session /\ w.seats = t.seats /\ w.published = t.published
      /\ w.nextOrder = t.nextOrder
  BY <1>5 DEF WellFormed, Session
<1>7. WellFormed(w)
  BY <1>5, <1>6, SameViewersWellFormed DEF SameViewers
<1>8. QED
  BY <1>7 DEF u, t

\* START marks the seat and sets the session streaming.
LEMMA StartedWellFormed ==
  ASSUME NEW s, WellFormed(s), NEW i \in Seats
  PROVE  WellFormed([s EXCEPT !.seats[i].started = TRUE, !.state = "Streaming"])
<1> DEFINE v == [s.seats[i] EXCEPT !.started = TRUE]
           u == [s EXCEPT !.seats[i] = v]
           w == [u EXCEPT !.state = "Streaming"]
<1>1. s \in Session /\ s.seats \in [Seats -> Seat] /\ s.seats[i] \in Seat
  BY DEF WellFormed, Session
<1>2. /\ v \in Seat
      /\ v.active = s.seats[i].active /\ v.addr = s.seats[i].addr
      /\ v.client = s.seats[i].client /\ v.order = s.seats[i].order
  BY <1>1 DEF Seat
<1>3. w = [s EXCEPT !.seats[i].started = TRUE, !.state = "Streaming"]
  BY <1>1
<1> HIDE DEF v
<1>4. WellFormed(u)
  BY <1>2, MarkedSeatWellFormed
<1> HIDE DEF u
<1>5. w \in Session /\ w.seats = u.seats /\ w.published = u.published
      /\ w.nextOrder = u.nextOrder
  BY <1>4 DEF WellFormed, Session
<1>6. WellFormed(w)
  BY <1>4, <1>5, SameViewersWellFormed DEF SameViewers
<1>7. QED
  BY <1>3, <1>6

\* Keys and buttons are let go of without anybody moving.
LEMMA ReleaseWellFormed ==
  ASSUME NEW s, WellFormed(s)
  PROVE  WellFormed(Release(s))
<1>1. Release(s) \in Session /\ Release(s).seats = s.seats
      /\ Release(s).published = s.published /\ Release(s).nextOrder = s.nextOrder
  BY DEF WellFormed, Session, Release
<1>2. QED
  BY <1>1, SameViewersWellFormed DEF SameViewers

-----------------------------------------------------------------------------
(* The invariant.                                                          *)

Inv == TypeOK /\ \A x \in Sources : WellFormed(ses[x])

\* A step that makes a source's session a well-formed one keeps the invariant.
LEMMA BecomesInv ==
  ASSUME Inv, NEW x \in Sources, NEW s, WellFormed(s), Becomes(x, s), UNCHANGED gone
  PROVE  Inv'
<1>1. s \in Session /\ ses[x] \in Session /\ taken \in Int
  BY DEF Inv, WellFormed, TypeOK
<1>2. s.count \in Int /\ ses[x].count \in Int
  BY <1>1 DEF Session
<1>3. taken' \in Int
  BY <1>1, <1>2 DEF Becomes
<1>4. ses' \in [Sources -> Session]
      /\ \A y \in Sources : ses'[y] = IF y = x THEN s ELSE ses[y]
  BY <1>1 DEF Inv, TypeOK, Becomes
<1>5. \A y \in Sources : WellFormed(ses'[y])
  BY <1>4 DEF Inv
<1>6. TypeOK'
  BY <1>3, <1>4 DEF Inv, TypeOK, Becomes
<1>7. QED
  BY <1>5, <1>6 DEF Inv

\* A HELLO evicts, rebinds or admits within the invariant.
LEMMA HelloInv ==
  ASSUME Inv, NEW x \in Sources, NEW c \in Clients, NEW a \in Addrs,
         NEW beginOk \in BOOLEAN, Hello(x, c, a, beginOk)
  PROVE  Inv'
<1> DEFINE s      == AfterEviction(ses[x], c, a)
           opened == IF s.count = 0 THEN [s EXCEPT !.open = TRUE] ELSE s
<1>1. WellFormed(s) /\ \A i \in Active(s) : s.seats[i].addr = a => s.seats[i].client = c
  BY AfterEvictionLeavesOne DEF Inv
<1>2. /\ UNCHANGED gone
      /\ \/ \E i \in SeatsOf(s, c) : Becomes(x, Rebind(s, i, a))
         \/ Becomes(x, [s EXCEPT !.state = "Idle"])
         \/ /\ SeatsOf(s, c) = {} /\ s.nextOrder <= MaxJoins
            /\ \E i \in Seats \ Active(s) : Becomes(x, RefreshState(Admit(opened, i, c, a)))
         \/ Becomes(x, opened)
  BY DEF Hello
<1> HIDE DEF s
<1>3. /\ WellFormed(opened)
      /\ opened.seats = s.seats /\ opened.nextOrder = s.nextOrder
  <2>1. opened \in Session /\ opened.seats = s.seats /\ opened.published = s.published
        /\ opened.nextOrder = s.nextOrder
    BY <1>1 DEF WellFormed, Session
  <2>2. QED
    BY <1>1, <2>1, SameViewersWellFormed DEF SameViewers
<1> HIDE DEF opened
<1>4. ASSUME NEW i \in SeatsOf(s, c), Becomes(x, Rebind(s, i, a))
      PROVE  Inv'
  BY <1>1, <1>2, <1>4, RebindWellFormed, BecomesInv
<1>5. CASE Becomes(x, [s EXCEPT !.state = "Idle"])
  <2> DEFINE t == [s EXCEPT !.state = "Idle"]
  <2>1. t \in Session /\ t.seats = s.seats /\ t.published = s.published
        /\ t.nextOrder = s.nextOrder
    BY <1>1 DEF WellFormed, Session
  <2>2. WellFormed(t)
    BY <1>1, <2>1, SameViewersWellFormed DEF SameViewers
  <2>3. QED
    BY <1>2, <1>5, <2>2, BecomesInv
<1>6. ASSUME SeatsOf(s, c) = {}, s.nextOrder <= MaxJoins,
             NEW i \in Seats \ Active(s), Becomes(x, RefreshState(Admit(opened, i, c, a)))
      PROVE  Inv'
  <2>1. Active(opened) = Active(s) /\ SeatsOf(opened, c) = {}
    BY <1>3, <1>6 DEF Active, SeatsOf
  <2>2. \A j \in Active(opened) : opened.seats[j].addr # a
    BY <1>1, <1>3, <1>6, <2>1 DEF SeatsOf
  <2>3. WellFormed(Admit(opened, i, c, a))
    BY <1>3, <1>6, <2>1, <2>2, AdmitWellFormed
  <2>4. WellFormed(RefreshState(Admit(opened, i, c, a)))
    BY <2>3, RefreshStateWellFormed
  <2>5. QED
    BY <1>2, <1>6, <2>4, BecomesInv
<1>7. CASE Becomes(x, opened)
  BY <1>2, <1>3, <1>7, BecomesInv
<1>8. QED
  BY <1>2, <1>4, <1>5, <1>6, <1>7

\* So does every packet of a seated viewer.
LEMMA SeatPacketInv ==
  ASSUME Inv, NEW x \in Sources, NEW i \in Seats,
         \/ Bye(x, i) \/ Start(x, i) \/ KeepAlive(x, i)
         \/ \E down \in BOOLEAN : InputEvent(x, i, down)
         \/ \E focused \in BOOLEAN : SetFocus(x, i, focused)
  PROVE  Inv'
<1> DEFINE s == ses[x]
           h == Heard(s, i)
<1>1. WellFormed(s)
  BY DEF Inv
<1>2. WellFormed(h)
  BY <1>1, HeardWellFormed
<1>3. UNCHANGED gone /\ i \in Active(s)
  BY DEF Bye, Start, KeepAlive, InputEvent, SetFocus, FromSeat
<1>4. CASE Bye(x, i)
  <2>1. WellFormed(DropViewers(s, {i}))
    BY <1>1, DropViewersWellFormed
  <2>2. Becomes(x, DropViewers(s, {i}))
    BY <1>4 DEF Bye
  <2>3. QED
    BY <1>3, <2>1, <2>2, BecomesInv
<1>5. CASE Start(x, i)
  <2> DEFINE t == [h EXCEPT !.seats[i].started = TRUE, !.state = "Streaming"]
  <2>1. WellFormed(t)
    BY <1>2, StartedWellFormed
  <2>2. Becomes(x, h) \/ Becomes(x, t)
    BY <1>5 DEF Start
  <2> HIDE DEF h, t
  <2>3. QED
    BY <1>2, <1>3, <2>1, <2>2, BecomesInv
<1>6. CASE KeepAlive(x, i)
  BY <1>2, <1>3, <1>6, BecomesInv DEF KeepAlive
<1>7. ASSUME NEW down \in BOOLEAN, InputEvent(x, i, down)
      PROVE  Inv'
  <2> DEFINE c     == h.seats[i].client
             taker == HandOverControl([h EXCEPT !.seats[i].quiet = 0], h.seats[i].addr)
             t     == [taker EXCEPT !.held = IF down THEN @ \cup {c} ELSE @ \ {c}]
  <2>1. WellFormed(t)
    BY <1>1, <1>3, InputEventWellFormed
  <2>2. Becomes(x, h) \/ Becomes(x, t)
    BY <1>7 DEF InputEvent
  <2> HIDE DEF h, t
  <2>3. QED
    BY <1>2, <1>3, <2>1, <2>2, BecomesInv
<1>8. ASSUME NEW focused \in BOOLEAN, SetFocus(x, i, focused)
      PROVE  Inv'
  <2> DEFINE blurred == HandOverControl([h EXCEPT !.seats[i].quiet = HoldTicks + 1], NoAddr)
             t       == [blurred EXCEPT !.held = {}]
  <2>1. WellFormed(t)
    BY <1>2, BlurredWellFormed
  <2>2. Becomes(x, h) \/ Becomes(x, t)
    BY <1>8 DEF SetFocus
  <2> HIDE DEF h, t
  <2>3. QED
    BY <1>2, <1>3, <2>1, <2>2, BecomesInv
<1>9. QED
  BY <1>4, <1>5, <1>6, <1>7, <1>8

\* Timeouts, kicks and the end of one source keep the invariant.
LEMMA EngineInv ==
  ASSUME Inv, NEW x \in Sources, Engine(x)
  PROVE  Inv'
<1> DEFINE s == ses[x]
<1>1. WellFormed(s)
  BY DEF Inv
<1>2. CASE Tick(x)
  <2>1. Expired(s) \in SUBSET Seats
    BY DEF Expired, Active
  <2>2. WellFormed(DropViewers(s, Expired(s)))
    BY <1>1, <2>1, DropViewersWellFormed
  <2>3. QED
    BY <1>2, <2>2, BecomesInv DEF Tick
<1>3. ASSUME NEW a \in Addrs, KickViewer(x, a)
      PROVE  Inv'
  <2>1. PICK i \in SeatsAt(s, a) : Becomes(x, DropViewers(s, {i}))
    BY <1>3 DEF KickViewer
  <2>2. WellFormed(DropViewers(s, {i}))
    BY <1>1, DropViewersWellFormed DEF SeatsAt, Active
  <2>3. QED
    BY <1>3, <2>1, <2>2, BecomesInv DEF KickViewer
<1>4. CASE ShutdownSource(x)
  <2>1. WellFormed(Release(s))
    BY <1>1, ReleaseWellFormed
  <2>2. /\ ses' \in [Sources -> Session]
        /\ \A y \in Sources : ses'[y] = IF y = x THEN Release(s) ELSE ses[y]
    BY <1>4, <2>1 DEF ShutdownSource, Inv, TypeOK, WellFormed
  <2>3. QED
    BY <1>4, <2>1, <2>2 DEF ShutdownSource, Inv, TypeOK
<1>5. CASE DestroySession(x)
  BY <1>5, NewSessionWellFormed, BecomesInv DEF DestroySession
<1>6. QED
  BY <1>2, <1>3, <1>4, <1>5 DEF Engine

\* So does stopping the host.
LEMMA StopHostInv == ASSUME Inv, StopHost PROVE Inv'
<1>1. \A x \in Sources : WellFormed(ses'[x])
  BY ReleaseWellFormed DEF StopHost, Inv
<1>2. ses' \in [Sources -> Session]
  BY <1>1 DEF StopHost, WellFormed
<1>3. QED
  BY <1>1, <1>2 DEF StopHost, Inv, TypeOK

\* Time moves nobody.
LEMMA PassTimeInv == ASSUME Inv, PassTime PROVE Inv'
<1> DEFINE q(s) == [i \in Seats |-> Aged(s.seats[i])]
           t(s) == [s EXCEPT !.seats = q(s)]
<1>1. ASSUME NEW v \in Seat
      PROVE  /\ Aged(v) \in Seat
             /\ Aged(v).active = v.active /\ Aged(v).addr = v.addr
             /\ Aged(v).client = v.client /\ Aged(v).order = v.order
  <2>1. /\ Older(v.idle, TimeoutTicks) \in 0..TimeoutTicks + 1
        /\ Older(v.quiet, HoldTicks) \in 0..HoldTicks + 1
    BY ConstantsOK DEF Older, Seat
  <2>2. QED
    BY <2>1 DEF Aged, Seat
<1>2. ASSUME NEW s, WellFormed(s)
      PROVE  WellFormed(t(s))
  <2>1. s \in Session /\ s.seats \in [Seats -> Seat]
    BY <1>2 DEF WellFormed, Session
  <2>2. /\ q(s) \in [Seats -> Seat]
        /\ \A i \in Seats : /\ q(s)[i].active = s.seats[i].active
                            /\ q(s)[i].addr = s.seats[i].addr
                            /\ q(s)[i].client = s.seats[i].client
                            /\ q(s)[i].order = s.seats[i].order
    BY <1>1, <2>1
  <2> HIDE DEF q
  <2>3. /\ t(s) \in Session /\ t(s).seats = q(s)
        /\ t(s).published = s.published /\ t(s).nextOrder = s.nextOrder
    BY <2>1, <2>2 DEF Session
  <2> HIDE DEF t
  <2>4. SameViewers(s, t(s))
    BY <2>2, <2>3 DEF SameViewers
  <2>5. QED
    BY <1>2, <2>3, <2>4, SameViewersWellFormed
<1>3. ses' = [x \in Sources |-> t(ses[x])]
  BY DEF PassTime
<1> HIDE DEF t
<1>4. \A x \in Sources : WellFormed(ses'[x])
  BY <1>2, <1>3 DEF Inv
<1>5. ses' \in [Sources -> Session]
  BY <1>2, <1>3 DEF Inv, WellFormed
<1>6. QED
  BY <1>4, <1>5 DEF PassTime, Inv, TypeOK

\* The invariant holds at the start.
LEMMA InitInv == Init => Inv
  BY NewSessionWellFormed DEF Init, Inv, TypeOK, WellFormed

\* Every step keeps the invariant.
LEMMA NextInv == ASSUME Inv, [Next]_vars PROVE Inv'
<1>1. ASSUME NEW x \in Sources, Packet(x)
      PROVE  Inv'
  <2>1. ASSUME NEW c \in Clients, NEW a \in Addrs, NEW beginOk \in BOOLEAN,
               Hello(x, c, a, beginOk)
        PROVE  Inv'
    BY <2>1, HelloInv
  <2>2. ASSUME NEW i \in Seats,
               \/ Bye(x, i) \/ Start(x, i) \/ KeepAlive(x, i)
               \/ \E down \in BOOLEAN : InputEvent(x, i, down)
               \/ \E focused \in BOOLEAN : SetFocus(x, i, focused)
        PROVE  Inv'
    BY <2>2, SeatPacketInv
  <2>3. QED
    BY <1>1, <2>1, <2>2 DEF Packet
<1>2. ASSUME NEW x \in Sources, Engine(x)
      PROVE  Inv'
  BY <1>2, EngineInv
<1>3. CASE StopHost
  BY <1>3, StopHostInv
<1>4. CASE StartHost
  BY <1>4 DEF StartHost, Inv, TypeOK
<1>5. CASE PassTime
  BY <1>5, PassTimeInv
<1>6. ASSUME NEW c \in Clients, Vanish(c)
      PROVE  Inv'
  BY <1>6 DEF Vanish, Inv, TypeOK
<1>7. CASE UNCHANGED vars
  BY <1>7 DEF vars, Inv, TypeOK
<1>8. QED
  BY <1>1, <1>2, <1>3, <1>4, <1>5, <1>6, <1>7 DEF Next

\* The invariant holds of every behaviour.
LEMMA InvHolds == Spec => []Inv
  BY InitInv, NextInv, PTL DEF Spec

\* Every field of every session keeps its type, whatever the order of packets,
\* timeouts, kicks and stops.
THEOREM TypeCorrect == Spec => []TypeOK
<1>1. Inv => TypeOK
  BY DEF Inv
<1>2. QED
  BY <1>1, InvHolds, PTL

\* However HELLOs evict, rebind and admit, no two viewers of a source share an address,
\* a client id or a place in the order of priority.
THEOREM ViewersStayDistinct == Spec => []ViewersDistinct
<1>1. Inv => ViewersDistinct
  BY DEF Inv, WellFormed, Distinct, ViewersDistinct
<1>2. QED
  BY <1>1, InvHolds, PTL

\* After every handler, the snapshot the capture threads read names the addresses of
\* the seated viewers and no other.
THEOREM SnapshotIsCurrent == Spec => []FramesGoToTheSeated
<1>1. Inv => FramesGoToTheSeated
  BY DEF Inv, WellFormed, Current, FramesGoToTheSeated
<1>2. QED
  BY <1>1, InvHolds, PTL

-----------------------------------------------------------------------------
(* The seats and the controls.  Beside its viewers a session keeps its     *)
(* count of them, and what is held down for them.                          *)

\* Every client keeps to one address.
OneAddressEach == \A c \in Clients : \A a, b \in AddrsOf[c] : a = b

Counted(s) == s.count = Cardinality(Active(s))

AtHome(s) == \A i \in Active(s) : s.seats[i].addr \in AddrsOf[s.seats[i].client]

HeldOK(s) ==
  s.held # {} => \E i \in SeatsAt(s, s.driver) : s.held = {s.seats[i].client}

\* A viewer that comes back from elsewhere keeps what it holds down and not the
\* controls, so the third part is about viewers that do not.
Sound(s) == Counted(s) /\ AtHome(s) /\ (OneAddressEach => HeldOK(s))

\* A change of session in which nobody comes or goes and the controls stay.
SameHold(s, t) ==
  /\ t.count = s.count /\ t.driver = s.driver /\ t.held = s.held
  /\ \A i \in Seats : /\ t.seats[i].active = s.seats[i].active
                      /\ t.seats[i].addr = s.seats[i].addr
                      /\ t.seats[i].client = s.seats[i].client

\* Such a change keeps a session sound.
LEMMA SameHoldSound ==
  ASSUME NEW s, Sound(s), NEW t, SameHold(s, t)
  PROVE  Sound(t)
<1>1. Active(t) = Active(s) /\ \A i \in Active(s) : i \in Seats
  BY DEF SameHold, Active
<1>2. Counted(t)
  BY <1>1 DEF Sound, Counted, SameHold
<1>3. AtHome(t)
  BY <1>1 DEF Sound, AtHome, SameHold
<1>4. ASSUME OneAddressEach PROVE HeldOK(t)
  <2>1. HeldOK(s)
    BY <1>4 DEF Sound
  <2>2. SeatsAt(t, t.driver) = SeatsAt(s, s.driver)
    BY <1>1 DEF SeatsAt, SameHold
  <2>3. \A i \in SeatsAt(s, s.driver) : t.seats[i].client = s.seats[i].client
    BY <1>1 DEF SeatsAt, SameHold
  <2> QED BY <2>1, <2>2, <2>3 DEF HeldOK, SameHold
<1> QED BY <1>2, <1>3, <1>4 DEF Sound

\* The seats in use can be counted.
LEMMA ActiveCounts ==
  ASSUME NEW s
  PROVE  IsFiniteSet(Active(s)) /\ Cardinality(Active(s)) \in Nat
<1>1. IsFiniteSet(Seats) /\ Active(s) \in SUBSET Seats
  BY FS_Interval, ConstantsOK DEF Seats, Active
<1>2. IsFiniteSet(Active(s))
  BY <1>1, FS_Subset
<1> QED BY <1>2, FS_CardinalityType

\* Nobody can be told to hold the controls at the address 0, so while nobody does
\* nothing is held down.
LEMMA NothingHeldWithoutDriver ==
  ASSUME NEW s, WellFormed(s), AtHome(s), HeldOK(s), s.driver = NoAddr
  PROVE  s.held = {}
<1>1. ASSUME NEW i \in Active(s) PROVE s.seats[i].addr # NoAddr
  <2>1. s.seats[i].client \in Clients
    BY DEF WellFormed, Joined
  <2>2. s.seats[i].addr \in Addrs
    BY <2>1, ConstantsOK DEF AtHome
  <2> QED BY <2>2, ConstantsOK
<1> QED BY <1>1 DEF HeldOK, SeatsAt

\* A seat that is freed is counted back, and the controls stay where they were.
LEMMA FreeSeatsCounts ==
  ASSUME NEW s, WellFormed(s), Counted(s), AtHome(s), NEW S \in SUBSET Active(s)
  PROVE  LET t == FreeSeats(s, S) IN
         /\ Counted(t) /\ AtHome(t)
         /\ Active(t) = Active(s) \ S
         /\ \A i \in Active(t) : t.seats[i] = s.seats[i]
         /\ t.count <= s.count
         /\ t.driver = s.driver /\ t.held = s.held
<1> DEFINE q == [i \in Seats |-> IF i \in S THEN FreeSeat ELSE s.seats[i]]
           n == s.count - Cardinality(S)
           u == [s EXCEPT !.seats = q, !.count = n]
           p == {u.seats[i].addr : i \in Active(u)}
           t == FreeSeats(s, S)
<1>1. s \in Session
  BY DEF WellFormed
<1>2. t = [u EXCEPT !.published = p]
  BY DEF FreeSeats, Publish
<1> HIDE DEF q, n, p
<1>3. t.seats = q /\ t.count = n /\ t.driver = s.driver /\ t.held = s.held
  BY <1>1, <1>2 DEF Session
<1> HIDE DEF u, t
<1>4. Active(s) \in SUBSET Seats
  BY DEF Active
<1>5. Active(t) = Active(s) \ S /\ \A i \in Active(t) : t.seats[i] = s.seats[i]
  <2>1. ASSUME NEW i \in Seats
        PROVE  t.seats[i] = IF i \in S THEN FreeSeat ELSE s.seats[i]
    BY <1>3 DEF q
  <2>2. ~FreeSeat.active
    BY DEF FreeSeat
  <2> QED BY <1>4, <2>1, <2>2 DEF Active
<1>6. /\ IsFiniteSet(Active(s)) /\ Cardinality(Active(s)) \in Nat
      /\ IsFiniteSet(S) /\ Cardinality(S) \in Nat
      /\ IsFiniteSet(Active(t)) /\ Cardinality(Active(t)) \in Nat
  BY ActiveCounts, FS_Subset, FS_CardinalityType
<1>7. Cardinality(Active(t)) = Cardinality(Active(s)) - Cardinality(S)
  <2>1. Active(t) \cup S = Active(s) /\ Active(t) \cap S = {}
    BY <1>5
  <2>2. Cardinality({}) = 0
    BY FS_EmptySet
  <2>3. Cardinality(Active(t) \cup S)
          = Cardinality(Active(t)) + Cardinality(S) - Cardinality(Active(t) \cap S)
    BY <1>6, FS_Union, Zenon
  <2>4. Cardinality(Active(s)) = Cardinality(Active(t)) + Cardinality(S) - 0
    BY <2>1, <2>2, <2>3
  <2> QED BY <1>6, <2>4
<1>8. Counted(t) /\ t.count <= s.count
  BY <1>3, <1>6, <1>7 DEF Counted, n
<1>9. AtHome(t)
  BY <1>5 DEF AtHome
<1> QED BY <1>3, <1>5, <1>8, <1>9 DEF t

\* When the controls are taken from everybody, what was held down is let go of.
LEMMA NobodyDrives ==
  ASSUME NEW s, WellFormed(s), Counted(s), AtHome(s),
         s.driver = NoAddr => (OneAddressEach => s.held = {})
  PROVE  LET t == HandOverControl(s, NoAddr) IN Sound(t) /\ t.count = s.count
<1> DEFINE t == HandOverControl(s, NoAddr)
<1>1. s \in Session
  BY DEF WellFormed
<1>2. /\ t.count = s.count /\ t.seats = s.seats
      /\ OneAddressEach => t.held = {}
  BY <1>1 DEF HandOverControl, Session
<1> HIDE DEF t
<1>3. Active(t) = Active(s)
  BY <1>2 DEF Active
<1>4. Counted(t) /\ AtHome(t)
  BY <1>2, <1>3 DEF Counted, AtHome
<1>5. OneAddressEach => HeldOK(t)
  BY <1>2 DEF HeldOK
<1> QED BY <1>2, <1>4, <1>5 DEF Sound, t

\* Ending the session gives every seat back.
LEMMA DisconnectSound ==
  ASSUME NEW s, WellFormed(s), Counted(s), AtHome(s),
         s.driver = NoAddr => (OneAddressEach => s.held = {})
  PROVE  Sound(Disconnect(s)) /\ Disconnect(s).count <= s.count
<1> DEFINE u == [s EXCEPT !.state = "Idle", !.open = FALSE]
           f == FreeSeats(u, Active(s))
<1>1. s \in Session
  BY DEF WellFormed
<1>2. /\ u \in Session /\ u.seats = s.seats /\ u.published = s.published
      /\ u.nextOrder = s.nextOrder /\ u.count = s.count
      /\ u.driver = s.driver /\ u.held = s.held
  BY <1>1 DEF Session
<1>3. WellFormed(u)
  BY <1>2, SameViewersWellFormed DEF SameViewers
<1> HIDE DEF u
<1>4. Active(u) = Active(s)
  BY <1>2 DEF Active
<1>5. Counted(u) /\ AtHome(u)
  BY <1>2, <1>4 DEF Counted, AtHome
<1>6. /\ WellFormed(f) /\ Counted(f) /\ AtHome(f) /\ f.count <= u.count
      /\ f.driver = u.driver /\ f.held = u.held
  <2>1. Active(s) \in SUBSET Seats
    BY DEF Active
  <2> QED BY <1>3, <1>4, <1>5, <2>1, FreeSeatsWellFormed, FreeSeatsCounts
<1>7. Disconnect(s) = HandOverControl(f, NoAddr)
  BY DEF Disconnect, u
<1> HIDE DEF f
<1>8. Sound(HandOverControl(f, NoAddr)) /\ HandOverControl(f, NoAddr).count = f.count
  BY <1>2, <1>6, NobodyDrives
<1> QED BY <1>2, <1>6, <1>7, <1>8

\* Whoever is dropped, the seats are counted back, and who holds something down still
\* has a seat and the controls.
LEMMA DropViewersSound ==
  ASSUME NEW s, WellFormed(s), Sound(s), NEW S \in SUBSET Active(s)
  PROVE  Sound(DropViewers(s, S)) /\ DropViewers(s, S).count <= s.count
<1> DEFINE left  == FreeSeats(s, S)
           fresh == RefreshState(left)
           t     == DropViewers(s, S)
           driverLeft == \E i \in S : s.seats[i].addr = s.driver
<1>1. s \in Session /\ Active(s) \in SUBSET Seats
  BY DEF WellFormed, Active
<1>2. /\ Counted(left) /\ AtHome(left) /\ WellFormed(left)
      /\ Active(left) = Active(s) \ S
      /\ \A i \in Active(left) : left.seats[i] = s.seats[i]
      /\ left.count <= s.count
      /\ left.driver = s.driver /\ left.held = s.held
  BY <1>1, FreeSeatsCounts, FreeSeatsWellFormed DEF Sound
<1>3. t = IF left.count = 0 THEN Disconnect(left)
          ELSE IF driverLeft THEN HandOverControl(fresh, NoAddr) ELSE fresh
  BY DEF DropViewers
<1> HIDE DEF left, t, driverLeft
<1>4. left.driver = NoAddr => (OneAddressEach => left.held = {})
  BY <1>2, NothingHeldWithoutDriver DEF Sound
<1>5. /\ WellFormed(fresh) /\ fresh.seats = left.seats /\ fresh.count = left.count
      /\ fresh.driver = left.driver /\ fresh.held = left.held
  BY <1>2, RefreshStateWellFormed DEF RefreshState, WellFormed, Session
<1> HIDE DEF fresh
<1>6. Counted(fresh) /\ AtHome(fresh) /\ Active(fresh) = Active(left)
  BY <1>2, <1>5 DEF Counted, AtHome, Active
<1>7. s.count \in Int /\ left.count \in Int
  BY <1>1, <1>2 DEF Session, WellFormed
<1>8. CASE left.count = 0
  <2>1. Sound(Disconnect(left)) /\ Disconnect(left).count <= left.count
    BY <1>2, <1>4, DisconnectSound
  <2>2. Disconnect(left).count \in Int
    BY <1>2, DisconnectWellFormed DEF WellFormed, Session
  <2>3. t = Disconnect(left)
    BY <1>3, <1>8
  <2> QED BY <1>2, <1>7, <2>1, <2>2, <2>3 DEF t
<1>9. CASE left.count # 0 /\ driverLeft
  <2>1. Sound(HandOverControl(fresh, NoAddr)) /\ HandOverControl(fresh, NoAddr).count = fresh.count
    BY <1>4, <1>5, <1>6, NobodyDrives
  <2>2. t = HandOverControl(fresh, NoAddr)
    BY <1>3, <1>9
  <2> QED BY <1>2, <1>5, <2>1, <2>2 DEF t
<1>10. CASE left.count # 0 /\ ~driverLeft
  <2>1. t = fresh
    BY <1>3, <1>10
  <2>2. ASSUME OneAddressEach, fresh.held # {}
        PROVE  \E i \in SeatsAt(fresh, fresh.driver) : fresh.held = {fresh.seats[i].client}
    <3>1. PICK i \in SeatsAt(s, s.driver) : s.held = {s.seats[i].client}
      BY <1>2, <1>5, <2>2 DEF Sound, HeldOK
    <3>2. i \in Active(left)
      BY <1>2, <1>10, <3>1 DEF SeatsAt, driverLeft
    <3>3. i \in SeatsAt(fresh, fresh.driver) /\ fresh.seats[i] = s.seats[i]
      BY <1>2, <1>5, <1>6, <3>1, <3>2 DEF SeatsAt
    <3> QED BY <1>2, <1>5, <3>1, <3>3
  <2>3. Sound(fresh)
    BY <1>6, <2>2 DEF Sound, HeldOK
  <2> QED BY <1>2, <1>5, <2>1, <2>3 DEF t
<1> QED BY <1>8, <1>9, <1>10

\* The eviction a HELLO begins with gives back what it takes.
LEMMA AfterEvictionSound ==
  ASSUME NEW s, WellFormed(s), Sound(s), NEW c, NEW a
  PROVE  Sound(AfterEviction(s, c, a)) /\ AfterEviction(s, c, a).count <= s.count
<1> DEFINE stale == {i \in SeatsAt(s, a) : s.seats[i].client # c}
<1>1. stale \in SUBSET Active(s)
  BY DEF SeatsAt
<1>2. s.count \in Int
  BY DEF WellFormed, Session
<1> QED BY <1>1, <1>2, DropViewersSound DEF AfterEviction

\* A client that comes back leaves the count as it is; at its one address it also
\* keeps the controls.
LEMMA RebindSound ==
  ASSUME NEW s, WellFormed(s), Sound(s), NEW c \in Clients, NEW a \in AddrsOf[c],
         NEW i \in SeatsOf(s, c)
  PROVE  Sound(Rebind(s, i, a)) /\ Rebind(s, i, a).count = s.count
<1> DEFINE u == [s EXCEPT !.seats[i].addr = a, !.seats[i].idle = 0]
           t == Rebind(s, i, a)
<1>1. /\ s \in Session /\ s.seats \in [Seats -> Seat]
      /\ i \in Active(s) /\ i \in Seats /\ s.seats[i].client = c
  BY DEF WellFormed, Session, SeatsOf, Active
<1>2. /\ t.count = s.count /\ t.driver = s.driver /\ t.held = s.held
      /\ t.seats = [s.seats EXCEPT ![i].addr = a, ![i].idle = 0]
  BY <1>1 DEF Rebind, Publish, Session
<1> HIDE DEF t
<1>3. \A j \in Seats : /\ t.seats[j].active = s.seats[j].active
                       /\ t.seats[j].client = s.seats[j].client
                       /\ j # i => t.seats[j].addr = s.seats[j].addr
  BY <1>1, <1>2 DEF Seat
<1>4. t.seats[i].addr = a
  BY <1>1, <1>2 DEF Seat
<1>5. Active(t) = Active(s)
  BY <1>3 DEF Active
<1>6. Counted(t) /\ AtHome(t)
  <2>1. Counted(t)
    BY <1>2, <1>5 DEF Sound, Counted
  <2>2. ASSUME NEW j \in Active(s) PROVE t.seats[j].addr \in AddrsOf[t.seats[j].client]
    <3>1. j \in Seats /\ s.seats[j].addr \in AddrsOf[s.seats[j].client]
      BY DEF Active, Sound, AtHome
    <3> QED BY <1>1, <1>3, <1>4, <3>1
  <2> QED BY <1>5, <2>1, <2>2 DEF AtHome
<1>7. ASSUME OneAddressEach PROVE HeldOK(t)
  <2>1. s.seats[i].addr = a
    BY <1>1, <1>7 DEF Sound, AtHome, OneAddressEach
  <2>2. SameHold(s, t)
    BY <1>2, <1>3, <1>4, <2>1 DEF SameHold
  <2> QED BY <1>7, <2>2, SameHoldSound DEF Sound
<1> QED BY <1>2, <1>6, <1>7 DEF Sound, t

\* One that joins is counted, and takes the controls from nobody.
LEMMA AdmitSound ==
  ASSUME NEW s, WellFormed(s), Sound(s), NEW c \in Clients, NEW a \in AddrsOf[c],
         NEW i \in Seats \ Active(s)
  PROVE  Sound(Admit(s, i, c, a)) /\ Admit(s, i, c, a).count = s.count + 1
<1> DEFINE v == [FreeSeat EXCEPT !.active = TRUE, !.client = c, !.addr = a,
                                 !.order = s.nextOrder]
           t == Admit(s, i, c, a)
<1>1. s \in Session /\ s.seats \in [Seats -> Seat] /\ i \in Seats
  BY DEF WellFormed, Session
<1>2. v.active /\ v.client = c /\ v.addr = a
  BY DEF FreeSeat
<1>3. /\ t.count = s.count + 1 /\ t.driver = s.driver /\ t.held = s.held
      /\ t.seats = [s.seats EXCEPT ![i] = v]
  BY <1>1 DEF Admit, Publish, Session
<1> HIDE DEF v, t
<1>4. t.seats[i] = v /\ \A j \in Seats \ {i} : t.seats[j] = s.seats[j]
  BY <1>1, <1>3
<1>5. Active(t) = Active(s) \cup {i}
  BY <1>1, <1>2, <1>4 DEF Active
<1>6. \A j \in Active(s) : j \in Seats \ {i} /\ t.seats[j] = s.seats[j]
  BY <1>4 DEF Active
<1>7. Counted(t)
  <2>1. IsFiniteSet(Active(s)) /\ i \notin Active(s)
    BY ActiveCounts
  <2>2. Cardinality(Active(s) \cup {i}) = Cardinality(Active(s)) + 1
    BY <2>1, FS_AddElement
  <2> QED BY <1>3, <1>5, <2>2 DEF Sound, Counted
<1>8. AtHome(t)
  BY <1>2, <1>4, <1>5, <1>6 DEF Sound, AtHome
<1>9. ASSUME OneAddressEach, t.held # {}
      PROVE  \E j \in SeatsAt(t, t.driver) : t.held = {t.seats[j].client}
  <2>1. PICK j \in SeatsAt(s, s.driver) : s.held = {s.seats[j].client}
    BY <1>3, <1>9 DEF Sound, HeldOK
  <2>2. j \in Active(s) /\ s.seats[j].addr = s.driver
    BY <2>1 DEF SeatsAt
  <2>3. j \in SeatsAt(t, t.driver) /\ t.seats[j] = s.seats[j]
    BY <1>3, <1>5, <1>6, <2>2 DEF SeatsAt
  <2> QED BY <1>3, <2>1, <2>3
<1> QED BY <1>3, <1>7, <1>8, <1>9 DEF Sound, HeldOK, t

-----------------------------------------------------------------------------
\* A sign of life moves nobody and hands nothing over.
LEMMA HeardSound ==
  ASSUME NEW s, WellFormed(s), Sound(s), NEW i \in Seats
  PROVE  Sound(Heard(s, i)) /\ Heard(s, i).count = s.count /\ Active(Heard(s, i)) = Active(s)
<1> DEFINE t == Heard(s, i)
<1>1. s \in Session /\ s.seats \in [Seats -> Seat]
  BY DEF WellFormed, Session
<1>2. /\ t.count = s.count /\ t.driver = s.driver /\ t.held = s.held
      /\ t.seats = [s.seats EXCEPT ![i].idle = 0]
  BY <1>1 DEF Heard, Session
<1> HIDE DEF t
<1>3. SameHold(s, t)
  BY <1>1, <1>2 DEF SameHold, Seat
<1>4. Active(t) = Active(s)
  BY <1>3 DEF SameHold, Active
<1> QED BY <1>2, <1>3, <1>4, SameHoldSound DEF t

\* START changes neither seats nor controls.
LEMMA StartedSound ==
  ASSUME NEW s, WellFormed(s), Sound(s), NEW i \in Seats
  PROVE  LET t == [s EXCEPT !.seats[i].started = TRUE, !.state = "Streaming"] IN
         Sound(t) /\ t.count = s.count
<1> DEFINE t == [s EXCEPT !.seats[i].started = TRUE, !.state = "Streaming"]
<1>1. s \in Session /\ s.seats \in [Seats -> Seat]
  BY DEF WellFormed, Session
<1>2. /\ t.count = s.count /\ t.driver = s.driver /\ t.held = s.held
      /\ t.seats = [s.seats EXCEPT ![i].started = TRUE]
  BY <1>1 DEF Session
<1> HIDE DEF t
<1>3. SameHold(s, t)
  BY <1>1, <1>2 DEF SameHold, Seat
<1> QED BY <1>2, <1>3, SameHoldSound DEF t

\* A viewer marked as driving, or no longer driving, is as it was otherwise.
LEMMA MarkedQuiet ==
  ASSUME NEW s, WellFormed(s), NEW i \in Seats, NEW n
  PROVE  SameHold(s, [s EXCEPT !.seats[i].quiet = n])
<1> DEFINE t == [s EXCEPT !.seats[i].quiet = n]
<1>1. s \in Session /\ s.seats \in [Seats -> Seat]
  BY DEF WellFormed, Session
<1>2. /\ t.count = s.count /\ t.driver = s.driver /\ t.held = s.held
      /\ t.seats = [s.seats EXCEPT ![i].quiet = n]
  BY <1>1 DEF Session
<1> HIDE DEF t
<1>3. SameHold(s, t)
  BY <1>1, <1>2 DEF SameHold, Seat
<1> QED BY <1>3 DEF t

\* The viewer that drives is the only one of which anything is held down: taking the
\* controls lets go of what the one before held.
LEMMA InputEventSound ==
  ASSUME NEW r, WellFormed(r), Sound(r), NEW i \in Active(r), NEW down \in BOOLEAN
  PROVE  LET c     == r.seats[i].client
             taker == HandOverControl([r EXCEPT !.seats[i].quiet = 0], r.seats[i].addr)
             w     == [taker EXCEPT !.held = IF down THEN @ \cup {c} ELSE @ \ {c}]
         IN  Sound(w) /\ w.count = r.count
<1> DEFINE u    == [r EXCEPT !.seats[i].quiet = 0]
           a    == r.seats[i].addr
           c    == r.seats[i].client
           t    == HandOverControl(u, a)
           held == IF down THEN t.held \cup {c} ELSE t.held \ {c}
           w    == [t EXCEPT !.held = held]
<1>1. i \in Seats /\ r \in Session /\ 0 \in 0..HoldTicks + 1
  BY ConstantsOK DEF Active, WellFormed
<1>2. SameHold(r, u)
  BY <1>1, MarkedQuiet
<1>3. u \in Session /\ u.published = r.published /\ u.nextOrder = r.nextOrder
      /\ \A j \in Seats : u.seats[j].order = r.seats[j].order
  <2>1. r.seats \in [Seats -> Seat]
    BY <1>1 DEF Session
  <2>2. [r.seats EXCEPT ![i].quiet = 0] \in [Seats -> Seat]
    BY <1>1, <2>1 DEF Seat
  <2>3. u = [r EXCEPT !.seats = [r.seats EXCEPT ![i].quiet = 0]]
    OBVIOUS
  <2>4. \A j \in Seats : [r.seats EXCEPT ![i].quiet = 0][j].order = r.seats[j].order
    BY <1>1, <2>1 DEF Seat
  <2> QED BY <1>1, <2>2, <2>3, <2>4 DEF Session
<1> HIDE DEF u
<1>4. WellFormed(u) /\ Sound(u) /\ Active(u) = Active(r)
  BY <1>2, <1>3, SameHoldSound, SameViewersWellFormed DEF SameHold, SameViewers, Active
<1>5. i \in Active(u) /\ u.seats[i].addr = a /\ u.seats[i].client = c /\ u.count = r.count
  BY <1>1, <1>2, <1>4 DEF SameHold
<1>6. /\ t.seats = u.seats /\ t.count = u.count /\ t.driver = a
      /\ t.held = IF u.driver = a THEN u.held ELSE {}
      /\ t = [t EXCEPT !.held = t.held]
  BY <1>3 DEF HandOverControl, Session
<1>7. w.seats = u.seats /\ w.count = r.count /\ w.driver = a /\ w.held = held
  <2>1. t \in [seats : {t.seats}, count : {t.count}, nextOrder : {t.nextOrder},
               state : {t.state}, open : {t.open}, driver : {t.driver}, held : {t.held},
               published : {t.published}]
    BY <1>3 DEF HandOverControl, Session
  <2> HIDE DEF t, held
  <2> QED BY <1>5, <1>6, <2>1
<1> HIDE DEF t, w
<1>8. ASSUME OneAddressEach PROVE t.held \subseteq {c}
  <2> SUFFICES ASSUME u.driver = a, u.held # {} PROVE u.held = {c}
    BY <1>6
  <2>1. PICK j \in SeatsAt(u, a) : u.held = {u.seats[j].client}
    BY <1>4, <1>8 DEF Sound, HeldOK
  <2>2. j = i
    BY <1>4, <1>5, <2>1 DEF SeatsAt, WellFormed, Distinct
  <2> QED BY <1>5, <2>1, <2>2
<1>9. Active(w) = Active(u)
  BY <1>7 DEF Active
<1>10. ASSUME OneAddressEach PROVE HeldOK(w)
  <2>1. w.held = {} \/ w.held = {c}
    BY <1>7, <1>8, <1>10 DEF held
  <2>2. i \in SeatsAt(w, w.driver) /\ w.seats[i].client = c
    BY <1>5, <1>7, <1>9 DEF SeatsAt
  <2> QED BY <2>1, <2>2 DEF HeldOK
<1>11. Counted(w) /\ AtHome(w)
  BY <1>4, <1>5, <1>7, <1>9 DEF Sound, Counted, AtHome
<1>12. Sound(w) /\ w.count = r.count
  BY <1>7, <1>10, <1>11 DEF Sound
<1> QED BY <1>12 DEF u, a, c, t, held, w

\* Losing the focus lets go of everything.
LEMMA BlurredSound ==
  ASSUME NEW r, WellFormed(r), Sound(r), NEW i \in Seats
  PROVE  LET t == HandOverControl([r EXCEPT !.seats[i].quiet = HoldTicks + 1], NoAddr)
             w == [t EXCEPT !.held = {}]
         IN  Sound(w) /\ w.count = r.count
<1> DEFINE u == [r EXCEPT !.seats[i].quiet = HoldTicks + 1]
           t == HandOverControl(u, NoAddr)
           w == [t EXCEPT !.held = {}]
<1>1. SameHold(r, u)
  BY MarkedQuiet
<1>2. Sound(u)
  BY <1>1, SameHoldSound
<1>3. w.seats = u.seats /\ w.count = u.count /\ w.held = {}
  <2>1. r \in Session
    BY DEF WellFormed
  <2> QED BY <2>1 DEF HandOverControl, Session
<1> HIDE DEF u, w
<1>4. Active(w) = Active(u)
  BY <1>3 DEF Active
<1>5. Counted(w) /\ AtHome(w) /\ HeldOK(w)
  BY <1>2, <1>3, <1>4 DEF Sound, Counted, AtHome, HeldOK
<1> QED BY <1>1, <1>3, <1>5 DEF Sound, SameHold, u, w

\* So does the end of a source.
LEMMA ReleaseSound ==
  ASSUME NEW s, WellFormed(s), Sound(s)
  PROVE  Sound(Release(s)) /\ Active(Release(s)) = Active(s) /\ Release(s).count = s.count
<1>1. /\ Release(s).seats = s.seats /\ Release(s).count = s.count /\ Release(s).held = {}
  BY DEF WellFormed, Session, Release
<1>2. Active(Release(s)) = Active(s)
  BY <1>1 DEF Active
<1> QED BY <1>1, <1>2 DEF Sound, Counted, AtHome, HeldOK

\* A new session is sound.
LEMMA NewSessionSound == Sound(NewSession) /\ Active(NewSession) = {} /\ NewSession.count = 0
<1>1. Active(NewSession) = {} /\ NewSession.count = 0 /\ NewSession.held = {}
  BY DEF Active, NewSession, FreeSeat
<1> QED BY <1>1, FS_EmptySet DEF Sound, Counted, AtHome, HeldOK

-----------------------------------------------------------------------------
(* The budget of the host.                                                 *)

SeatsTaken(f) == {xi \in Sources \X Seats : f[xi[1]].seats[xi[2]].active}

\* The seats of all sources can be counted, source by source.
LEMMA SeatsTakenCounts ==
  ASSUME NEW f, NEW x \in Sources
  PROVE  /\ IsFiniteSet(SeatsTaken(f)) /\ Cardinality(SeatsTaken(f)) \in Nat
         /\ LET O == {xi \in SeatsTaken(f) : xi[1] # x} IN
            /\ IsFiniteSet(O) /\ Cardinality(O) \in Nat
            /\ Cardinality(SeatsTaken(f)) = Cardinality(O) + Cardinality(Active(f[x]))
<1> DEFINE O == {xi \in SeatsTaken(f) : xi[1] # x}
           H == {x} \X Active(f[x])
<1>1. IsFiniteSet(SeatsTaken(f))
  <2>1. IsFiniteSet(Seats)
    BY FS_Interval, ConstantsOK DEF Seats
  <2>2. IsFiniteSet(Sources \X Seats)
    BY <2>1, ConstantsOK, FS_Product, Zenon
  <2>3. SeatsTaken(f) \in SUBSET (Sources \X Seats)
    BY DEF SeatsTaken
  <2> QED BY <2>2, <2>3, FS_Subset
<1>2. O \in SUBSET SeatsTaken(f)
  OBVIOUS
<1>3. IsFiniteSet(O) /\ Cardinality(O) \in Nat /\ Cardinality(SeatsTaken(f)) \in Nat
  BY <1>1, <1>2, FS_Subset, FS_CardinalityType
<1>4. IsFiniteSet(Active(f[x])) /\ Cardinality(Active(f[x])) \in Nat
  BY ActiveCounts
<1>5. IsFiniteSet(H) /\ Cardinality(H) = Cardinality(Active(f[x]))
  <2>1. IsFiniteSet({x}) /\ Cardinality({x}) = 1
    BY FS_Singleton, Zenon
  <2>2. IsFiniteSet(H) /\ Cardinality(H) = Cardinality({x}) * Cardinality(Active(f[x]))
    BY <1>4, <2>1, FS_Product, Zenon
  <2> QED BY <1>4, <2>1, <2>2
<1>6. SeatsTaken(f) = O \cup H /\ O \cap H = {}
  BY DEF SeatsTaken, Active
<1> HIDE DEF O, H
<1>7. Cardinality(O \cup H) = Cardinality(O) + Cardinality(H) - Cardinality(O \cap H)
  BY <1>3, <1>5, FS_Union, Zenon
<1>8. Cardinality({}) = 0
  BY FS_EmptySet
<1>9. Cardinality(SeatsTaken(f)) = Cardinality(O) + Cardinality(Active(f[x]))
  <2>1. Cardinality(SeatsTaken(f)) = Cardinality(O) + Cardinality(H) - 0
    BY <1>6, <1>7, <1>8
  <2>2. Cardinality(O) \in Nat /\ Cardinality(H) \in Nat
    BY <1>3, <1>4, <1>5
  <2>3. Cardinality(SeatsTaken(f)) = Cardinality(O) + Cardinality(H)
    BY <2>1, <2>2
  <2> QED BY <1>5, <2>3
<1> QED BY <1>1, <1>3, <1>9 DEF O

\* When one source's session changes, the seats change by what that one's change by.
LEMMA SeatsTakenChange ==
  ASSUME NEW f, NEW g, NEW x \in Sources,
         \A y \in Sources \ {x} : g[y] = f[y]
  PROVE  Cardinality(SeatsTaken(g)) - Cardinality(SeatsTaken(f))
           = Cardinality(Active(g[x])) - Cardinality(Active(f[x]))
<1> DEFINE P(h) == {xi \in SeatsTaken(h) : xi[1] # x}
<1>1. P(f) = P(g)
  BY DEF SeatsTaken
<1>2. \A h \in {f, g} :
        /\ Cardinality(P(h)) \in Nat /\ Cardinality(Active(h[x])) \in Nat
        /\ Cardinality(SeatsTaken(h)) = Cardinality(P(h)) + Cardinality(Active(h[x]))
  BY SeatsTakenCounts, ActiveCounts
<1> HIDE DEF P
<1> QED BY <1>1, <1>2

Budget == taken = Cardinality(SeatsTaken(ses)) /\ taken <= MaxViewers

\* What is known of the sessions and the budget.
Accounts == (\A x \in Sources : Sound(ses[x])) /\ Budget

\* A step that turns a session into a sound one keeps the accounts when it takes no
\* seat, or the budget has one.
LEMMA BecomesAccounts ==
  ASSUME Inv, Accounts, NEW x \in Sources, NEW s, WellFormed(s), Sound(s), Becomes(x, s),
         s.count <= ses[x].count \/ taken + s.count - ses[x].count <= MaxViewers
  PROVE  Accounts'
<1>1. ses \in [Sources -> Session] /\ s \in Session /\ taken \in Int /\ MaxViewers \in Int
  BY ConstantsOK DEF Inv, TypeOK, WellFormed
<1>2. ses' = [ses EXCEPT ![x] = s] /\ taken' = (taken + s.count) - ses[x].count
  BY DEF Becomes
<1>3. ses'[x] = s /\ \A y \in Sources \ {x} : ses'[y] = ses[y]
  BY <1>1, <1>2
<1>4. \A y \in Sources : Sound(ses'[y])
  BY <1>3 DEF Accounts
<1>5. /\ s.count = Cardinality(Active(s)) /\ ses[x].count = Cardinality(Active(ses[x]))
      /\ s.count \in Int /\ ses[x].count \in Int
  BY <1>1 DEF Accounts, Sound, Counted, Session
<1>6. Cardinality(SeatsTaken(ses')) - Cardinality(SeatsTaken(ses))
        = Cardinality(Active(ses'[x])) - Cardinality(Active(ses[x]))
  BY <1>3, SeatsTakenChange
<1>7. Cardinality(SeatsTaken(ses')) \in Nat /\ Cardinality(SeatsTaken(ses)) \in Nat
  BY SeatsTakenCounts
<1>8. taken = Cardinality(SeatsTaken(ses)) /\ taken <= MaxViewers
  BY DEF Accounts, Budget
<1>9. taken' = Cardinality(SeatsTaken(ses'))
  BY <1>2, <1>3, <1>5, <1>6, <1>7, <1>8
<1>10. taken' <= MaxViewers
  BY <1>1, <1>2, <1>5, <1>8
<1> QED BY <1>4, <1>9, <1>10 DEF Accounts, Budget

\* A step in which nobody comes or goes on any source keeps the accounts.
LEMMA NobodyMovesAccounts ==
  ASSUME Accounts, taken' = taken,
         \A x \in Sources : /\ Sound(ses[x]) => Sound(ses'[x])
                            /\ Active(ses'[x]) = Active(ses[x])
  PROVE  Accounts'
<1>1. \A x \in Sources : Sound(ses'[x])
  BY DEF Accounts
<1>2. SeatsTaken(ses') = SeatsTaken(ses)
  <2>1. \A x \in Sources, i \in Seats : ses'[x].seats[i].active <=> ses[x].seats[i].active
    <3> SUFFICES ASSUME NEW x \in Sources, NEW i \in Seats
                 PROVE  ses'[x].seats[i].active <=> ses[x].seats[i].active
      OBVIOUS
    <3>1. i \in Active(ses'[x]) <=> i \in Active(ses[x])
      OBVIOUS
    <3> QED BY <3>1 DEF Active
  <2> QED BY <2>1 DEF SeatsTaken
<1> QED BY <1>1, <1>2 DEF Accounts, Budget

\* A HELLO takes a seat only when the budget, with what it gave back by evicting, has
\* one left.
LEMMA HelloAccounts ==
  ASSUME Inv, Accounts, NEW x \in Sources, NEW c \in Clients, NEW a \in Addrs,
         NEW beginOk \in BOOLEAN, Hello(x, c, a, beginOk)
  PROVE  Accounts'
<1> DEFINE s      == AfterEviction(ses[x], c, a)
           opened == IF s.count = 0 THEN [s EXCEPT !.open = TRUE] ELSE s
           r(i)   == RefreshState(Admit(opened, i, c, a))
<1>1. /\ WellFormed(ses[x]) /\ Sound(ses[x])
      /\ WellFormed(s) /\ Sound(s) /\ s.count <= ses[x].count
      /\ \A i \in Active(s) : s.seats[i].addr = a => s.seats[i].client = c
  BY AfterEvictionLeavesOne, AfterEvictionSound DEF Inv, Accounts
<1>2. /\ a \in AddrsOf[c]
      /\ \/ \E i \in SeatsOf(s, c) : Becomes(x, Rebind(s, i, a))
         \/ Becomes(x, [s EXCEPT !.state = "Idle"])
         \/ /\ SeatsOf(s, c) = {} /\ s.nextOrder <= MaxJoins
            /\ taken - (ses[x].count - s.count) < MaxViewers
            /\ \E i \in Seats \ Active(s) : Becomes(x, r(i))
         \/ Becomes(x, opened)
  BY DEF Hello
<1>3. taken \in Int /\ ses[x].count \in Int /\ MaxViewers \in Int
      /\ s.count \in Int /\ s \in Session
  BY <1>1, ConstantsOK DEF Inv, TypeOK, WellFormed, Session
<1> HIDE DEF s
<1>4. /\ WellFormed(opened) /\ Sound(opened) /\ opened.count = s.count
      /\ opened.seats = s.seats /\ opened.nextOrder = s.nextOrder
  <2>1. /\ opened \in Session /\ opened.seats = s.seats /\ opened.published = s.published
        /\ opened.nextOrder = s.nextOrder /\ opened.count = s.count
        /\ opened.driver = s.driver /\ opened.held = s.held
    BY <1>3 DEF Session
  <2> HIDE DEF opened
  <2>2. SameViewers(s, opened) /\ SameHold(s, opened)
    BY <2>1 DEF SameViewers, SameHold
  <2> QED
    BY <1>1, <2>1, <2>2, SameViewersWellFormed, SameHoldSound
<1> HIDE DEF opened
<1>5. ASSUME NEW i \in SeatsOf(s, c), Becomes(x, Rebind(s, i, a))
      PROVE  Accounts'
  <2>1. WellFormed(Rebind(s, i, a)) /\ Sound(Rebind(s, i, a))
        /\ Rebind(s, i, a).count = s.count
    BY <1>1, <1>2, RebindWellFormed, RebindSound
  <2> QED BY <1>1, <1>5, <2>1, BecomesAccounts
<1>6. CASE Becomes(x, [s EXCEPT !.state = "Idle"])
  <2> DEFINE t == [s EXCEPT !.state = "Idle"]
  <2>1. /\ t \in Session /\ t.seats = s.seats /\ t.published = s.published
        /\ t.nextOrder = s.nextOrder /\ t.count = s.count
        /\ t.driver = s.driver /\ t.held = s.held
    BY <1>3 DEF Session
  <2> HIDE DEF t
  <2>2. WellFormed(t) /\ Sound(t)
    BY <1>1, <2>1, SameViewersWellFormed, SameHoldSound DEF SameViewers, SameHold
  <2> QED BY <1>1, <1>6, <2>1, <2>2, BecomesAccounts DEF t
<1>7. ASSUME SeatsOf(s, c) = {}, s.nextOrder <= MaxJoins,
             taken - (ses[x].count - s.count) < MaxViewers,
             NEW i \in Seats \ Active(s), Becomes(x, r(i))
      PROVE  Accounts'
  <2> DEFINE m == Admit(opened, i, c, a)
  <2>1. Active(opened) = Active(s) /\ SeatsOf(opened, c) = {}
    BY <1>4, <1>7 DEF Active, SeatsOf
  <2>2. \A j \in Active(opened) : opened.seats[j].addr # a
    BY <1>1, <1>4, <1>7, <2>1 DEF SeatsOf
  <2>3. WellFormed(m) /\ Sound(m) /\ m.count = s.count + 1
    BY <1>2, <1>4, <1>7, <2>1, <2>2, AdmitWellFormed, AdmitSound
  <2> HIDE DEF m
  <2>4. SameHold(m, RefreshState(m)) /\ WellFormed(RefreshState(m))
    <3>1. m \in Session
      BY <2>3 DEF WellFormed
    <3>2. SameHold(m, RefreshState(m))
      BY <3>1 DEF RefreshState, SameHold, Session
    <3> QED BY <2>3, <3>2, RefreshStateWellFormed
  <2>5. Sound(RefreshState(m)) /\ RefreshState(m).count = s.count + 1
    BY <2>3, <2>4, SameHoldSound DEF SameHold
  <2>6. taken + RefreshState(m).count - ses[x].count <= MaxViewers
    BY <1>3, <1>7, <2>5
  <2> QED BY <1>7, <2>4, <2>5, <2>6, BecomesAccounts DEF m
<1>8. CASE Becomes(x, opened)
  BY <1>1, <1>4, <1>8, BecomesAccounts
<1> QED
  BY <1>2, <1>5, <1>6, <1>7, <1>8

\* So does every packet of a seated viewer: none takes a seat.
LEMMA SeatPacketAccounts ==
  ASSUME Inv, Accounts, NEW x \in Sources, NEW i \in Seats,
         \/ Bye(x, i) \/ Start(x, i) \/ KeepAlive(x, i)
         \/ \E down \in BOOLEAN : InputEvent(x, i, down)
         \/ \E focused \in BOOLEAN : SetFocus(x, i, focused)
  PROVE  Accounts'
<1> DEFINE s == ses[x]
           h == Heard(s, i)
<1>1. WellFormed(s) /\ Sound(s) /\ s.count \in Int
  BY DEF Inv, Accounts, WellFormed, Session
<1>2. i \in Active(s)
  BY DEF Bye, Start, KeepAlive, InputEvent, SetFocus, FromSeat
<1>3. WellFormed(h) /\ Sound(h) /\ h.count = s.count /\ Active(h) = Active(s)
  BY <1>1, HeardWellFormed, HeardSound
<1>4. CASE Bye(x, i)
  <2>1. {i} \in SUBSET Active(s)
    BY <1>2
  <2>2. /\ WellFormed(DropViewers(s, {i})) /\ Sound(DropViewers(s, {i}))
        /\ DropViewers(s, {i}).count <= s.count
    BY <1>1, <2>1, DropViewersWellFormed, DropViewersSound
  <2> QED BY <1>4, <2>2, BecomesAccounts DEF Bye
<1>5. CASE Start(x, i)
  <2> DEFINE t == [h EXCEPT !.seats[i].started = TRUE, !.state = "Streaming"]
  <2>1. WellFormed(t) /\ Sound(t) /\ t.count = h.count
    BY <1>3, StartedWellFormed, StartedSound
  <2>2. Becomes(x, h) \/ Becomes(x, t)
    BY <1>5 DEF Start
  <2> HIDE DEF h, t
  <2> QED BY <1>1, <1>3, <2>1, <2>2, BecomesAccounts
<1>6. CASE KeepAlive(x, i)
  <2>1. Becomes(x, h)
    BY <1>6 DEF KeepAlive
  <2> HIDE DEF h
  <2> QED BY <1>1, <1>3, <2>1, BecomesAccounts
<1>7. ASSUME NEW down \in BOOLEAN, InputEvent(x, i, down)
      PROVE  Accounts'
  <2> DEFINE c     == h.seats[i].client
             taker == HandOverControl([h EXCEPT !.seats[i].quiet = 0], h.seats[i].addr)
             t     == [taker EXCEPT !.held = IF down THEN @ \cup {c} ELSE @ \ {c}]
  <2>1. WellFormed(t)
    BY <1>1, <1>2, InputEventWellFormed
  <2>2. Becomes(x, h) \/ Becomes(x, t)
    BY <1>7 DEF InputEvent
  <2>3. Sound(t) /\ t.count = h.count
    <3> HIDE DEF h
    <3> QED BY <1>2, <1>3, InputEventSound
  <2> HIDE DEF h, t
  <2> QED BY <1>1, <1>3, <2>1, <2>2, <2>3, BecomesAccounts
<1>8. ASSUME NEW focused \in BOOLEAN, SetFocus(x, i, focused)
      PROVE  Accounts'
  <2> DEFINE blurred == HandOverControl([h EXCEPT !.seats[i].quiet = HoldTicks + 1], NoAddr)
             t       == [blurred EXCEPT !.held = {}]
  <2>1. WellFormed(t) /\ Sound(t) /\ t.count = h.count
    <3> HIDE DEF h
    <3> QED BY <1>3, BlurredWellFormed, BlurredSound
  <2>2. Becomes(x, h) \/ Becomes(x, t)
    BY <1>8 DEF SetFocus
  <2> HIDE DEF h, t
  <2> QED BY <1>1, <1>3, <2>1, <2>2, BecomesAccounts
<1> QED BY <1>4, <1>5, <1>6, <1>7, <1>8

\* Timeouts, kicks and the end of a source or of its session give back what they take.
LEMMA EngineAccounts ==
  ASSUME Inv, Accounts, NEW x \in Sources, Engine(x)
  PROVE  Accounts'
<1> DEFINE s == ses[x]
<1>1. WellFormed(s) /\ Sound(s) /\ s.count \in Int
  BY DEF Inv, Accounts, WellFormed, Session
<1>2. ASSUME NEW S \in SUBSET Active(s), Becomes(x, DropViewers(s, S))
      PROVE  Accounts'
  <2>1. S \in SUBSET Seats
    BY DEF Active
  <2>2. /\ WellFormed(DropViewers(s, S)) /\ Sound(DropViewers(s, S))
        /\ DropViewers(s, S).count <= s.count
    BY <1>1, <2>1, DropViewersWellFormed, DropViewersSound
  <2> QED BY <1>2, <2>2, BecomesAccounts
<1>3. CASE Tick(x)
  <2>1. Expired(s) \in SUBSET Active(s)
    BY DEF Expired
  <2> QED BY <1>2, <1>3, <2>1 DEF Tick
<1>4. ASSUME NEW a \in Addrs, KickViewer(x, a)
      PROVE  Accounts'
  <2>1. PICK i \in SeatsAt(s, a) : Becomes(x, DropViewers(s, {i}))
    BY <1>4 DEF KickViewer
  <2>2. {i} \in SUBSET Active(s)
    BY DEF SeatsAt
  <2> QED BY <1>2, <2>1, <2>2
<1>5. CASE ShutdownSource(x)
  <2>1. ses' = [ses EXCEPT ![x] = Release(ses[x])] /\ taken' = taken
        /\ ses \in [Sources -> Session]
    BY <1>5 DEF ShutdownSource, Inv, TypeOK
  <2>2. Sound(Release(s)) /\ Active(Release(s)) = Active(s)
    BY <1>1, ReleaseSound
  <2>3. \A y \in Sources : ses'[y] = IF y = x THEN Release(s) ELSE ses[y]
    BY <2>1
  <2> QED BY <2>1, <2>2, <2>3, NobodyMovesAccounts
<1>6. CASE DestroySession(x)
  <2>1. Cardinality(Active(s)) \in Nat /\ s.count = Cardinality(Active(s))
    BY <1>1, ActiveCounts DEF Sound, Counted
  <2>2. NewSession.count <= s.count
    BY <2>1, NewSessionSound
  <2> QED BY <1>6, <2>2, NewSessionSound, NewSessionWellFormed, BecomesAccounts
          DEF DestroySession
<1> QED BY <1>3, <1>4, <1>5, <1>6 DEF Engine

\* Time moves nobody and counts nobody twice.
LEMMA PassTimeAccounts == ASSUME Inv, Accounts, PassTime PROVE Accounts'
<1>1. taken' = taken
  BY DEF PassTime
<1>2. ASSUME NEW x \in Sources PROVE SameHold(ses[x], ses'[x])
  <2> DEFINE s == ses[x]
  <2>1. s \in Session /\ s.seats \in [Seats -> Seat]
    BY DEF Inv, TypeOK, Session
  <2>2. ses'[x] = [s EXCEPT !.seats = [i \in Seats |-> Aged(s.seats[i])]]
    BY DEF PassTime
  <2> HIDE DEF s
  <2>3. /\ ses'[x].count = s.count /\ ses'[x].driver = s.driver /\ ses'[x].held = s.held
        /\ ses'[x].seats = [i \in Seats |-> Aged(s.seats[i])]
    BY <2>1, <2>2 DEF Session
  <2>4. ASSUME NEW v \in Seat
        PROVE  Aged(v).active = v.active /\ Aged(v).addr = v.addr /\ Aged(v).client = v.client
    BY DEF Aged, Seat
  <2>5. SameHold(s, ses'[x])
    BY <2>1, <2>3, <2>4 DEF SameHold
  <2> QED BY <2>5 DEF s
<1>3. ASSUME NEW x \in Sources
      PROVE  (Sound(ses[x]) => Sound(ses'[x])) /\ Active(ses'[x]) = Active(ses[x])
  BY <1>2, SameHoldSound DEF SameHold, Active
<1> QED BY <1>1, <1>3, NobodyMovesAccounts

\* The accounts are right at the start, when no seat is taken.
LEMMA InitAccounts == Init => Accounts
<1> SUFFICES ASSUME Init PROVE Accounts
  OBVIOUS
<1>1. \A x \in Sources : ses[x] = NewSession
  BY DEF Init
<1>2. SeatsTaken(ses) = {}
  BY <1>1 DEF SeatsTaken, NewSession, FreeSeat
<1>3. Cardinality({}) = 0
  BY FS_EmptySet
<1> QED BY <1>1, <1>2, <1>3, NewSessionSound, ConstantsOK DEF Init, Accounts, Budget

\* Every step keeps the accounts.
LEMMA NextAccounts == ASSUME Inv, Accounts, [Next]_vars PROVE Accounts'
<1>1. ASSUME NEW x \in Sources, Packet(x)
      PROVE  Accounts'
  <2>1. ASSUME NEW c \in Clients, NEW a \in Addrs, NEW beginOk \in BOOLEAN,
               Hello(x, c, a, beginOk)
        PROVE  Accounts'
    BY <2>1, HelloAccounts
  <2>2. ASSUME NEW i \in Seats,
               \/ Bye(x, i) \/ Start(x, i) \/ KeepAlive(x, i)
               \/ \E down \in BOOLEAN : InputEvent(x, i, down)
               \/ \E focused \in BOOLEAN : SetFocus(x, i, focused)
        PROVE  Accounts'
    BY <2>2, SeatPacketAccounts
  <2> QED BY <1>1, <2>1, <2>2 DEF Packet
<1>2. ASSUME NEW x \in Sources, Engine(x)
      PROVE  Accounts'
  BY <1>2, EngineAccounts
<1>3. CASE StopHost
  <2>1. taken' = taken
        /\ \A x \in Sources : ses'[x] = ses[x] \/ ses'[x] = Release(ses[x])
    BY <1>3 DEF StopHost
  <2>2. \A x \in Sources : /\ Sound(ses[x]) => Sound(ses'[x])
                           /\ Active(ses'[x]) = Active(ses[x])
    BY <2>1, ReleaseSound DEF Inv, Accounts
  <2> QED BY <2>1, <2>2, NobodyMovesAccounts
<1>4. CASE StartHost
  BY <1>4 DEF StartHost, Accounts, Budget
<1>5. CASE PassTime
  BY <1>5, PassTimeAccounts
<1>6. ASSUME NEW c \in Clients, Vanish(c)
      PROVE  Accounts'
  BY <1>6 DEF Vanish, Accounts, Budget
<1>7. CASE UNCHANGED vars
  BY <1>7 DEF vars, Accounts, Budget
<1> QED BY <1>1, <1>2, <1>3, <1>4, <1>5, <1>6, <1>7 DEF Next

\* However viewers join, leave, time out, are kicked and are evicted, on however many
\* sources, the host's budget is the number of seats taken and stays within its limit:
\* no way out of a session forgets to give a seat back or gives one back twice
\* (ViewerBudget, ViewerTable::Drop and Clear).
THEOREM SeatsStayAccounted == Spec => []SeatsAccounted
<1>1. Accounts => SeatsAccounted
  BY DEF Accounts, Budget, SeatsAccounted, SeatsTaken, TakenSeats, Sound, Counted
<1> QED BY <1>1, InvHolds, InitAccounts, NextAccounts, PTL DEF Spec

\* While each client keeps to its address, whoever has something held down on the host
\* is a seated viewer that the session takes for the controller (HandOverControl).
THEOREM HeldOnlyByTheDriver ==
  ASSUME OneAddressEach
  PROVE  Spec => []HeldByTheDriver
<1>1. Accounts => HeldByTheDriver
  BY OneAddressEach DEF Accounts, Sound, HeldOK, HeldByTheDriver
<1> QED BY <1>1, InvHolds, InitAccounts, NextAccounts, PTL DEF Spec

-----------------------------------------------------------------------------
(* What a step may do to a session: who is seated keeps its place, and who *)
(* takes the controls has nobody driving before it.                        *)

\* Each viewer is one the session had, in its old place and started if it was, or its
\* client had no seat.
KeepsPlaces(s, t) ==
  \A i \in Active(t) :
    \/ /\ i \in SeatsOf(s, t.seats[i].client)
       /\ t.seats[i].order = s.seats[i].order
       /\ s.seats[i].started => t.seats[i].started
    \/ SeatsOf(s, t.seats[i].client) = {}

\* Nobody takes the controls, and nothing is pressed.
LetsGo(s, t) == t.driver \in {s.driver, NoAddr} /\ t.held \subseteq s.held

\* A viewer takes the controls, and what is pressed is its.
Takes(s, t, i) ==
  /\ ~HigherPriorityIsDriving(s, i)
  /\ t.driver = s.seats[i].addr
  /\ t.held \subseteq s.held \cup {s.seats[i].client}

Orderly(s, t) == KeepsPlaces(s, t) /\ (LetsGo(s, t) \/ \E i \in Active(s) : Takes(s, t, i))

\* Who is seated stays so.
SeatsStay(s, t) ==
  \A i \in Seats : /\ t.seats[i].active = s.seats[i].active
                   /\ t.seats[i].client = s.seats[i].client
                   /\ t.seats[i].order = s.seats[i].order
                   /\ s.seats[i].started => t.seats[i].started

\* Then everyone keeps its place.
LEMMA SeatsStayInPlace ==
  ASSUME NEW s, NEW t, SeatsStay(s, t)
  PROVE  KeepsPlaces(s, t) /\ Active(t) = Active(s)
<1>1. Active(t) = Active(s)
  BY DEF SeatsStay, Active
<1>2. ASSUME NEW i \in Active(t)
      PROVE  /\ i \in SeatsOf(s, t.seats[i].client)
             /\ t.seats[i].order = s.seats[i].order
             /\ s.seats[i].started => t.seats[i].started
  <2>1. i \in Seats /\ i \in Active(s)
    BY <1>1 DEF Active
  <2> QED
    BY <2>1 DEF SeatsStay, SeatsOf
<1> QED
  BY <1>1, <1>2 DEF KeepsPlaces

\* Freeing seats hands nothing to anybody, and no more does ending the session.
LEMMA HandingToNobody ==
  ASSUME NEW s \in Session
  PROVE  LetsGo(s, HandOverControl(s, NoAddr)) /\ LetsGo(s, s)
BY DEF HandOverControl, LetsGo, Session

\* Only those dropped lose their seats: the session ends when nobody else is left.
LEMMA DropViewersOrderly ==
  ASSUME NEW s, WellFormed(s), Sound(s), NEW S \in SUBSET Active(s)
  PROVE  LET t == DropViewers(s, S) IN
         /\ LetsGo(s, t)
         /\ Active(t) = Active(s) \ S
         /\ \A i \in Active(t) : t.seats[i] = s.seats[i]
<1> DEFINE left  == FreeSeats(s, S)
           ended == [left EXCEPT !.state = "Idle", !.open = FALSE]
           empty == FreeSeats(ended, Active(left))
           fresh == RefreshState(left)
           t     == DropViewers(s, S)
           driverLeft == \E i \in S : s.seats[i].addr = s.driver
<1>1. S \in SUBSET Seats
  BY DEF Active
<1>2. /\ WellFormed(left) /\ Counted(left) /\ AtHome(left)
      /\ Active(left) = Active(s) \ S
      /\ \A i \in Active(left) : left.seats[i] = s.seats[i]
      /\ left.driver = s.driver /\ left.held = s.held
  BY <1>1, FreeSeatsCounts, FreeSeatsWellFormed DEF Sound
<1>3. t = IF left.count = 0 THEN HandOverControl(empty, NoAddr)
          ELSE IF driverLeft THEN HandOverControl(fresh, NoAddr) ELSE fresh
  BY DEF DropViewers, Disconnect
<1>4. Thinned(s, S, t)
  BY <1>1, DropViewersWellFormed
<1> HIDE DEF t, driverLeft, left
<1>5. left \in Session
  BY <1>2 DEF WellFormed
<1>6. CASE left.count = 0
  <2>1. Active(left) = {}
    BY <1>2, <1>6, ActiveCounts, FS_EmptySet DEF Counted
  <2>2. Active(t) = {}
    BY <1>2, <1>4, <2>1 DEF Thinned, Active, FreeSeat
  <2>3. /\ ended \in Session /\ ended.seats = left.seats /\ ended.published = left.published
        /\ ended.nextOrder = left.nextOrder /\ ended.count = left.count
        /\ ended.driver = left.driver /\ ended.held = left.held
    BY <1>5 DEF Session
  <2> HIDE DEF ended
  <2>4. WellFormed(ended)
    BY <1>2, <2>3, SameViewersWellFormed DEF SameViewers
  <2>5. Active(ended) = Active(left)
    BY <2>3 DEF Active
  <2>6. Counted(ended) /\ AtHome(ended)
    BY <1>2, <2>3, <2>5 DEF Counted, AtHome
  <2>7. WellFormed(empty) /\ empty.driver = ended.driver /\ empty.held = ended.held
    <3>1. Active(left) \in SUBSET Seats /\ Active(left) \in SUBSET Active(ended)
      BY <2>5 DEF Active
    <3> QED
      BY <2>4, <2>6, <3>1, FreeSeatsCounts, FreeSeatsWellFormed
  <2> HIDE DEF empty
  <2>8. LetsGo(empty, t)
    BY <1>3, <1>6, <2>7, HandingToNobody DEF WellFormed
  <2>9. LetsGo(s, t)
    BY <1>2, <2>3, <2>7, <2>8 DEF LetsGo
  <2> QED
    BY <1>2, <2>1, <2>2, <2>9 DEF t
<1>7. CASE left.count # 0
  <2>1. /\ fresh \in Session /\ fresh.seats = left.seats
        /\ fresh.driver = left.driver /\ fresh.held = left.held
    BY <1>2, <1>5, RefreshStateWellFormed DEF RefreshState, WellFormed, Session
  <2> HIDE DEF fresh
  <2>2. LetsGo(fresh, t) /\ t.seats = fresh.seats
    BY <1>3, <1>7, <2>1, HandingToNobody DEF HandOverControl, Session
  <2>3. LetsGo(s, t)
    BY <1>2, <2>1, <2>2 DEF LetsGo
  <2>4. Active(t) = Active(left) /\ \A i \in Active(t) : t.seats[i] = left.seats[i]
    BY <2>1, <2>2 DEF Active
  <2> QED
    BY <1>2, <2>3, <2>4 DEF t
<1> QED
  BY <1>6, <1>7

\* The eviction a HELLO begins with takes no seat of its client.
LEMMA AfterEvictionOrderly ==
  ASSUME NEW s, WellFormed(s), Sound(s), NEW c, NEW a
  PROVE  LET m == AfterEviction(s, c, a) IN
         /\ LetsGo(s, m)
         /\ \A i \in Active(m) : i \in Active(s) /\ m.seats[i] = s.seats[i]
         /\ SeatsOf(m, c) = SeatsOf(s, c)
<1> DEFINE stale == {i \in SeatsAt(s, a) : s.seats[i].client # c}
           m == AfterEviction(s, c, a)
<1>1. stale \in SUBSET Active(s)
  BY DEF SeatsAt
<1>2. m = IF stale = {} THEN s ELSE DropViewers(s, stale)
  BY DEF AfterEviction
<1>3. \A i \in stale : s.seats[i].client # c
  OBVIOUS
<1> HIDE DEF m, stale
<1>4. /\ LetsGo(s, m)
      /\ Active(m) = Active(s) \ stale
      /\ \A i \in Active(m) : m.seats[i] = s.seats[i]
  <2>1. CASE stale = {}
    BY <1>2, <2>1, HandingToNobody DEF WellFormed
  <2>2. CASE stale # {}
    BY <1>1, <1>2, <2>2, DropViewersOrderly
  <2> QED
    BY <2>1, <2>2
<1>5. SeatsOf(m, c) = SeatsOf(s, c)
  BY <1>3, <1>4 DEF SeatsOf
<1> QED
  BY <1>4, <1>5 DEF m

\* A HELLO moves its client, or seats it when it has no seat, and gives nobody the controls.
LEMMA HelloOrderly ==
  ASSUME Inv, Accounts, NEW x \in Sources, NEW c \in Clients, NEW a \in Addrs,
         NEW beginOk \in BOOLEAN, Hello(x, c, a, beginOk)
  PROVE  \E t : Becomes(x, t) /\ Orderly(ses[x], t)
<1> DEFINE s      == ses[x]
           m      == AfterEviction(s, c, a)
           opened == IF m.count = 0 THEN [m EXCEPT !.open = TRUE] ELSE m
           idle   == [m EXCEPT !.state = "Idle"]
           r(i)   == RefreshState(Admit(opened, i, c, a))
<1>1. /\ WellFormed(m)
      /\ LetsGo(s, m)
      /\ \A i \in Active(m) : i \in Active(s) /\ m.seats[i] = s.seats[i]
      /\ SeatsOf(m, c) = SeatsOf(s, c)
  BY AfterEvictionLeavesOne, AfterEvictionOrderly DEF Inv, Accounts
<1>2. \/ \E i \in SeatsOf(m, c) : Becomes(x, Rebind(m, i, a))
      \/ Becomes(x, idle)
      \/ SeatsOf(m, c) = {} /\ \E i \in Seats \ Active(m) : Becomes(x, r(i))
      \/ Becomes(x, opened)
  BY DEF Hello
<1>3. m \in Session /\ m.seats \in [Seats -> Seat]
  BY <1>1 DEF WellFormed, Session
<1> HIDE DEF s, m
\* Who was left in its place stays there.
<1>4. ASSUME NEW t, SeatsStay(m, t), t.driver = m.driver, t.held = m.held
      PROVE  Orderly(s, t)
  <2>1. Active(t) = Active(m)
    BY <1>4, SeatsStayInPlace
  <2>2. KeepsPlaces(s, t)
    BY <1>1, <1>4, <2>1 DEF KeepsPlaces, SeatsStay, SeatsOf, Active
  <2>3. LetsGo(s, t)
    BY <1>1, <1>4 DEF LetsGo
  <2> QED
    BY <2>2, <2>3 DEF Orderly
<1>5. /\ opened \in Session /\ opened.seats = m.seats
      /\ opened.driver = m.driver /\ opened.held = m.held
      /\ opened.nextOrder = m.nextOrder
      /\ idle.seats = m.seats /\ idle.driver = m.driver /\ idle.held = m.held
  BY <1>3 DEF Session
<1> HIDE DEF opened, idle
<1>6. Orderly(s, opened) /\ Orderly(s, idle)
  BY <1>4, <1>5 DEF SeatsStay
<1>7. ASSUME NEW i \in SeatsOf(m, c)
      PROVE  Orderly(s, Rebind(m, i, a))
  <2> DEFINE t == Rebind(m, i, a)
  <2>1. i \in Seats
    BY DEF SeatsOf, Active
  <2>2. /\ t.seats = [m.seats EXCEPT ![i].addr = a, ![i].idle = 0]
        /\ t.driver = m.driver /\ t.held = m.held
    BY <1>3 DEF Rebind, Publish, Session
  <2> HIDE DEF t
  <2>3. SeatsStay(m, t)
    BY <1>3, <2>1, <2>2 DEF SeatsStay, Seat
  <2> QED
    BY <1>4, <2>2, <2>3 DEF t
<1>8. ASSUME SeatsOf(m, c) = {}, NEW i \in Seats \ Active(m)
      PROVE  Orderly(s, r(i))
  <2> DEFINE v == [FreeSeat EXCEPT !.active = TRUE, !.client = c, !.addr = a,
                                   !.order = opened.nextOrder]
             n == Admit(opened, i, c, a)
             t == r(i)
  <2>1. v.active /\ v.client = c
    BY DEF FreeSeat
  <2>2. /\ n.driver = opened.driver /\ n.held = opened.held
        /\ n.seats = [opened.seats EXCEPT ![i] = v]
        /\ t.driver = n.driver /\ t.held = n.held /\ t.seats = n.seats
    BY <1>5 DEF Admit, Publish, RefreshState, Session
  <2> HIDE DEF v, n, t
  <2>3. /\ t.seats[i] = v
        /\ \A j \in Seats \ {i} : t.seats[j] = m.seats[j]
    BY <1>3, <1>5, <2>2
  <2>4. ASSUME NEW j \in Active(t)
        PROVE  \/ /\ j \in SeatsOf(s, t.seats[j].client)
                  /\ t.seats[j].order = s.seats[j].order
                  /\ s.seats[j].started => t.seats[j].started
               \/ SeatsOf(s, t.seats[j].client) = {}
    <3>1. CASE j = i
      BY <1>1, <1>8, <2>1, <2>3, <3>1
    <3>2. CASE j # i
      <4>1. j \in Active(m) /\ t.seats[j] = m.seats[j]
        BY <2>3, <3>2 DEF Active
      <4> QED
        BY <1>1, <4>1 DEF SeatsOf
    <3> QED
      BY <3>1, <3>2
  <2>5. LetsGo(s, t)
    BY <1>1, <1>5, <2>2 DEF LetsGo
  <2> QED
    BY <2>4, <2>5 DEF Orderly, KeepsPlaces, t
<1> QED
  BY <1>2, <1>6, <1>7, <1>8 DEF s

\* A viewer heard from keeps its place and takes nothing.
LEMMA HeardOrderly ==
  ASSUME NEW s, WellFormed(s), NEW i \in Seats
  PROVE  LET h == Heard(s, i) IN
         /\ SeatsStay(s, h) /\ h.driver = s.driver /\ h.held = s.held
         /\ \A j \in Seats : h.seats[j].quiet = s.seats[j].quiet
         /\ h.seats[i].addr = s.seats[i].addr
<1> DEFINE h == Heard(s, i)
<1>1. s \in Session /\ s.seats \in [Seats -> Seat]
  BY DEF WellFormed, Session
<1>2. /\ h.driver = s.driver /\ h.held = s.held
      /\ h.seats = [s.seats EXCEPT ![i].idle = 0]
  BY <1>1 DEF Heard, Session
<1> HIDE DEF h
<1>3. \A j \in Seats : /\ h.seats[j].active = s.seats[j].active
                       /\ h.seats[j].client = s.seats[j].client
                       /\ h.seats[j].order = s.seats[j].order
                       /\ h.seats[j].started = s.seats[j].started
                       /\ h.seats[j].quiet = s.seats[j].quiet
                       /\ h.seats[j].addr = s.seats[j].addr
  BY <1>1, <1>2 DEF Seat
<1> QED
  BY <1>2, <1>3 DEF SeatsStay, h

\* An input packet of a viewer with nobody driving before it gives it the controls, and
\* another is not heeded.
LEMMA InputEventOrderly ==
  ASSUME NEW s, WellFormed(s), NEW i \in Active(s), NEW down \in BOOLEAN
  PROVE  LET h     == Heard(s, i)
             c     == h.seats[i].client
             taker == HandOverControl([h EXCEPT !.seats[i].quiet = 0], h.seats[i].addr)
             w     == [taker EXCEPT !.held = IF down THEN @ \cup {c} ELSE @ \ {c}]
         IN  ~HigherPriorityIsDriving(h, i) => Orderly(s, w)
<1> DEFINE h == Heard(s, i)
           a == h.seats[i].addr
           c == h.seats[i].client
           u == [h EXCEPT !.seats[i].quiet = 0]
           t == HandOverControl(u, a)
           w == [t EXCEPT !.held = IF down THEN @ \cup {c} ELSE @ \ {c}]
<1>1. i \in Seats
  BY DEF Active
<1>2. /\ SeatsStay(s, h) /\ h.driver = s.driver /\ h.held = s.held
      /\ \A j \in Seats : h.seats[j].quiet = s.seats[j].quiet
      /\ a = s.seats[i].addr /\ c = s.seats[i].client
      /\ h \in Session /\ h.seats \in [Seats -> Seat]
  BY <1>1, HeardOrderly, HeardWellFormed DEF WellFormed, Session
<1> HIDE DEF h, a, c
<1>3. /\ w.seats = [h.seats EXCEPT ![i].quiet = 0]
      /\ w.driver = a
      /\ w.held \subseteq h.held \cup {c}
  <2>1. /\ u.seats = [h.seats EXCEPT ![i].quiet = 0] /\ u.driver = h.driver /\ u.held = h.held
        /\ u = [u EXCEPT !.driver = u.driver]
        /\ t.seats = u.seats /\ t.driver = a /\ t.held \subseteq u.held
        /\ t = [h EXCEPT !.seats = t.seats, !.driver = t.driver, !.held = t.held]
    BY <1>2 DEF HandOverControl, Session
  <2> HIDE DEF u, t
  <2> QED
    BY <1>2, <2>1 DEF Session
<1> HIDE DEF u, t, w
<1>4. \A j \in Seats : /\ w.seats[j].active = h.seats[j].active
                       /\ w.seats[j].client = h.seats[j].client
                       /\ w.seats[j].order = h.seats[j].order
                       /\ w.seats[j].started = h.seats[j].started
  BY <1>1, <1>2, <1>3 DEF Seat
<1>5. KeepsPlaces(s, w)
  <2>1. SeatsStay(s, w)
    BY <1>2, <1>4 DEF SeatsStay
  <2> QED
    BY <2>1, SeatsStayInPlace
<1>6. ASSUME ~HigherPriorityIsDriving(h, i) PROVE Takes(s, w, i)
  <2>1. ~HigherPriorityIsDriving(s, i)
    BY <1>1, <1>2, <1>6 DEF HigherPriorityIsDriving, Driving, SeatsStay
  <2> QED
    BY <1>2, <1>3, <2>1 DEF Takes
<1>7. ~HigherPriorityIsDriving(h, i) => Orderly(s, w)
  BY <1>5, <1>6 DEF Orderly
<1> QED
  BY <1>7 DEF h, a, c, u, t, w

\* A viewer that loses the focus lets go.
LEMMA BlurredOrderly ==
  ASSUME NEW s, WellFormed(s), NEW i \in Seats
  PROVE  LET h == Heard(s, i)
             t == HandOverControl([h EXCEPT !.seats[i].quiet = HoldTicks + 1], NoAddr)
         IN  Orderly(s, [t EXCEPT !.held = {}])
<1> DEFINE h == Heard(s, i)
           u == [h EXCEPT !.seats[i].quiet = HoldTicks + 1]
           t == HandOverControl(u, NoAddr)
           w == [t EXCEPT !.held = {}]
<1>1. SeatsStay(s, h) /\ h \in Session /\ h.seats \in [Seats -> Seat]
  BY HeardOrderly, HeardWellFormed DEF WellFormed, Session
<1> HIDE DEF h
<1>2. /\ w.seats = [h.seats EXCEPT ![i].quiet = HoldTicks + 1]
      /\ w.driver = NoAddr /\ w.held = {}
  BY <1>1 DEF HandOverControl, Session
<1> HIDE DEF u, t, w
<1>3. \A j \in Seats : /\ w.seats[j].active = h.seats[j].active
                       /\ w.seats[j].client = h.seats[j].client
                       /\ w.seats[j].order = h.seats[j].order
                       /\ w.seats[j].started = h.seats[j].started
  BY <1>1, <1>2 DEF Seat
<1>4. SeatsStay(s, w)
  BY <1>1, <1>3 DEF SeatsStay
<1>5. LetsGo(s, w)
  BY <1>2 DEF LetsGo
<1> QED
  BY <1>4, <1>5, SeatsStayInPlace DEF Orderly, h, u, t, w

\* So is every packet of a seated viewer.
LEMMA SeatPacketOrderly ==
  ASSUME Inv, Accounts, NEW x \in Sources, NEW i \in Seats,
         \/ Bye(x, i) \/ Start(x, i) \/ KeepAlive(x, i)
         \/ \E down \in BOOLEAN : InputEvent(x, i, down)
         \/ \E focused \in BOOLEAN : SetFocus(x, i, focused)
  PROVE  \E t : Becomes(x, t) /\ Orderly(ses[x], t)
<1> DEFINE s == ses[x]
           h == Heard(s, i)
<1>1. WellFormed(s) /\ Sound(s)
  BY DEF Inv, Accounts
<1>2. i \in Active(s)
  BY DEF Bye, Start, KeepAlive, InputEvent, SetFocus, FromSeat
<1>3. /\ SeatsStay(s, h) /\ h.driver = s.driver /\ h.held = s.held
      /\ h \in Session /\ h.seats \in [Seats -> Seat]
  BY <1>1, HeardOrderly, HeardWellFormed DEF WellFormed, Session
<1>4. Orderly(s, h)
  BY <1>3, SeatsStayInPlace DEF Orderly, LetsGo
<1>5. CASE Bye(x, i)
  <2> DEFINE t == DropViewers(s, {i})
  <2>1. /\ LetsGo(s, t) /\ Active(t) = Active(s) \ {i}
        /\ \A j \in Active(t) : t.seats[j] = s.seats[j]
    BY <1>1, <1>2, DropViewersOrderly
  <2>2. Becomes(x, t)
    BY <1>5 DEF Bye
  <2> HIDE DEF t
  <2>3. Orderly(s, t)
    BY <2>1 DEF Orderly, KeepsPlaces, SeatsOf
  <2> QED
    BY <2>2, <2>3
<1>6. CASE Start(x, i)
  <2> DEFINE t == [h EXCEPT !.seats[i].started = TRUE, !.state = "Streaming"]
  <2>1. Becomes(x, h) \/ Becomes(x, t)
    BY <1>6 DEF Start
  <2> HIDE DEF h
  <2>2. /\ t.seats = [h.seats EXCEPT ![i].started = TRUE]
        /\ t.driver = h.driver /\ t.held = h.held
    BY <1>3 DEF Session
  <2> HIDE DEF t
  <2>3. \A j \in Seats : /\ t.seats[j].active = h.seats[j].active
                         /\ t.seats[j].client = h.seats[j].client
                         /\ t.seats[j].order = h.seats[j].order
                         /\ h.seats[j].started => t.seats[j].started
    BY <1>3, <2>2 DEF Seat
  <2>4. SeatsStay(s, t)
    BY <1>3, <2>3 DEF SeatsStay
  <2>5. Orderly(s, t)
    BY <1>3, <2>2, <2>4, SeatsStayInPlace DEF Orderly, LetsGo
  <2> QED
    BY <1>4, <2>1, <2>5
<1>7. CASE KeepAlive(x, i)
  BY <1>4, <1>7 DEF KeepAlive
<1>8. ASSUME NEW down \in BOOLEAN, InputEvent(x, i, down)
      PROVE  \E t : Becomes(x, t) /\ Orderly(s, t)
  <2> DEFINE c     == h.seats[i].client
             taker == HandOverControl([h EXCEPT !.seats[i].quiet = 0], h.seats[i].addr)
             t     == [taker EXCEPT !.held = IF down THEN @ \cup {c} ELSE @ \ {c}]
  <2>1. ~HigherPriorityIsDriving(h, i) => Orderly(s, t)
    BY <1>1, <1>2, InputEventOrderly
  <2>2. Becomes(x, IF HigherPriorityIsDriving(h, i) THEN h ELSE t)
    BY <1>8 DEF InputEvent
  <2> HIDE DEF h, t
  <2> QED
    BY <1>4, <2>1, <2>2
<1>9. ASSUME NEW focused \in BOOLEAN, SetFocus(x, i, focused)
      PROVE  \E t : Becomes(x, t) /\ Orderly(s, t)
  <2> DEFINE blurred == HandOverControl([h EXCEPT !.seats[i].quiet = HoldTicks + 1], NoAddr)
             t       == [blurred EXCEPT !.held = {}]
  <2>1. Orderly(s, t)
    BY <1>1, BlurredOrderly
  <2>2. Becomes(x, h) \/ Becomes(x, t)
    BY <1>9 DEF SetFocus
  <2> HIDE DEF h, t
  <2> QED
    BY <1>4, <2>1, <2>2
<1> QED
  BY <1>5, <1>6, <1>7, <1>8, <1>9

\* A step that makes a source's session an orderly change of it touches no other.
LEMMA BecomesOrderly ==
  ASSUME Inv, NEW x \in Sources, \E t : Becomes(x, t) /\ Orderly(ses[x], t)
  PROVE  \A y \in Sources : Orderly(ses[y], ses'[y])
<1>1. PICK t : Becomes(x, t) /\ Orderly(ses[x], t)
  OBVIOUS
<1>2. ses \in [Sources -> Session]
  BY DEF Inv, TypeOK
<1>3. \A y \in Sources : ses'[y] = IF y = x THEN t ELSE ses[y]
  BY <1>1, <1>2 DEF Becomes
<1>4. \A y \in Sources : Orderly(ses[y], ses[y])
  BY SeatsStayInPlace DEF SeatsStay, Orderly, LetsGo
<1> QED
  BY <1>1, <1>3, <1>4

\* Keys that are let go of are given to nobody.
LEMMA ReleaseOrderly ==
  ASSUME NEW s \in Session
  PROVE  Orderly(s, s) /\ Orderly(s, Release(s))
<1>1. Release(s).seats = s.seats /\ Release(s).driver = s.driver /\ Release(s).held = {}
  BY DEF Release, Session
<1> QED
  BY <1>1, SeatsStayInPlace DEF SeatsStay, Orderly, LetsGo

\* Timeouts, kicks and the end of a source or of its session only take.
LEMMA EngineOrderly ==
  ASSUME Inv, Accounts, NEW x \in Sources, Engine(x)
  PROVE  \A y \in Sources : Orderly(ses[y], ses'[y])
<1> DEFINE s == ses[x]
<1>1. WellFormed(s) /\ Sound(s) /\ ses \in [Sources -> Session]
  BY DEF Inv, Accounts, TypeOK
<1>2. ASSUME NEW S \in SUBSET Active(s), Becomes(x, DropViewers(s, S))
      PROVE  \A y \in Sources : Orderly(ses[y], ses'[y])
  <2> DEFINE t == DropViewers(s, S)
  <2>1. /\ LetsGo(s, t) /\ Active(t) = Active(s) \ S
        /\ \A j \in Active(t) : t.seats[j] = s.seats[j]
    BY <1>1, DropViewersOrderly
  <2>2. Becomes(x, t)
    BY <1>2
  <2> HIDE DEF t
  <2>3. Orderly(s, t)
    BY <2>1 DEF Orderly, KeepsPlaces, SeatsOf
  <2> QED
    BY <2>2, <2>3, BecomesOrderly
<1>3. CASE Tick(x)
  <2>1. Expired(s) \in SUBSET Active(s)
    BY DEF Expired
  <2> QED
    BY <1>2, <1>3, <2>1 DEF Tick
<1>4. ASSUME NEW a \in Addrs, KickViewer(x, a)
      PROVE  \A y \in Sources : Orderly(ses[y], ses'[y])
  <2>1. PICK i \in SeatsAt(s, a) : Becomes(x, DropViewers(s, {i}))
    BY <1>4 DEF KickViewer
  <2>2. {i} \in SUBSET Active(s)
    BY DEF SeatsAt
  <2> QED
    BY <1>2, <2>1, <2>2
<1>5. CASE ShutdownSource(x)
  <2>1. \A y \in Sources : ses'[y] = ses[y] \/ ses'[y] = Release(ses[y])
    BY <1>1, <1>5 DEF ShutdownSource
  <2> QED
    BY <1>1, <2>1, ReleaseOrderly
<1>6. CASE DestroySession(x)
  <2>1. Becomes(x, NewSession)
    BY <1>6 DEF DestroySession
  <2>2. Active(NewSession) = {} /\ NewSession.driver = NoAddr /\ NewSession.held = {}
    BY NewSessionSound DEF NewSession
  <2>3. Orderly(s, NewSession)
    BY <2>2 DEF Orderly, KeepsPlaces, LetsGo
  <2> QED
    BY <2>1, <2>3, BecomesOrderly
<1> QED
  BY <1>3, <1>4, <1>5, <1>6 DEF Engine

\* Whatever happens, every session changes in an orderly way.
LEMMA NextOrderly ==
  ASSUME Inv, Accounts, [Next]_vars
  PROVE  \A x \in Sources : Orderly(ses[x], ses'[x])
<1> DEFINE Done == \A x \in Sources : Orderly(ses[x], ses'[x])
<1>1. ses \in [Sources -> Session]
  BY DEF Inv, TypeOK
<1>2. ASSUME NEW x \in Sources, Packet(x)
      PROVE  Done
  <2>1. ASSUME NEW c \in Clients, NEW a \in Addrs, NEW beginOk \in BOOLEAN,
               Hello(x, c, a, beginOk)
        PROVE  \E t : Becomes(x, t) /\ Orderly(ses[x], t)
    BY <2>1, HelloOrderly
  <2>2. ASSUME NEW i \in Seats,
               \/ Bye(x, i) \/ Start(x, i) \/ KeepAlive(x, i)
               \/ \E down \in BOOLEAN : InputEvent(x, i, down)
               \/ \E focused \in BOOLEAN : SetFocus(x, i, focused)
        PROVE  \E t : Becomes(x, t) /\ Orderly(ses[x], t)
    BY <2>2, SeatPacketOrderly
  <2>3. \E t : Becomes(x, t) /\ Orderly(ses[x], t)
    BY <1>2, <2>1, <2>2 DEF Packet
  <2> QED
    BY <2>3, BecomesOrderly
<1>3. ASSUME NEW x \in Sources, Engine(x)
      PROVE  Done
  BY <1>3, EngineOrderly
<1>4. CASE StopHost
  <2>1. \A x \in Sources : ses'[x] = ses[x] \/ ses'[x] = Release(ses[x])
    BY <1>4 DEF StopHost
  <2> QED
    BY <1>1, <2>1, ReleaseOrderly
<1>5. CASE PassTime
  <2> SUFFICES ASSUME NEW x \in Sources PROVE Orderly(ses[x], ses'[x])
    OBVIOUS
  <2> DEFINE s == ses[x]
             t == ses'[x]
  <2>1. s \in Session /\ s.seats \in [Seats -> Seat]
    BY <1>1 DEF Session
  <2>2. t = [s EXCEPT !.seats = [i \in Seats |-> Aged(s.seats[i])]]
    BY <1>5 DEF PassTime
  <2> HIDE DEF s, t
  <2>3. t.driver = s.driver /\ t.held = s.held /\ t.seats = [i \in Seats |-> Aged(s.seats[i])]
    BY <2>1, <2>2 DEF Session
  <2>4. ASSUME NEW v \in Seat
        PROVE  /\ Aged(v).active = v.active /\ Aged(v).client = v.client
               /\ Aged(v).order = v.order /\ Aged(v).started = v.started
    BY DEF Aged, Seat
  <2>5. SeatsStay(s, t)
    BY <2>1, <2>3, <2>4 DEF SeatsStay
  <2> QED
    BY <2>3, <2>5, SeatsStayInPlace DEF Orderly, LetsGo, s, t
<1>6. CASE UNCHANGED ses
  BY <1>1, <1>6, ReleaseOrderly
<1> QED
  BY <1>2, <1>3, <1>4, <1>5, <1>6 DEF Next, StartHost, Vanish, vars

\* What has been shown of the sessions and of the accounts holds of every behaviour.
LEMMA AccountsHold == Spec => []Accounts
BY InvHolds, InitAccounts, NextAccounts, PTL DEF Spec

\* While an earlier viewer drives, no later one takes the controls or presses anything, on
\* whatever address each of them is: its input is dropped (HandleInput, HigherPriorityIsDriving).
THEOREM EarlierViewerComesFirst == Spec => EarlierViewerKeepsControl
<1>1. ASSUME Inv, Accounts, [Next]_vars, NEW x \in Sources,
             NEW i \in Active(ses[x]), NEW j \in Active(ses[x]),
             Driving(ses[x].seats[i]), ses[x].seats[i].order < ses[x].seats[j].order
      PROVE  /\ ses'[x].driver = ses[x].seats[j].addr => ses[x].driver = ses[x].seats[j].addr
             /\ ses[x].seats[j].client \in ses'[x].held => ses[x].seats[j].client \in ses[x].held
  <2> DEFINE s == ses[x]
             t == ses'[x]
  <2>1. WellFormed(s) /\ Orderly(s, t)
    BY <1>1, NextOrderly DEF Inv
  <2>2. s.seats[j].addr # NoAddr
    <3>1. s.seats[j].addr \in s.published /\ s.published \in SUBSET Addrs
      BY <2>1 DEF WellFormed, Current, Session
    <3> QED
      BY <3>1, ConstantsOK
  <2>3. CASE LetsGo(s, t)
    BY <2>2, <2>3 DEF LetsGo
  <2>4. ASSUME NEW k \in Active(s), Takes(s, t, k)
        PROVE  /\ t.driver # s.seats[j].addr
               /\ s.seats[j].client \in t.held => s.seats[j].client \in s.held
    <3>1. k # j
      BY <1>1, <2>4 DEF Takes, HigherPriorityIsDriving, Active
    <3>2. s.seats[k].addr # s.seats[j].addr /\ s.seats[k].client # s.seats[j].client
      BY <2>1, <3>1 DEF WellFormed, Distinct
    <3> QED
      BY <2>4, <3>2 DEF Takes
  <2> QED
    BY <2>1, <2>3, <2>4 DEF Orderly
<1>2. Inv /\ Accounts /\ [Next]_vars =>
        [\A x \in Sources : \A i, j \in Active(ses[x]) :
           LET s == ses[x]  t == ses'[x]
           IN  Driving(s.seats[i]) /\ s.seats[i].order < s.seats[j].order
               => /\ t.driver = s.seats[j].addr => s.driver = s.seats[j].addr
                  /\ s.seats[j].client \in t.held => s.seats[j].client \in s.held]_vars
  BY <1>1
<1> QED
  BY <1>2, InvHolds, AccountsHold, PTL DEF Spec, EarlierViewerKeepsControl

\* A viewer that comes back from another address, whoever it evicts there, has the place in
\* the order of priority it had, and its stream (HandleHello, ViewerTable::Rebind).
THEOREM ComingBackKeepsPriority == Spec => ReattachKeepsPriority
<1>1. ASSUME Inv, Accounts, [Next]_vars, NEW x \in Sources, NEW c \in Clients,
             NEW i \in SeatsOf(ses[x], c), NEW j \in SeatsOf(ses'[x], c)
      PROVE  /\ ses'[x].seats[j].order = ses[x].seats[i].order
             /\ ses[x].seats[i].started => ses'[x].seats[j].started
  <2> DEFINE s == ses[x]
             t == ses'[x]
  <2>1. WellFormed(s) /\ Orderly(s, t)
    BY <1>1, NextOrderly DEF Inv
  <2>2. j \in Active(t) /\ t.seats[j].client = c /\ i \in SeatsOf(s, c)
    BY DEF SeatsOf
  <2>3. /\ j \in SeatsOf(s, c) /\ t.seats[j].order = s.seats[j].order
        /\ s.seats[j].started => t.seats[j].started
    BY <2>1, <2>2 DEF Orderly, KeepsPlaces
  <2>4. i = j
    BY <2>1, <2>2, <2>3 DEF WellFormed, Distinct, SeatsOf
  <2> QED
    BY <2>3, <2>4
<1>2. Inv /\ Accounts /\ [Next]_vars =>
        [\A x \in Sources, c \in Clients :
           \A i \in SeatsOf(ses[x], c), j \in SeatsOf(ses[x], c)' :
             /\ ses'[x].seats[j].order = ses[x].seats[i].order
             /\ ses[x].seats[i].started => ses'[x].seats[j].started]_vars
  <2>1. \A x \in Sources, c \in Clients : SeatsOf(ses[x], c)' = SeatsOf(ses'[x], c)
    BY DEF SeatsOf, Active
  <2> QED
    BY <1>1, <2>1
<1> QED
  BY <1>2, InvHolds, AccountsHold, PTL DEF Spec, ReattachKeepsPriority
=============================================================================
