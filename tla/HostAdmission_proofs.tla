------------------------ MODULE HostAdmission_proofs ------------------------
(***************************************************************************)
(* Proofs about HostAdmission: for any number of connections and devices,  *)
(* and any lengths of the deadlines, a connection that is not let in runs  *)
(* against a deadline and one that is let in does not, and no more wait to *)
(* be let in than there are places.                                        *)
(***************************************************************************)
EXTENDS HostAdmission, FiniteSetTheorems, TLAPS

\* What every connection keeps, whoever sends on it and in whatever order: the
\* two properties, and what they rest on.
PeerOK(p) ==
  /\ conn[p].phase = "none" => conn[p] = NoConnection
  /\ left[p] # None => Alive(p)
  /\ conn[p].auth # "none" => conn[p].key \in Keys
  /\ conn[p].phase = "open" /\ ~Admitted(p) => left[p] # None
  /\ Admitted(p) => left[p] = None /\ conn[p].auth = "settled"

IInv == TypeOK /\ \A p \in Peers : PeerOK(p)

\* The types of a connection's record and of a limiter's entry.
Connection == [phase : {"none", "open", "closing"},
               auth : {"none", "awaiting", "settled"},
               key : Keys \cup {NoKey}, admission : {"none", "yes", "no"}]
Entry == [count : 0..FailureLimit, since : 0..WindowTicks + 1, blocked : 0..CooldownTicks]

-----------------------------------------------------------------------------
\* A refusal leaves a deadline, within the time to respond (RefuseAfterReply).
LEMMA HastenedType ==
  ASSUME NEW d \in -1..ResponseTicks
  PROVE  Hastened(d) \in 0..ResponseTicks
BY AdmissionOK DEF Hastened, None

\* The entry of the limiter after a failure is an entry (RecordFailure).
LEMMA ChargedType ==
  ASSUME NEW f \in Entry
  PROVE  Charged(f) \in Entry
<1> DEFINE n == (IF f.since > WindowTicks THEN 0 ELSE f.count) + 1
<1>1. f.count \in Nat /\ f.since \in Nat /\ f.blocked \in 0..CooldownTicks
  BY DEF Entry
<1>2. n \in Nat
  BY <1>1, AdmissionOK
<1>3. n < FailureLimit => n \in 0..FailureLimit
  BY <1>2, AdmissionOK
<1>4. ~(n >= FailureLimit) => n < FailureLimit
  BY <1>2, AdmissionOK
<1>5. 0 \in 0..FailureLimit /\ 0 \in 0..WindowTicks + 1 /\ 0 \in 0..CooldownTicks
      /\ CooldownTicks \in 0..CooldownTicks
  BY AdmissionOK
<1> HIDE DEF n
<1> QED
  BY <1>1, <1>3, <1>4, <1>5 DEF Charged, Entry, n

\* A deadline that has not passed comes nearer and stays a deadline.
LEMMA SoonerType ==
  ASSUME NEW d \in Int, NEW m \in Nat, d \in -1..m
  PROVE  /\ Sooner(d) \in -1..m
         /\ Sooner(d) = None <=> d = None
         /\ d >= 0 => Sooner(d) \in 0..m
BY DEF Sooner, None

-----------------------------------------------------------------------------
\* The state of a host that has heard from nobody is sound.
LEMMA InitInv == Init => IInv
<1> SUFFICES ASSUME Init PROVE IInv
  OBVIOUS
<1> USE DEF Init, NoConnection, NoFailures, None
<1>1. conn \in [Peers -> [phase : {"none", "open", "closing"},
                         auth : {"none", "awaiting", "settled"},
                         key : Keys \cup {NoKey}, admission : {"none", "yes", "no"}]]
  OBVIOUS
<1>2. left \in [Peers -> -1..ResponseTicks]
  BY AdmissionOK
<1>3. failures \in [Keys -> [count : 0..FailureLimit, since : 0..WindowTicks + 1,
                             blocked : 0..CooldownTicks]]
  <2>1. 0 \in 0..FailureLimit /\ WindowTicks + 1 \in 0..WindowTicks + 1
        /\ 0 \in 0..CooldownTicks
    BY AdmissionOK
  <2> QED BY <2>1
<1>4. TypeOK
  BY <1>1, <1>2, <1>3 DEF TypeOK
<1>5. \A p \in Peers : PeerOK(p)
  BY DEF PeerOK, Alive, Admitted
<1> QED BY <1>4, <1>5 DEF IInv

\* A step on connection p alone keeps the invariant when it leaves p sound and the
\* rest typed: the other connections do not notice.
LEMMA StepOfOne ==
  ASSUME IInv, NEW p \in Peers,
         NEW c \in Connection, NEW d \in -1..ResponseTicks,
         conn' = [conn EXCEPT ![p] = c],
         left' = [left EXCEPT ![p] = d],
         allowed' \in SUBSET Keys,
         failures' \in [Keys -> Entry],
         inbox' \in [Peers -> Seq(Keys)],
         c.phase = "none" => c = NoConnection,
         d # None => c.phase # "none",
         c.auth # "none" => c.key \in Keys,
         c.phase = "open" /\ c.admission # "yes" => d # None,
         c.admission = "yes" => d = None /\ c.auth = "settled"
  PROVE  IInv'
<1>1. conn \in [Peers -> Connection] /\ left \in [Peers -> -1..ResponseTicks]
  BY DEF IInv, TypeOK, Connection
<1>2. conn' \in [Peers -> Connection] /\ left' \in [Peers -> -1..ResponseTicks]
  BY <1>1
<1>3. TypeOK'
  BY <1>2 DEF TypeOK, Connection, Entry
<1>4. conn'[p] = c /\ left'[p] = d
  BY <1>1
<1>5. PeerOK(p)'
  BY <1>4 DEF PeerOK, Alive, Admitted
<1>6. ASSUME NEW q \in Peers, q # p PROVE PeerOK(q)'
  <2>1. conn'[q] = conn[q] /\ left'[q] = left[q]
    BY <1>1, <1>6
  <2>2. PeerOK(q)
    BY DEF IInv
  <2> QED BY <2>1, <2>2 DEF PeerOK, Alive, Admitted
<1> QED BY <1>3, <1>5, <1>6 DEF IInv

\* What is known of a connection, unfolded once for the steps below.
LEMMA PeerFacts ==
  ASSUME IInv, NEW p \in Peers
  PROVE  /\ conn[p] \in Connection
         /\ left[p] \in -1..ResponseTicks
         /\ None \in -1..ResponseTicks
         /\ allowed \in SUBSET Keys
         /\ failures \in [Keys -> Entry]
         /\ inbox \in [Peers -> Seq(Keys)]
         /\ PeerOK(p)
BY AdmissionOK DEF IInv, TypeOK, Connection, Entry, None

\* A deadline that is set to what it is does not change.
LEMMA SameDeadline ==
  ASSUME IInv, NEW p \in Peers
  PROVE  left = [left EXCEPT ![p] = left[p]]
<1>1. left \in [Peers -> -1..ResponseTicks]
  BY DEF IInv, TypeOK
<1> QED BY <1>1

-----------------------------------------------------------------------------
\* The host closes a connection and forgets what it knew of it.
LEMMA DropInv ==
  ASSUME IInv, NEW p \in Peers, Alive(p), Drop(p),
         UNCHANGED <<allowed, failures, inbox>>
  PROVE  IInv'
<1> DEFINE c == Closing(Forgotten(conn[p]))
<1>1. /\ c \in Connection
      /\ c.phase = "closing" /\ c.auth = "none" /\ c.admission = "none"
  BY PeerFacts DEF Closing, Forgotten, Connection
<1>2. conn' = [conn EXCEPT ![p] = c] /\ left' = [left EXCEPT ![p] = None]
  BY DEF Drop
<1> HIDE DEF c
<1> QED BY <1>1, <1>2, PeerFacts, StepOfOne

\* A new connection gets a deadline.
LEMMA ConnectInv ==
  ASSUME IInv, NEW p \in Peers, Connect(p)
  PROVE  IInv'
<1> DEFINE c == [NoConnection EXCEPT !.phase = "open"]
<1>1. conn[p] = NoConnection
  BY PeerFacts DEF Connect, PeerOK, Alive
<1>2. conn' = [conn EXCEPT ![p] = c] /\ left' = [left EXCEPT ![p] = ResponseTicks]
  BY <1>1, PeerFacts DEF Connect, AdmitConnection
<1>3. c \in Connection /\ c.phase = "open" /\ c.auth = "none" /\ c.admission = "none"
  BY DEF NoConnection, Connection
<1>4. ResponseTicks \in -1..ResponseTicks /\ ResponseTicks # None
  BY AdmissionOK DEF None
<1>5. UNCHANGED <<allowed, failures, inbox>>
  BY DEF Connect
<1> HIDE DEF c
<1> QED BY <1>2, <1>3, <1>4, <1>5, PeerFacts, StepOfOne

\* A connection that is gone leaves nothing behind.
LEMMA OnClosedInv ==
  ASSUME IInv, NEW p \in Peers, OnClosed(p)
  PROVE  IInv'
<1> DEFINE c == [Forgotten(conn[p]) EXCEPT !.phase = "none"]
<1>1. conn[p] \in Connection
  BY PeerFacts
<1>2. c = NoConnection
  <2>1. c \in Connection
    BY <1>1 DEF Forgotten, Connection
  <2>2. c.phase = "none" /\ c.auth = "none" /\ c.key = NoKey /\ c.admission = "none"
    BY <1>1 DEF Forgotten, Connection
  <2> HIDE DEF c
  <2>3. c = [phase |-> c.phase, auth |-> c.auth, key |-> c.key, admission |-> c.admission]
    BY <2>1 DEF Connection
  <2> QED BY <2>2, <2>3 DEF NoConnection
<1>3. conn' = [conn EXCEPT ![p] = c] /\ left' = [left EXCEPT ![p] = None]
  BY DEF OnClosed
<1>4. c \in Connection /\ c.phase = "none" /\ c.auth = "none" /\ c.admission = "none"
  BY <1>2 DEF NoConnection, Connection
<1>5. UNCHANGED <<allowed, failures, inbox>>
  BY DEF OnClosed
<1> HIDE DEF c
<1> QED BY <1>2, <1>3, <1>4, <1>5, PeerFacts, StepOfOne

\* AUTH_START: refused for the second time on a connection, refused outright, or begun.
LEMMA StartInv ==
  ASSUME IInv, NEW p \in Peers, NEW k \in Keys,
         NEW wellFormed \in BOOLEAN, NEW readable \in BOOLEAN,
         HandleAuthStart(p, k, wellFormed, readable)
  PROVE  IInv'
<1> DEFINE refuse == ~wellFormed \/ (readable /\ ~AllowedToTry(k))
<1>1. Alive(p) /\ UNCHANGED <<allowed, failures, inbox>>
  BY DEF HandleAuthStart
<1>2. CASE conn[p].auth # "none"
  BY <1>1, <1>2, DropInv DEF HandleAuthStart
<1>3. CASE conn[p].auth = "none" /\ refuse
  <2> DEFINE c == Closing(conn[p])
  <2>1. conn' = [conn EXCEPT ![p] = c] /\ left' = [left EXCEPT ![p] = left[p]]
    BY <1>3, SameDeadline DEF HandleAuthStart
  <2>2. /\ c \in Connection /\ c.phase = "closing"
        /\ c.auth = conn[p].auth /\ c.admission = conn[p].admission /\ c.key = conn[p].key
    BY PeerFacts DEF Closing, Connection
  <2> HIDE DEF c
  <2> QED BY <1>1, <2>1, <2>2, PeerFacts, StepOfOne DEF PeerOK, Admitted
<1>4. CASE conn[p].auth = "none" /\ ~refuse
  <2> DEFINE c == [conn[p] EXCEPT !.auth = IF readable THEN "awaiting" ELSE "settled",
                                  !.key = k]
             d == IF readable THEN left[p] ELSE Hastened(left[p])
  <2>1. conn' = [conn EXCEPT ![p] = c] /\ left' = [left EXCEPT ![p] = d]
    BY <1>4, PeerFacts DEF HandleAuthStart
  <2>2. /\ c \in Connection /\ c.phase = conn[p].phase
        /\ c.admission = conn[p].admission /\ c.key = k
    BY PeerFacts DEF Connection
  <2>3. d \in -1..ResponseTicks /\ (left[p] # None => d # None)
    BY PeerFacts, HastenedType DEF None
  <2>4. ~Admitted(p)
    BY <1>4, PeerFacts DEF PeerOK
  <2>5. conn[p].phase # "none"
    BY <1>1 DEF Alive
  <2> HIDE DEF c, d
  <2> QED BY <1>1, <2>1, <2>2, <2>3, <2>4, <2>5, PeerFacts, StepOfOne
          DEF PeerOK, Admitted
<1> QED BY <1>2, <1>3, <1>4

\* A refused connection lingers under a deadline of its own.
LEMMA RefusedInv ==
  ASSUME IInv, NEW p \in Peers, Alive(p), conn[p].auth # "none",
         NEW charge \in BOOLEAN, Refused(p, charge)
  PROVE  IInv'
<1> DEFINE c == [conn[p] EXCEPT !.auth = "settled", !.admission = "no"]
           d == Hastened(left[p])
<1>1. conn' = [conn EXCEPT ![p] = c] /\ left' = [left EXCEPT ![p] = d]
  BY DEF Refused
<1>2. /\ c \in Connection /\ c.phase = conn[p].phase
      /\ c.admission = "no" /\ c.key = conn[p].key
  BY PeerFacts DEF Connection
<1>3. d \in -1..ResponseTicks /\ d # None
  BY PeerFacts, HastenedType DEF None
<1>4. conn[p].key \in Keys /\ conn[p].phase # "none"
  BY PeerFacts DEF PeerOK, Alive
<1>5. failures' \in [Keys -> Entry]
  <2>1. Charged(failures[conn[p].key]) \in Entry
    BY <1>4, PeerFacts, ChargedType
  <2> QED BY <2>1, PeerFacts DEF Refused
<1>6. UNCHANGED <<allowed, inbox>>
  BY DEF Refused
<1> HIDE DEF c, d
<1> QED BY <1>1, <1>2, <1>3, <1>4, <1>5, <1>6, PeerFacts, StepOfOne

\* A connection that is let in has no deadline any more.
LEMMA AcceptedInv ==
  ASSUME IInv, NEW p \in Peers, Alive(p), conn[p].auth # "none",
         allowed' = allowed \cup {conn[p].key}, Accepted(p)
  PROVE  IInv'
<1> DEFINE c == [conn[p] EXCEPT !.auth = "settled", !.admission = "yes"]
<1>1. conn' = [conn EXCEPT ![p] = c] /\ left' = [left EXCEPT ![p] = None]
  BY DEF Accepted
<1>2. /\ c \in Connection /\ c.phase = conn[p].phase /\ c.auth = "settled"
      /\ c.admission = "yes" /\ c.key = conn[p].key
  BY PeerFacts DEF Connection
<1>3. conn[p].key \in Keys /\ conn[p].phase # "none"
  BY PeerFacts DEF PeerOK, Alive
<1>4. NoFailures \in Entry
  BY AdmissionOK DEF NoFailures, Entry
<1>5. failures' \in [Keys -> Entry]
  BY <1>4, PeerFacts DEF Accepted
<1>6. allowed' \in SUBSET Keys /\ UNCHANGED inbox
  BY <1>3, PeerFacts DEF Accepted
<1> HIDE DEF c
<1> QED BY <1>1, <1>2, <1>3, <1>5, <1>6, PeerFacts, StepOfOne

\* AUTH_RESPONSE: too late or blocked, malformed, refused or let in.
LEMMA ResponseInv ==
  ASSUME IInv, NEW p \in Peers, NEW wellFormed \in BOOLEAN, NEW proves \in BOOLEAN,
         NEW goodToken \in BOOLEAN,
         HandleAuthResponse(p, wellFormed, proves, goodToken)
  PROVE  IInv'
<1> DEFINE late == ~AllowedToTry(conn[p].key) \/ left[p] = 0
<1>1. Alive(p) /\ conn[p].auth # "none"
  BY DEF HandleAuthResponse
<1>2. CASE late
  BY <1>1, <1>2, DropInv DEF HandleAuthResponse
<1>3. CASE ~late /\ ~wellFormed
  <2> DEFINE c == Closing(conn[p])
  <2>1. conn' = [conn EXCEPT ![p] = c] /\ left' = [left EXCEPT ![p] = left[p]]
        /\ UNCHANGED <<allowed, failures, inbox>>
    BY <1>3, SameDeadline DEF HandleAuthResponse
  <2>2. /\ c \in Connection /\ c.phase = "closing"
        /\ c.auth = conn[p].auth /\ c.admission = conn[p].admission /\ c.key = conn[p].key
    BY PeerFacts DEF Closing, Connection
  <2> HIDE DEF c
  <2> QED BY <1>1, <2>1, <2>2, PeerFacts, StepOfOne DEF PeerOK, Admitted
<1>4. CASE ~late /\ wellFormed /\ (conn[p].auth # "awaiting" \/ ~proves)
  BY <1>1, <1>4, RefusedInv DEF HandleAuthResponse
<1>5. CASE ~late /\ wellFormed /\ ~(conn[p].auth # "awaiting" \/ ~proves)
  <2>1. SettleProvenKey(p, goodToken)
    BY <1>5 DEF HandleAuthResponse
  <2> QED BY <1>1, <2>1, RefusedInv, AcceptedInv DEF SettleProvenKey
<1> QED BY <1>2, <1>3, <1>4, <1>5

-----------------------------------------------------------------------------
\* A message of a peer that is let in is kept with the key it proved.
LEMMA DeliverInv ==
  ASSUME IInv, NEW p \in Peers, Deliver(p)
  PROVE  IInv'
<1>1. conn[p].key \in Keys
  BY PeerFacts DEF Deliver, PeerOK
<1>2. inbox' \in [Peers -> Seq(Keys)]
  <2>1. inbox[p] \in Seq(Keys)
    BY PeerFacts
  <2>2. Append(inbox[p], conn[p].key) \in Seq(Keys)
    BY <1>1, <2>1
  <2> QED BY <2>2, PeerFacts DEF Deliver
<1>3. UNCHANGED <<conn, left, allowed, failures>>
  BY DEF Deliver
<1> QED BY <1>2, <1>3 DEF IInv, TypeOK, PeerOK, Alive, Admitted

\* Handing out a message changes nothing about the connections.
LEMMA RecvInv ==
  ASSUME IInv, NEW p \in Peers, RecvFrom(p)
  PROVE  IInv'
<1>1. inbox' \in [Peers -> Seq(Keys)]
  <2>1. inbox[p] \in Seq(Keys) /\ inbox[p] # <<>>
    BY PeerFacts DEF RecvFrom
  <2>2. Tail(inbox[p]) \in Seq(Keys)
    BY <2>1
  <2> QED BY <2>2, PeerFacts DEF RecvFrom
<1>2. UNCHANGED <<conn, left, allowed, failures>>
  BY DEF RecvFrom
<1> QED BY <1>1, <1>2 DEF IInv, TypeOK, PeerOK, Alive, Admitted

\* What closes some of the connections and forgets them, and touches no other,
\* keeps the invariant.
LEMMA CloseSomeInv ==
  ASSUME IInv, NEW gone, NEW shut, \A p \in Peers : p \in shut => p \in gone /\ Alive(p),
         \A p \in Peers : p \in gone /\ p \notin shut => ~Alive(p),
         conn' = [p \in Peers |-> IF p \in shut THEN Closing(Forgotten(conn[p])) ELSE conn[p]],
         left' = [p \in Peers |-> IF p \in gone THEN None ELSE left[p]],
         inbox' \in [Peers -> Seq(Keys)],
         UNCHANGED <<allowed, failures>>
  PROVE  IInv'
<1>1. ASSUME NEW p \in Peers
      PROVE  /\ conn'[p] \in Connection /\ left'[p] \in -1..ResponseTicks
             /\ PeerOK(p)'
  <2>1. conn[p] \in Connection /\ left[p] \in -1..ResponseTicks /\ PeerOK(p)
        /\ None \in -1..ResponseTicks
    BY PeerFacts
  <2>2. CASE p \in shut
    <3> DEFINE c == Closing(Forgotten(conn[p]))
    <3>1. /\ c \in Connection
          /\ c.phase = "closing" /\ c.auth = "none" /\ c.admission = "none"
      BY <2>1 DEF Closing, Forgotten, Connection
    <3>2. conn'[p] = c /\ left'[p] = None
      BY <2>2
    <3> HIDE DEF c
    <3> QED BY <2>1, <3>1, <3>2 DEF PeerOK, Alive, Admitted
  <2>3. CASE p \notin shut
    <3>1. conn'[p] = conn[p] /\ (left'[p] = left[p] \/ (left'[p] = None /\ ~Alive(p)))
      BY <2>3
    <3> QED BY <2>1, <3>1 DEF PeerOK, Alive, Admitted
  <2> QED BY <2>2, <2>3
<1>2. conn' \in [Peers -> Connection] /\ left' \in [Peers -> -1..ResponseTicks]
  BY <1>1
<1>3. allowed' \in SUBSET Keys /\ failures' \in [Keys -> Entry]
  BY DEF IInv, TypeOK, Entry
<1>4. TypeOK'
  BY <1>2, <1>3 DEF TypeOK, Connection, Entry
<1> QED BY <1>1, <1>4 DEF IInv

\* A deadline that passes takes its connection with it.
LEMMA ExpireInv ==
  ASSUME IInv, ExpirePendingAuth
  PROVE  IInv'
<1> DEFINE gone == {p \in Peers : Due(p)}
           shut == {p \in Peers : Due(p) /\ Alive(p)}
<1>1. conn' = [p \in Peers |-> IF p \in shut THEN Closing(Forgotten(conn[p])) ELSE conn[p]]
  BY DEF ExpirePendingAuth
<1>2. left' = [p \in Peers |-> IF p \in gone THEN None ELSE left[p]]
  BY DEF ExpirePendingAuth
<1>3. inbox' \in [Peers -> Seq(Keys)] /\ UNCHANGED <<allowed, failures>>
  BY DEF ExpirePendingAuth, IInv, TypeOK
<1>4. /\ \A p \in Peers : p \in shut => p \in gone /\ Alive(p)
      /\ \A p \in Peers : p \in gone /\ p \notin shut => ~Alive(p)
  OBVIOUS
<1> HIDE DEF gone, shut
<1> QED BY <1>1, <1>2, <1>3, <1>4, CloseSomeInv

\* A device that was forgotten loses its connections and its messages.
LEMMA RevokeInv ==
  ASSUME IInv, RevokeForgottenPeers
  PROVE  IInv'
<1> DEFINE gone == {p \in Peers : Revoked(p)}
<1>1. /\ conn' = [p \in Peers |-> IF p \in gone THEN Closing(Forgotten(conn[p])) ELSE conn[p]]
      /\ left' = [p \in Peers |-> IF p \in gone THEN None ELSE left[p]]
      /\ inbox' = [p \in Peers |-> IF p \in gone THEN <<>> ELSE inbox[p]]
      /\ UNCHANGED <<allowed, failures>>
  BY DEF RevokeForgottenPeers
<1>2. inbox' \in [Peers -> Seq(Keys)]
  BY <1>1 DEF IInv, TypeOK
<1>3. \A p \in Peers : p \in gone => Alive(p)
  <2> SUFFICES ASSUME NEW p \in Peers, p \in gone PROVE Alive(p)
    OBVIOUS
  <2>1. Admitted(p) /\ PeerOK(p)
    BY DEF Revoked, IInv
  <2> QED BY <2>1 DEF PeerOK, Admitted, Alive, NoConnection
<1> HIDE DEF gone
<1> QED BY <1>1, <1>2, <1>3, CloseSomeInv

\* Time passes: deadlines come nearer, and none is lost on the way.
LEMMA PassTimeInv ==
  ASSUME IInv, PassTime
  PROVE  IInv'
<1>1. left' = [p \in Peers |-> Sooner(left[p])] /\ UNCHANGED <<conn, allowed, inbox>>
  BY DEF PassTime
<1>2. ASSUME NEW p \in Peers
      PROVE  left'[p] \in -1..ResponseTicks /\ PeerOK(p)'
  <2>1. left[p] \in -1..ResponseTicks /\ PeerOK(p) /\ ResponseTicks \in Nat
    BY PeerFacts, AdmissionOK
  <2>2. left'[p] = Sooner(left[p])
    BY <1>1
  <2>3. left'[p] \in -1..ResponseTicks /\ (left'[p] = None <=> left[p] = None)
    BY <2>1, <2>2, SoonerType
  <2> QED BY <1>1, <2>1, <2>3 DEF PeerOK, Alive, Admitted
<1>3. failures' \in [Keys -> Entry]
  <2>1. ASSUME NEW k \in Keys PROVE failures'[k] \in Entry
    <3> DEFINE f == failures[k]
    <3>1. f \in Entry
      BY DEF IInv, TypeOK, Entry
    <3>2. failures'[k] = [f EXCEPT !.blocked = Sooner(@),
                                   !.since = IF @ > WindowTicks THEN @ ELSE @ + 1]
      BY DEF PassTime
    <3> HIDE DEF f
    <3>3. f.blocked \in 0..CooldownTicks /\ f.since \in 0..WindowTicks + 1
      BY <3>1 DEF Entry
    <3>4. Sooner(f.blocked) \in 0..CooldownTicks
      BY <3>3, AdmissionOK, SoonerType
    <3>5. (IF f.since > WindowTicks THEN f.since ELSE f.since + 1) \in 0..WindowTicks + 1
      BY <3>3, AdmissionOK
    <3> QED BY <3>1, <3>2, <3>4, <3>5 DEF Entry
  <2> QED BY <2>1 DEF PassTime
<1>4. conn \in [Peers -> Connection] /\ allowed \in SUBSET Keys
      /\ inbox \in [Peers -> Seq(Keys)]
  BY DEF IInv, TypeOK, Connection
<1>5. left' \in [Peers -> -1..ResponseTicks]
  BY <1>1, <1>2
<1>6. TypeOK'
  BY <1>1, <1>3, <1>4, <1>5 DEF TypeOK, Connection, Entry
<1> QED BY <1>2, <1>6 DEF IInv

\* Every step keeps the invariant.
LEMMA StepInv == IInv /\ [Next]_vars => IInv'
<1> SUFFICES ASSUME IInv, [Next]_vars PROVE IInv'
  OBVIOUS
<1>1. ASSUME NEW p \in Peers, Event(p) PROVE IInv'
  BY <1>1, ConnectInv, OnClosedInv, StartInv, ResponseInv, DeliverInv, RecvInv DEF Event
<1>2. CASE ExpirePendingAuth
  BY <1>2, ExpireInv
<1>3. CASE RevokeForgottenPeers
  BY <1>3, RevokeInv
<1>5. ASSUME NEW k \in Keys, AllowClient(k) \/ ForgetClient(k) PROVE IInv'
  BY <1>5 DEF AllowClient, ForgetClient, IInv, TypeOK, PeerOK, Alive, Admitted
<1>6. CASE PassTime
  BY <1>6, PassTimeInv
<1>7. CASE UNCHANGED vars
  BY <1>7 DEF vars, IInv, TypeOK, PeerOK, Alive, Admitted
<1> QED BY <1>1, <1>2, <1>3, <1>5, <1>6, <1>7 DEF Next

-----------------------------------------------------------------------------
\* The state stays well typed.
THEOREM TypeCorrect == Spec => []TypeOK
<1>1. IInv => TypeOK
  BY DEF IInv
<1> QED BY <1>1, InitInv, StepInv, PTL DEF Spec

\* However many connections there are and whatever is said on them, the deadline of a
\* handshake runs until its peer is let in and no longer (AuthDeadlines, SettleHostAuth).
THEOREM DeadlineUntilLetIn == Spec => []TimedUntilLetIn
<1>1. IInv => TimedUntilLetIn
  BY DEF IInv, PeerOK, TimedUntilLetIn
<1> QED BY <1>1, InitInv, StepInv, PTL DEF Spec

\* Only a response on its own connection lets a peer in, and only with a key that
\* the limiter lets try.
LEMMA OnlyAResponseLetsIn ==
  ASSUME IInv, NEW p \in Peers, NEW q \in Peers, Event(q), Admitted(p)', ~Admitted(p)
  PROVE  p = q /\ AllowedToTry(conn[p].key)
<1>1. conn \in [Peers -> Connection]
  BY DEF IInv, TypeOK, Connection
<1>2. conn'[p].admission = "yes" /\ conn[p].admission # "yes"
  BY DEF Admitted
<1>3. ASSUME NEW c, conn' = [conn EXCEPT ![q] = c]
      PROVE  p = q /\ c.admission = "yes"
  <2>1. conn'[p] = IF p = q THEN c ELSE conn[p]
    BY <1>1, <1>3
  <2> QED BY <1>2, <2>1
<1>4. /\ Closing(conn[q]).admission = conn[q].admission
      /\ Closing(Forgotten(conn[q])).admission = "none"
      /\ [Forgotten(conn[q]) EXCEPT !.phase = "none"].admission = "none"
      /\ [conn[q] EXCEPT !.phase = "open"].admission = conn[q].admission
      /\ [conn[q] EXCEPT !.auth = "settled", !.admission = "no"].admission = "no"
      /\ \A a, k : [conn[q] EXCEPT !.auth = a, !.key = k].admission = conn[q].admission
  BY <1>1 DEF Closing, Forgotten, Connection
<1>5. conn' # [conn EXCEPT ![q] = Closing(conn[q])]
  BY <1>2, <1>3, <1>4
<1>6. ~Drop(q)
  BY <1>2, <1>3, <1>4 DEF Drop
<1>7. ~Connect(q) /\ ~OnClosed(q)
  BY <1>2, <1>3, <1>4 DEF Connect, OnClosed
<1>8. ~Deliver(q) /\ ~RecvFrom(q)
  BY <1>2 DEF Deliver, RecvFrom
<1>9. \A k \in Keys, wellFormed, readable \in BOOLEAN :
        ~HandleAuthStart(q, k, wellFormed, readable)
  <2> SUFFICES ASSUME NEW k \in Keys, NEW wellFormed \in BOOLEAN, NEW readable \in BOOLEAN,
                      HandleAuthStart(q, k, wellFormed, readable)
               PROVE  FALSE
    OBVIOUS
  <2>1. conn' = [conn EXCEPT ![q] = [@ EXCEPT !.auth = IF readable THEN "awaiting" ELSE "settled",
                                              !.key = k]]
    BY <1>5, <1>6 DEF HandleAuthStart
  <2> QED BY <1>2, <1>3, <1>4, <2>1
<1>10. PICK wellFormed \in BOOLEAN, proves \in BOOLEAN, goodToken \in BOOLEAN :
         HandleAuthResponse(q, wellFormed, proves, goodToken)
  BY <1>7, <1>8, <1>9 DEF Event
<1>11. AllowedToTry(conn[q].key) /\ (\A charge \in BOOLEAN : ~Refused(q, charge))
       /\ SettleProvenKey(q, goodToken)
  <2>1. ASSUME NEW charge \in BOOLEAN, Refused(q, charge)
        PROVE  FALSE
    <3>1. conn' = [conn EXCEPT ![q] = [conn[q] EXCEPT !.auth = "settled", !.admission = "no"]]
      BY <2>1 DEF Refused
    <3>2. [conn[q] EXCEPT !.auth = "settled", !.admission = "no"].admission = "yes"
      BY <1>3, <3>1
    <3> QED BY <1>4, <3>2
  <2> QED BY <1>5, <1>6, <1>10, <2>1 DEF HandleAuthResponse
<1>12. Accepted(q)
  BY <1>11 DEF SettleProvenKey
<1> QED BY <1>3, <1>11, <1>12 DEF Accepted

\* A blocked key lets nobody in: the step that lets a connection in has asked the
\* limiter, with the key that proved itself (HandleAuthResponse).
THEOREM BlockedKeysAreKeptOut == Spec => BlockedKeysWait
<1> DEFINE Waits == \A p \in Peers :
                      Admitted(p)' /\ ~Admitted(p) => failures[conn[p].key].blocked = 0
<1>1. ASSUME IInv, Next PROVE Waits
  <2>1. SUFFICES ASSUME NEW p \in Peers, Admitted(p)', ~Admitted(p)
                 PROVE  failures[conn[p].key].blocked = 0
    OBVIOUS
  <2>2. conn[p] \in Connection
    BY <1>1, PeerFacts
  <2>3. conn'[p].admission = "yes" /\ conn[p].admission # "yes"
    BY <2>1 DEF Admitted
  <2>4. CASE \E q \in Peers : Event(q)
    BY <1>1, <2>1, <2>4, OnlyAResponseLetsIn DEF AllowedToTry
  <2>5. ~ExpirePendingAuth /\ ~RevokeForgottenPeers
    <3>1. Closing(Forgotten(conn[p])).admission = "none"
      BY <2>2 DEF Closing, Forgotten, Connection
    <3> QED BY <2>3, <3>1 DEF ExpirePendingAuth, RevokeForgottenPeers
  <2>6. \A k \in Keys : ~(AllowClient(k) \/ ForgetClient(k))
    BY <2>3 DEF AllowClient, ForgetClient
  <2>7. ~PassTime
    BY <2>3 DEF PassTime
  <2> QED BY <1>1, <2>4, <2>5, <2>6, <2>7 DEF Next
<1>2. IInv /\ [Next]_vars => [Waits]_vars
  BY <1>1
<1> QED BY <1>2, InitInv, StepInv, PTL DEF Spec, BlockedKeysWait

-----------------------------------------------------------------------------
(* The places of those that are still to answer.                           *)

\* A connection that holds a place: it has a deadline and is not settled.
Waiting(p) == left[p] # None /\ conn[p].auth # "settled"
Waiters == {p \in Peers : Waiting(p)}

PlacesHold == Cardinality(Waiters) <= MaxPending

\* What is done on one connection alone is seen on no other.
LEMMA OthersKeepWaiting ==
  ASSUME IInv, NEW p \in Peers, NEW c, NEW d,
         conn' = [conn EXCEPT ![p] = c], left' = [left EXCEPT ![p] = d],
         d = None \/ c.auth = "settled" \/ Waiting(p)
  PROVE  \A q \in Peers : Waiting(q)' => Waiting(q)
<1> SUFFICES ASSUME NEW q \in Peers, Waiting(q)' PROVE Waiting(q)
  OBVIOUS
<1>1. conn \in [Peers -> Connection] /\ left \in [Peers -> -1..ResponseTicks]
  BY DEF IInv, TypeOK, Connection
<1>2. CASE q = p
  <2>1. conn'[p] = c /\ left'[p] = d
    BY <1>1
  <2> QED BY <1>2, <2>1 DEF Waiting
<1>3. CASE q # p
  <2>1. conn'[q] = conn[q] /\ left'[q] = left[q]
    BY <1>1, <1>3
  <2> QED BY <2>1 DEF Waiting
<1> QED BY <1>2, <1>3

\* A connection that is dropped gives its place back.
LEMMA DropKeepsWaiters ==
  ASSUME IInv, NEW p \in Peers, Drop(p)
  PROVE  \A q \in Peers : Waiting(q)' => Waiting(q)
<1>1. /\ conn' = [conn EXCEPT ![p] = Closing(Forgotten(conn[p]))]
      /\ left' = [left EXCEPT ![p] = None]
  BY DEF Drop
<1> QED BY <1>1, OthersKeepWaiting

\* One that is only being closed keeps the place it had until it is gone.
LEMMA ClosingKeepsWaiters ==
  ASSUME IInv, NEW p \in Peers, conn' = [conn EXCEPT ![p] = Closing(@)], UNCHANGED left
  PROVE  \A q \in Peers : Waiting(q)' => Waiting(q)
<1> SUFFICES ASSUME NEW q \in Peers, Waiting(q)' PROVE Waiting(q)
  OBVIOUS
<1>1. conn \in [Peers -> Connection]
  BY DEF IInv, TypeOK, Connection
<1>2. conn'[q].auth = conn[q].auth
  <2>1. Closing(conn[p]).auth = conn[p].auth
    BY <1>1 DEF Closing, Connection
  <2>2. conn'[q] = IF q = p THEN Closing(conn[p]) ELSE conn[q]
    BY <1>1
  <2> QED BY <2>1, <2>2
<1> QED BY <1>2 DEF Waiting

\* A refusal moves the deadline of a connection that is settled with it.
LEMMA RefusedKeepsWaiters ==
  ASSUME IInv, NEW p \in Peers, NEW charge \in BOOLEAN, Refused(p, charge)
  PROVE  \A q \in Peers : Waiting(q)' => Waiting(q)
<1> DEFINE c == [conn[p] EXCEPT !.auth = "settled", !.admission = "no"]
<1>1. conn' = [conn EXCEPT ![p] = c] /\ left' = [left EXCEPT ![p] = Hastened(left[p])]
  BY DEF Refused
<1>2. c.auth = "settled"
  BY PeerFacts DEF Connection
<1> HIDE DEF c
<1> QED BY <1>1, <1>2, OthersKeepWaiting

\* AUTH_START: a connection that starts held its place before, and one whose start
\* cannot be checked (the list is unreadable) is settled at once.
LEMMA StartKeepsWaiters ==
  ASSUME IInv, NEW p \in Peers, NEW k \in Keys,
         NEW wellFormed \in BOOLEAN, NEW readable \in BOOLEAN,
         HandleAuthStart(p, k, wellFormed, readable)
  PROVE  \A q \in Peers : Waiting(q)' => Waiting(q)
<1> DEFINE refuse == ~wellFormed \/ (readable /\ ~AllowedToTry(k))
<1>1. CASE conn[p].auth # "none"
  BY <1>1, DropKeepsWaiters DEF HandleAuthStart
<1>2. CASE conn[p].auth = "none" /\ refuse
  BY <1>2, ClosingKeepsWaiters DEF HandleAuthStart
<1>3. CASE conn[p].auth = "none" /\ ~refuse
  <2> DEFINE c == [conn[p] EXCEPT !.auth = IF readable THEN "awaiting" ELSE "settled",
                                  !.key = k]
             d == IF readable THEN left[p] ELSE Hastened(left[p])
  <2>1. conn' = [conn EXCEPT ![p] = c] /\ left' = [left EXCEPT ![p] = d]
    BY <1>3, PeerFacts DEF HandleAuthStart
  <2>2. c.auth = "settled" \/ d = left[p]
    BY PeerFacts DEF Connection
  <2>3. d = left[p] => d = None \/ Waiting(p)
    BY <1>3 DEF Waiting
  <2> HIDE DEF c, d
  <2> QED BY <2>1, <2>2, <2>3, OthersKeepWaiting
<1> QED BY <1>1, <1>2, <1>3

\* AUTH_RESPONSE: whatever it brings, it takes no place.
LEMMA ResponseKeepsWaiters ==
  ASSUME IInv, NEW p \in Peers, NEW wellFormed \in BOOLEAN, NEW proves \in BOOLEAN,
         NEW goodToken \in BOOLEAN,
         HandleAuthResponse(p, wellFormed, proves, goodToken)
  PROVE  \A q \in Peers : Waiting(q)' => Waiting(q)
<1>1. CASE Drop(p)
  BY <1>1, DropKeepsWaiters
<1>2. CASE conn' = [conn EXCEPT ![p] = Closing(@)] /\ UNCHANGED left
  BY <1>2, ClosingKeepsWaiters
<1>3. CASE \E charge \in BOOLEAN : Refused(p, charge)
  BY <1>3, RefusedKeepsWaiters
<1>4. CASE Accepted(p)
  <2>1. /\ conn' = [conn EXCEPT ![p] = [conn[p] EXCEPT !.auth = "settled",
                                                       !.admission = "yes"]]
        /\ left' = [left EXCEPT ![p] = None]
    BY <1>4 DEF Accepted
  <2> QED BY <2>1, OthersKeepWaiting
<1> QED BY <1>1, <1>2, <1>3, <1>4 DEF HandleAuthResponse, SettleProvenKey

\* A place is taken by a new connection, of which the host counts the pending ones
\* first, and by nothing else.
LEMMA StepKeepsWaiters ==
  ASSUME IInv, [Next]_vars, \A p \in Peers : ~Connect(p)
  PROVE  Waiters' \subseteq Waiters
<1> SUFFICES \A q \in Peers : Waiting(q)' => Waiting(q)
  BY DEF Waiters
<1>1. ASSUME NEW p \in Peers, OnClosed(p)
      PROVE  \A q \in Peers : Waiting(q)' => Waiting(q)
  <2>1. /\ conn' = [conn EXCEPT ![p] = [Forgotten(conn[p]) EXCEPT !.phase = "none"]]
        /\ left' = [left EXCEPT ![p] = None]
    BY <1>1 DEF OnClosed
  <2> QED BY <2>1, OthersKeepWaiting
<1>2. ASSUME NEW p \in Peers, Event(p)
      PROVE  \A q \in Peers : Waiting(q)' => Waiting(q)
  BY <1>1, <1>2, StartKeepsWaiters, ResponseKeepsWaiters
     DEF Event, Deliver, RecvFrom, Waiting
<1>3. CASE ExpirePendingAuth
  BY <1>3 DEF ExpirePendingAuth, Waiting, Due, Alive
<1>4. CASE RevokeForgottenPeers
  BY <1>4 DEF RevokeForgottenPeers, Waiting
<1>5. ASSUME NEW k \in Keys, AllowClient(k) \/ ForgetClient(k)
      PROVE  \A q \in Peers : Waiting(q)' => Waiting(q)
  BY <1>5 DEF AllowClient, ForgetClient, Waiting
<1>6. CASE PassTime
  <2> SUFFICES ASSUME NEW q \in Peers, Waiting(q)' PROVE Waiting(q)
    OBVIOUS
  <2>1. left[q] \in -1..ResponseTicks /\ ResponseTicks \in Nat
    BY PeerFacts, AdmissionOK
  <2>2. left'[q] = Sooner(left[q]) /\ conn' = conn
    BY <1>6 DEF PassTime
  <2>3. left'[q] = None <=> left[q] = None
    BY <2>1, <2>2, SoonerType
  <2> QED BY <2>2, <2>3 DEF Waiting
<1>7. CASE UNCHANGED vars
  BY <1>7 DEF vars, Waiting
<1> QED BY <1>2, <1>3, <1>4, <1>5, <1>6, <1>7 DEF Next

\* A new connection takes one place, and only when one is free.
LEMMA ConnectKeepsPlaces ==
  ASSUME IInv, NEW p \in Peers, Connect(p)
  PROVE  PlacesHold'
<1>1. IsFiniteSet(Pending) /\ Cardinality(Pending) \in Nat /\ MaxPending \in Nat
  BY AdmissionOK, FS_Subset, FS_CardinalityType DEF Pending
<1>2. Waiters' \subseteq Pending \cup {p}
  <2> SUFFICES ASSUME NEW q \in Peers, Waiting(q)', q # p PROVE q \in Pending
    BY DEF Waiters
  <2>1. left'[q] = left[q]
    BY PeerFacts DEF Connect, AdmitConnection
  <2> QED BY <2>1 DEF Waiting, Pending
<1>3. /\ IsFiniteSet(Pending \cup {p}) /\ Cardinality(Pending \cup {p}) \in Nat
      /\ Cardinality(Pending \cup {p}) <= Cardinality(Pending) + 1
  <2>1. /\ IsFiniteSet(Pending \cup {p})
        /\ Cardinality(Pending \cup {p})
             = IF p \in Pending THEN Cardinality(Pending) ELSE Cardinality(Pending) + 1
    BY <1>1, FS_AddElement, Zenon
  <2> QED BY <1>1, <2>1
<1>4. Cardinality(Pending) < MaxPending
  BY DEF Connect, AdmitConnection
<1>5. Cardinality(Waiters') \in Nat /\ Cardinality(Waiters') <= Cardinality(Pending \cup {p})
  BY <1>2, <1>3, FS_Subset, FS_CardinalityType
<1>6. Cardinality(Waiters') <= MaxPending
  BY <1>1, <1>3, <1>4, <1>5
<1> QED BY <1>6 DEF PlacesHold

\* The places stay within their number.
LEMMA StepKeepsPlaces == IInv /\ PlacesHold /\ [Next]_vars => PlacesHold'
<1> SUFFICES ASSUME IInv, PlacesHold, [Next]_vars PROVE PlacesHold'
  OBVIOUS
<1>1. ASSUME NEW p \in Peers, Connect(p) PROVE PlacesHold'
  BY <1>1, ConnectKeepsPlaces
<1>2. CASE \A p \in Peers : ~Connect(p)
  <2>1. Waiters' \subseteq Waiters
    BY <1>2, StepKeepsWaiters
  <2>2. IsFiniteSet(Waiters) /\ Cardinality(Waiters) \in Nat
    BY AdmissionOK, FS_Subset, FS_CardinalityType DEF Waiters
  <2>3. Cardinality(Waiters') \in Nat /\ Cardinality(Waiters') <= Cardinality(Waiters)
    BY <2>1, <2>2, FS_Subset, FS_CardinalityType
  <2>4. Cardinality(Waiters') <= MaxPending
    BY <2>2, <2>3, AdmissionOK DEF PlacesHold
  <2> QED BY <2>4 DEF PlacesHold
<1> QED BY <1>1, <1>2

\* However many connect, answer, are refused and leave, in whatever order, no more
\* than the limit wait to answer, and a place is held by a connection that exists
\* (AuthDeadlines::Add counts before it adds; every close removes).
THEOREM PlacesStayBounded == Spec => []PlacesBounded
<1>1. Init => PlacesHold
  <2> SUFFICES ASSUME Init PROVE PlacesHold
    OBVIOUS
  <2>1. Waiters = {}
    BY DEF Init, Waiters, Waiting
  <2>2. Cardinality({}) = 0
    BY FS_EmptySet
  <2> QED BY <2>1, <2>2, AdmissionOK DEF PlacesHold
<1>2. IInv /\ PlacesHold => PlacesBounded
  <2> SUFFICES ASSUME IInv, PlacesHold PROVE PlacesBounded
    OBVIOUS
  <2>1. {p \in Pending : conn[p].auth # "settled"} = Waiters
    BY DEF Pending, Waiters, Waiting
  <2>2. \A p \in Pending : Alive(p)
    BY DEF IInv, PeerOK, Pending
  <2> QED BY <2>1, <2>2 DEF PlacesBounded, PlacesHold
<1> QED BY <1>1, <1>2, InitInv, StepInv, StepKeepsPlaces, PTL DEF Spec
=============================================================================
