--------------------------- MODULE HostAdmission ---------------------------
(***************************************************************************)
(* Who a host lets in: the host side of SessionTransport, with the HostAuth *)
(* of each connection, the AuthDeadlines of those not let in yet, the      *)
(* AuthFailureLimiter and the messages delivered to the sessions.          *)
(*                                                                         *)
(* A connection the host closes lingers until QUIC reports it closed; what *)
(* had arrived on it before is still handled.  Connections are named by    *)
(* the peer's address, so a name can be used again.  Times are kept as     *)
(* what is left of them, or as ages that saturate.                         *)
(***************************************************************************)
EXTENDS Integers, Sequences, FiniteSets

CONSTANTS
  Peers,          \* addresses connections come from
  Keys,           \* keys of client devices
  NoKey,          \* no device has identified itself
  MaxPending,     \* kMaxPendingAuth
  ResponseTicks,  \* kAuthResponseTimeoutUs
  LingerTicks,    \* kRefusalLingerUs
  FailureLimit,   \* kAuthFailureLimit
  WindowTicks,    \* kAuthFailureWindowUs
  CooldownTicks,  \* kAuthFailureCooldownUs
  MaxInbox        \* bound on the messages of a peer waiting for the sessions

ASSUME AdmissionOK ==
  /\ NoKey \notin Keys
  /\ IsFiniteSet(Peers)
  /\ MaxPending \in Nat \ {0}
  /\ ResponseTicks \in Nat \ {0}
  /\ LingerTicks \in 0..ResponseTicks
  /\ FailureLimit \in Nat \ {0}
  /\ CooldownTicks \in Nat /\ WindowTicks \in Nat /\ CooldownTicks <= WindowTicks
  /\ MaxInbox \in Nat

VARIABLES
  conn,      \* peer -> what the host knows of its connection
  left,      \* peer -> what is left of its deadline, or None
  allowed,   \* the keys on the host's list of allowed clients
  failures,  \* key -> its entry in the failure limiter (one address)
  inbox      \* peer -> its messages for the sessions: the key let in when each came

vars == <<conn, left, allowed, failures, inbox>>

None == -1
NoConnection == [phase |-> "none", auth |-> "none", key |-> NoKey, admission |-> "none"]
NoFailures == [count |-> 0, since |-> WindowTicks + 1, blocked |-> 0]

Pending == {p \in Peers : left[p] # None}
Alive(p) == conn[p].phase # "none"
Admitted(p) == conn[p].admission = "yes"

\* Faulty variant of AllowedToTry: the limiter is not asked.
AlwaysAllowed(k) == TRUE

AllowedToTry(k) == failures[k].blocked = 0

-----------------------------------------------------------------------------
(* Bookkeeping.                                                            *)

\* ForgetPeerAuth, for the connection's record.
Forgotten(c) == [c EXCEPT !.auth = "none", !.key = NoKey, !.admission = "none"]

Closing(c) == [c EXCEPT !.phase = "closing"]

\* Faulty variant of Hastened: only a connection that still has a deadline gets a
\* nearer one.
HastenedIfPending(d) == IF d = None THEN None ELSE IF d < LingerTicks THEN d ELSE LingerTicks

\* RefuseAfterReply: the deadline moves to the end of the linger, unless nearer.
Hastened(d) == IF d = None THEN LingerTicks
               ELSE IF d < LingerTicks THEN d ELSE LingerTicks

\* RecordFailure: a failure long after the last one starts a new count; the last
\* one allowed begins the cooldown.
Charged(f) ==
  LET n == (IF f.since > WindowTicks THEN 0 ELSE f.count) + 1
  IN  IF n >= FailureLimit
      THEN [count |-> 0, since |-> 0, blocked |-> CooldownTicks]
      ELSE [count |-> n, since |-> 0,
            blocked |-> IF f.since > WindowTicks THEN 0 ELSE f.blocked]

\* The host closes connection p and forgets what it knew of it.
Drop(p) ==
  /\ conn' = [conn EXCEPT ![p] = Closing(Forgotten(@))]
  /\ left' = [left EXCEPT ![p] = None]

-----------------------------------------------------------------------------
(* Connections.                                                            *)

\* Faulty variant of AdmitConnection: one connection too many may wait.
AdmitOneMore(p) ==
  /\ Cardinality(Pending) <= MaxPending
  /\ left' = [left EXCEPT ![p] = ResponseTicks]

AdmitConnection(p) ==
  /\ Cardinality(Pending) < MaxPending
  /\ left' = [left EXCEPT ![p] = ResponseTicks]

Connect(p) ==
  /\ ~Alive(p)
  /\ AdmitConnection(p)
  /\ conn' = [conn EXCEPT ![p].phase = "open"]
  /\ UNCHANGED <<allowed, failures, inbox>>

\* QUIC reports the connection closed: by the host, by the peer, or by silence.
OnClosed(p) ==
  /\ Alive(p)
  /\ conn' = [conn EXCEPT ![p] = [Forgotten(@) EXCEPT !.phase = "none"]]
  /\ left' = [left EXCEPT ![p] = None]
  /\ UNCHANGED <<allowed, failures, inbox>>

\* AUTH_START of key k: refused outright when the connection began authenticating
\* before; readable says whether the list of allowed clients could be read, wellFormed
\* whether the message and its key could, and no pairing token is guessed too often.
HandleAuthStart(p, k, wellFormed, readable) ==
  /\ Alive(p)
  /\ UNCHANGED <<allowed, failures, inbox>>
  /\ IF conn[p].auth # "none" THEN Drop(p)
     ELSE IF ~wellFormed \/ (readable /\ ~AllowedToTry(k))
     THEN /\ conn' = [conn EXCEPT ![p] = Closing(@)]
          /\ UNCHANGED left
     ELSE /\ conn' = [conn EXCEPT ![p].auth = IF readable THEN "awaiting" ELSE "settled",
                                  ![p].key = k]
          /\ left' = [left EXCEPT ![p] = IF readable THEN @ ELSE Hastened(@)]

Refused(p, charge) ==
  /\ conn' = [conn EXCEPT ![p].auth = "settled", ![p].admission = "no"]
  /\ left' = [left EXCEPT ![p] = Hastened(@)]
  /\ failures' = IF charge THEN [failures EXCEPT ![conn[p].key] = Charged(@)] ELSE failures
  /\ UNCHANGED <<allowed, inbox>>

Accepted(p) ==
  /\ conn' = [conn EXCEPT ![p].auth = "settled", ![p].admission = "yes"]
  /\ left' = [left EXCEPT ![p] = None]
  /\ failures' = [failures EXCEPT ![conn[p].key] = NoFailures]
  /\ UNCHANGED inbox

\* A proven key: it gets in when it is allowed, or when the pairing token it brought
\* is good, which puts it on the list.  Otherwise it waits for approval, which counts
\* as no failure, or is refused because it was denied or the list is unreadable.
SettleProvenKey(p, goodToken) ==
  \/ /\ conn[p].key \in allowed \/ goodToken
     /\ allowed' = allowed \cup {conn[p].key}
     /\ Accepted(p)
  \/ /\ conn[p].key \notin allowed /\ ~goodToken
     /\ \E charge \in BOOLEAN : Refused(p, charge)
  \/ Refused(p, FALSE)

\* AUTH_RESPONSE: wellFormed and proves say whether it could be read and whether the
\* signature is the key's.
HandleAuthResponse(p, wellFormed, proves, goodToken) ==
  /\ Alive(p) /\ conn[p].auth # "none"
  /\ IF ~AllowedToTry(conn[p].key) \/ left[p] = 0
     THEN Drop(p) /\ UNCHANGED <<allowed, failures, inbox>>
     ELSE IF ~wellFormed
     THEN /\ conn' = [conn EXCEPT ![p] = Closing(@)]
          /\ UNCHANGED <<left, allowed, failures, inbox>>
     ELSE IF conn[p].auth # "awaiting" \/ ~proves
     THEN Refused(p, TRUE)
     ELSE SettleProvenKey(p, goodToken)

\* Any other message goes to the sessions, once the peer is let in.  The lanes that
\* order the messages of different kinds are left out.
Deliver(p) ==
  /\ Alive(p) /\ Admitted(p) /\ Len(inbox[p]) < MaxInbox
  /\ inbox' = [inbox EXCEPT ![p] = Append(@, conn[p].key)]
  /\ UNCHANGED <<conn, left, allowed, failures>>

-----------------------------------------------------------------------------
(* The receive loop.                                                       *)

\* Faulty variant of Due: only a connection that is still to answer times out.
DueIfAwaiting(p) == left[p] = 0 /\ conn[p].auth = "awaiting"

Due(p) == left[p] = 0

ExpirePendingAuth ==
  /\ \E p \in Peers : Due(p)
  /\ conn' = [p \in Peers |-> IF Due(p) /\ Alive(p) THEN Closing(Forgotten(conn[p]))
                              ELSE conn[p]]
  /\ left' = [p \in Peers |-> IF Due(p) THEN None ELSE left[p]]
  /\ UNCHANGED <<allowed, failures, inbox>>

\* Faulty variant of Revoked: a peer with messages queued is left alone.
RevokedWhenQuiet(p) ==
  /\ Admitted(p) /\ conn[p].key \notin allowed
  /\ inbox[p] = <<>>

Revoked(p) == Admitted(p) /\ conn[p].key \notin allowed

RevokeForgottenPeers ==
  LET gone == {p \in Peers : Revoked(p)}
  IN  /\ gone # {}
      /\ conn' = [p \in Peers |-> IF p \in gone THEN Closing(Forgotten(conn[p]))
                                  ELSE conn[p]]
      /\ left' = [p \in Peers |-> IF p \in gone THEN None ELSE left[p]]
      /\ inbox' = [p \in Peers |-> IF p \in gone THEN <<>> ELSE inbox[p]]
      /\ UNCHANGED <<allowed, failures>>

\* RecvFrom hands a message to the sessions, here one of peer p.
RecvFrom(p) ==
  /\ inbox[p] # <<>>
  /\ inbox' = [inbox EXCEPT ![p] = Tail(@)]
  /\ UNCHANGED <<conn, left, allowed, failures>>

-----------------------------------------------------------------------------
(* The host's user, and time.                                              *)

AllowClient(k) ==
  /\ k \notin allowed
  /\ allowed' = allowed \cup {k}
  /\ UNCHANGED <<conn, left, failures, inbox>>

ForgetClient(k) ==
  /\ k \in allowed
  /\ allowed' = allowed \ {k}
  /\ UNCHANGED <<conn, left, failures, inbox>>

Sooner(d) == IF d > 0 THEN d - 1 ELSE d

PassTime ==
  /\ left' = [p \in Peers |-> Sooner(left[p])]
  /\ failures' = [k \in Keys |->
       [failures[k] EXCEPT !.blocked = Sooner(@),
                           !.since = IF @ > WindowTicks THEN @ ELSE @ + 1]]
  /\ UNCHANGED <<conn, allowed, inbox>>

Init ==
  /\ conn = [p \in Peers |-> NoConnection]
  /\ left = [p \in Peers |-> None]
  /\ allowed \in SUBSET Keys
  /\ failures = [k \in Keys |-> NoFailures]
  /\ inbox = [p \in Peers |-> <<>>]

Event(p) ==
  \/ Connect(p)
  \/ OnClosed(p)
  \/ \E k \in Keys, wellFormed, readable \in BOOLEAN :
       HandleAuthStart(p, k, wellFormed, readable)
  \/ \E wellFormed, proves, goodToken \in BOOLEAN :
       HandleAuthResponse(p, wellFormed, proves, goodToken)
  \/ Deliver(p)
  \/ RecvFrom(p)

Next ==
  \/ \E p \in Peers : Event(p)
  \/ ExpirePendingAuth
  \/ RevokeForgottenPeers
  \/ \E k \in Keys : AllowClient(k) \/ ForgetClient(k)
  \/ PassTime

Spec == Init /\ [][Next]_vars

\* The receive loop keeps turning, serves every lane, and time passes.
FairSpec ==
  /\ Spec
  /\ WF_vars(PassTime) /\ WF_vars(ExpirePendingAuth) /\ WF_vars(RevokeForgottenPeers)
  /\ \A p \in Peers : WF_vars(RecvFrom(p))
-----------------------------------------------------------------------------
(* Properties.                                                             *)

TypeOK ==
  /\ conn \in [Peers -> [phase : {"none", "open", "closing"},
                         auth : {"none", "awaiting", "settled"},
                         key : Keys \cup {NoKey},
                         admission : {"none", "yes", "no"}]]
  /\ left \in [Peers -> -1..ResponseTicks]
  /\ allowed \in SUBSET Keys
  /\ failures \in [Keys -> [count : 0..FailureLimit, since : 0..WindowTicks + 1,
                            blocked : 0..CooldownTicks]]
  /\ inbox \in [Peers -> Seq(Keys)]

\* A connection that is open and not let in runs against a deadline, whatever was
\* said on it: half-way through, refused, told to wait, or let in and then refused by
\* a second response; none can stay and hold its place for good.  One that was let in
\* has proven a key, and no deadline of its handshake is left to close it.
TimedUntilLetIn ==
  \A p \in Peers :
    /\ conn[p].phase = "open" /\ ~Admitted(p) => left[p] # None
    /\ Admitted(p) => /\ left[p] = None
                      /\ conn[p].auth = "settled" /\ conn[p].key \in Keys

\* At most so many connections wait to authenticate, and a place is only held by a
\* connection that exists: whichever way one ends, its place is free again.
PlacesBounded ==
  /\ \A p \in Pending : Alive(p)
  /\ Cardinality({p \in Pending : conn[p].auth # "settled"}) <= MaxPending

\* While a key is blocked no connection of its gets in, not even one that was
\* challenged before the block began.
BlockedKeysWait ==
  [][\A p \in Peers : Admitted(p)' /\ ~Admitted(p) => failures[conn[p].key].blocked = 0]_vars

\* A connection is settled in the end: let in, or closed.
EachIsSettled ==
  \A p \in Peers : conn[p].phase = "open" ~> Admitted(p) \/ conn[p].phase # "open"

\* Of a device that was forgotten, and not allowed again, nothing stays: neither a
\* connection that is let in, nor a message waiting for the sessions.
ForgottenLeavesNothing ==
  \A k \in Keys : k \notin allowed ~>
    \/ k \in allowed
    \/ \A p \in Peers :
         /\ Admitted(p) => conn[p].key # k
         /\ \A i \in DOMAIN inbox[p] : inbox[p][i] # k
=============================================================================
