------------------------- MODULE AccessStores_proofs -------------------------
(***************************************************************************)
(* What holds of the lists of a host for any number of devices, addresses, *)
(* owners and tokens, and any limits.  The requests rest on the lock: who  *)
(* holds it is the only one with a copy, and the copy is part of the file. *)
(* The last section counts the rows of each list.                          *)
(***************************************************************************)
EXTENDS AccessStores, FiniteSetTheorems, TLAPS

Row == [key : Keys, host : Hosts, denied : BOOLEAN, at : Nat]

Types ==
  /\ now \in Nat
  /\ requests \subseteq Row
  /\ copy \in [Actors -> SUBSET Row]
  /\ knock \in [pc : {"idle", "redeem", "remember", "check", "filed", "waiting", "adding"},
                key : Keys \cup {NoKey}, host : Hosts \cup {NoHost},
                token : Tokens \cup {NoToken}, stuck : BOOLEAN, stamp : Nat]
  /\ knock.pc # "idle" => knock.key \in Keys /\ knock.host \in Hosts
  /\ owner \in [Owners -> [pc : {"idle", "approve", "remove", "deny"},
                           key : Keys \cup {NoKey}]]

\* Only who works on the requests has the lock, and only who has it has a copy.
Held ==
  /\ lock \in Actors \cup {Nobody}
  /\ knock.pc = "adding" => lock = TheHost
  /\ \A o \in Owners : owner[o].pc # "idle" => lock = o
  /\ \A a \in Actors : IF lock = a THEN copy[a] \subseteq requests ELSE copy[a] = {}

\* What an owner is about to approve is waiting in the file.
Waiting == \A o \in Owners : owner[o].pc = "approve" => IsPending(requests, owner[o].key)

IInv == Types /\ Held /\ Waiting /\ RowsDistinct

Spent(t) == t \in issued /\ \A i \in tokens : i.token # t

\* A token that let a key in, or is about to, is out of force for good; but not one whose
\* file could not be removed.
TokenInv ==
  /\ issued \subseteq Tokens
  /\ DOMAIN letIn = Tokens
  /\ knock.pc = "redeem" => knock.token \in Tokens
  /\ \A i \in tokens : i.token \in issued
  /\ \A i, j \in tokens : i.token = j.token => i = j
  /\ knock.pc = "remember" => knock.token \in Tokens
  /\ knock.pc = "remember" /\ ~knock.stuck =>
       Spent(knock.token) /\ letIn[knock.token] = {}
  /\ \A t \in Tokens : \/ letIn[t] = {}
                       \/ Spent(t) /\ \E k : letIn[t] = {k}

\* Part of a list without doubles has none.
LEMMA DistinctPart ==
  ASSUME NEW rows, NEW part, part \subseteq rows, Distinct(rows)
  PROVE  Distinct(part)
BY DEF Distinct

\* A request added to a list without doubles leaves it without any: it replaces what
\* it would double.
LEMMA AddedDistinct ==
  ASSUME NEW rows \in SUBSET Row, Distinct(rows),
         NEW new \in Row, ~new.denied, NEW after \in Added(rows, new)
  PROVE  /\ after \in SUBSET Row
         /\ Distinct(after)
         /\ \A r \in after : r = new \/ r \in rows
<1> DEFINE kept == {r \in rows : ~Replaces(new, r)}
<1>1. PICK part \in SUBSET kept : after = part \cup {new}
  <2>1. CASE Cardinality(kept) < MaxRequests
    BY <2>1 DEF Added
  <2>2. CASE ~(Cardinality(kept) < MaxRequests)
    <3>1. after \in {(kept \ {r}) \cup {new} : r \in {q \in kept : \A p \in kept : q.at <= p.at}}
      BY <2>2 DEF Added
    <3>2. PICK r \in kept : after = (kept \ {r}) \cup {new}
      BY <3>1
    <3>3. kept \ {r} \in SUBSET kept
      OBVIOUS
    <3> QED
      BY <3>2, <3>3
  <2> QED
    BY <2>1, <2>2
<1>2. \A r \in part : r \in rows /\ ~Replaces(new, r)
  BY <1>1
<1>3. Distinct(after)
  BY <1>1, <1>2 DEF Distinct, Replaces
<1> QED
  BY <1>1, <1>2, <1>3

-----------------------------------------------------------------------------
(* The steps.                                                              *)

\* HostAuth up to the lock, the owner's other lists, and time.
LEMMA AwayFromTheRequests ==
  ASSUME IInv, UNCHANGED <<requests, lock, copy, owner>>, now' \in Nat,
         knock'.pc = "adding" <=> knock.pc = "adding", Types'
  PROVE  IInv'
BY DEF IInv, Held, Waiting, RowsDistinct

LEMMA HostBeforeTheLock ==
  ASSUME IInv,
         \/ \E k \in Keys, h \in Hosts, t \in issued \cup {NoToken} : SettleProvenKey(k, h, t)
         \/ RedeemPairingToken \/ RememberTokenKey \/ CheckTokenKey \/ StampRequest,
         issued \subseteq Tokens
  PROVE  IInv'
<1> DEFINE Fine == /\ UNCHANGED <<now, requests, lock, copy, owner>>
                  /\ knock.pc # "adding" /\ knock'.pc # "adding"
                  /\ Types'
<1> SUFFICES Fine
  BY AwayFromTheRequests DEF IInv, Types
<1> USE DEF IInv, Types, files, NoKnock
<1>1. ASSUME NEW k \in Keys, NEW h \in Hosts, NEW t \in issued \cup {NoToken},
             SettleProvenKey(k, h, t)
      PROVE  Fine
  BY <1>1 DEF SettleProvenKey
<1>2. CASE RedeemPairingToken
  <2>1. \/ knock' = [knock EXCEPT !.pc = "remember"] \/ knock' = [knock EXCEPT !.pc = "filed"]
        \/ knock' = [knock EXCEPT !.pc = "remember", !.stuck = TRUE]
    BY <1>2 DEF RedeemPairingToken, Consume
  <2> QED
    BY <1>2, <2>1 DEF RedeemPairingToken
<1>3. CASE RememberTokenKey
  BY <1>3 DEF RememberTokenKey
<1>4. CASE CheckTokenKey
  <2>1. knock' = NoKnock \/ knock' = [knock EXCEPT !.pc = "filed"]
    BY <1>4 DEF CheckTokenKey
  <2> QED
    BY <1>4, <2>1 DEF CheckTokenKey
<1>5. CASE StampRequest
  BY <1>5 DEF StampRequest
<1> QED
  BY <1>1, <1>2, <1>3, <1>4, <1>5

\* The lock is taken: the copy is the file's rows that have not run out.
LEMMA LoadTakes ==
  ASSUME IInv, NEW a \in Actors, Load(a), UNCHANGED requests
  PROVE  /\ lock = Nobody /\ lock' = a
         /\ copy' \in [Actors -> SUBSET Row]
         /\ \A b \in Actors : IF lock' = b THEN copy'[b] \subseteq requests' ELSE copy'[b] = {}
BY StoresOK DEF IInv, Types, Held, Load, Unexpired, Actors

LEMMA LoadForKnockStep == ASSUME IInv, LoadForKnock PROVE IInv'
<1>1. TheHost \in Actors /\ Nobody \notin Actors
  BY StoresOK DEF Actors
<1>2. UNCHANGED <<now, requests, owner>> /\ Load(TheHost)
      /\ knock' = [knock EXCEPT !.pc = "adding"] /\ knock.pc = "waiting"
  BY DEF LoadForKnock, files
<1>3. /\ lock = Nobody /\ lock' = TheHost
      /\ copy' \in [Actors -> SUBSET Row]
      /\ \A b \in Actors : IF lock' = b THEN copy'[b] \subseteq requests' ELSE copy'[b] = {}
  BY <1>1, <1>2, LoadTakes
<1>4. \A o \in Owners : owner[o].pc = "idle"
  BY <1>1, <1>3 DEF IInv, Held, Actors
<1>5. Types'
  BY <1>2, <1>3 DEF IInv, Types
<1>6. Held'
  BY <1>1, <1>2, <1>3, <1>4 DEF Held
<1> QED
  BY <1>2, <1>4, <1>5, <1>6 DEF IInv, Waiting, RowsDistinct

LEMMA TakeUpStep ==
  ASSUME IInv, NEW o \in Owners, NEW k \in Keys, NEW what \in {"approve", "deny"},
         TakeUp(o, k, what)
  PROVE  IInv'
<1>1. o \in Actors /\ Nobody \notin Actors /\ o # TheHost
  BY StoresOK DEF Actors
<1>2. /\ UNCHANGED <<now, requests, knock>> /\ Load(o)
      /\ owner' = [owner EXCEPT ![o] = [pc |-> what, key |-> k]]
      /\ IsPending(Unexpired(requests, now), k)
  BY DEF TakeUp, files
<1>3. /\ lock = Nobody /\ lock' = o
      /\ copy' \in [Actors -> SUBSET Row]
      /\ \A b \in Actors : IF lock' = b THEN copy'[b] \subseteq requests' ELSE copy'[b] = {}
  BY <1>1, <1>2, LoadTakes
<1>4. (\A p \in Owners : owner[p].pc = "idle") /\ knock.pc # "adding"
  BY <1>1, <1>3 DEF IInv, Held, Actors
<1>5. Types'
  BY <1>2, <1>3 DEF IInv, Types
<1>6. Held'
  BY <1>1, <1>2, <1>3, <1>4 DEF Held, IInv, Types
<1>7. Waiting'
  <2>1. IsPending(requests', k)
    BY <1>2 DEF IsPending, Unexpired
  <2> QED
    BY <1>2, <1>4, <2>1 DEF Waiting, IInv, Types
<1> QED
  BY <1>2, <1>5, <1>6, <1>7 DEF IInv, RowsDistinct

\* Who has the lock lets it go; nobody has a copy then.
LEMMA LetGoOfTheLock ==
  ASSUME IInv, NEW a \in Actors, lock = a, LetGo(a)
  PROVE  /\ lock' = Nobody
         /\ copy' = [b \in Actors |-> {}]
<1>1. \A b \in Actors : copy'[b] = {}
  BY DEF IInv, Types, Held, LetGo
<1> QED
  BY <1>1 DEF IInv, Types, LetGo

\* The list saved is a sound one, and the lock is let go.
LEMMA SavedList ==
  ASSUME IInv, NEW a \in Actors, lock = a, LetGo(a), requests' \in SUBSET Row,
         Distinct(requests'), UNCHANGED now, Types',
         knock'.pc # "adding", \A o \in Owners : owner'[o].pc = "idle"
  PROVE  IInv'
<1>1. lock' = Nobody /\ copy' = [b \in Actors |-> {}]
  BY LetGoOfTheLock
<1>2. Nobody \notin Actors
  BY StoresOK DEF Actors
<1>3. Held'
  BY <1>1, <1>2 DEF Held
<1> QED
  BY <1>3 DEF IInv, Waiting, RowsDistinct

LEMMA SaveKnockStep ==
  ASSUME IInv, SaveKnock
  PROVE  /\ IInv'
         /\ \A k \in Keys : IsPending(requests', k) => IsPending(requests, k) \/ k = knock.key
<1> DEFINE rows == Unexpired(copy[TheHost], knock.stamp)
           new == [key |-> knock.key, host |-> knock.host, denied |-> FALSE,
                   at |-> knock.stamp]
<1>1. TheHost \in Actors /\ TheHost \notin Owners
  BY StoresOK DEF Actors
<1>2. /\ lock = TheHost /\ LetGo(TheHost) /\ knock' = NoKnock
      /\ UNCHANGED <<now, owner>>
      /\ requests' \in Added(rows, new) \/ UNCHANGED requests
  BY DEF SaveKnock, IInv, Held
<1>3. copy[TheHost] \subseteq requests /\ rows \subseteq requests
  BY <1>1, <1>2 DEF IInv, Held, Unexpired
<1>4. rows \in SUBSET Row /\ Distinct(rows) /\ new \in Row /\ ~new.denied
  <2>1. Distinct(rows)
    BY <1>3, DistinctPart DEF IInv, RowsDistinct
  <2>2. knock.pc # "idle"
    BY DEF SaveKnock
  <2>3. knock.key \in Keys /\ knock.host \in Hosts /\ knock.stamp \in Nat
    BY <2>2 DEF IInv, Types
  <2> QED
    BY <1>3, <2>1, <2>3 DEF IInv, Types, Row
<1>5. /\ requests' \in SUBSET Row /\ Distinct(requests')
      /\ \A r \in requests' : r = new \/ r \in requests
  <2>1. CASE requests' \in Added(rows, new)
    BY <1>3, <1>4, <2>1, AddedDistinct
  <2>2. CASE UNCHANGED requests
    BY <2>2 DEF IInv, Types, RowsDistinct
  <2> QED
    BY <1>2, <2>1, <2>2
<1>6. \A o \in Owners : owner'[o].pc = "idle"
  BY <1>1, <1>2 DEF IInv, Held
<1>7. copy' = [b \in Actors |-> {}]
  BY <1>1, <1>2, LetGoOfTheLock
<1>8. Types'
  BY <1>2, <1>5, <1>7 DEF IInv, Types, NoKnock
<1>9. IInv'
  BY <1>1, <1>2, <1>5, <1>6, <1>8, SavedList DEF NoKnock
<1> QED
  BY <1>5, <1>9 DEF IsPending

\* An owner's decision takes rows off the list or marks one.
LEMMA SaveDecision ==
  ASSUME IInv, NEW o \in Owners, RemoveApproved(o) \/ Deny(o)
  PROVE  /\ IInv'
         /\ \A k \in Keys : IsPending(requests', k) => IsPending(requests, k)
<1> DEFINE Marked(r) == [r EXCEPT !.denied = TRUE, !.at = now]
           k0 == owner[o].key
<1>1. o \in Actors /\ o # TheHost
  BY StoresOK DEF Actors
<1>2. /\ lock = o /\ LetGo(o) /\ owner' = [owner EXCEPT ![o] = Undecided]
      /\ UNCHANGED <<now, knock>>
  BY DEF RemoveApproved, Deny, Save, IInv, Held
<1>3. \/ requests' = {r \in copy[o] : r.key # k0}
      \/ requests' = {IF r.key = k0 THEN Marked(r) ELSE r : r \in copy[o]}
      \/ UNCHANGED requests
  BY DEF RemoveApproved, Deny, Save
<1>4. copy[o] \subseteq requests /\ requests \subseteq Row /\ Distinct(requests) /\ now \in Nat
  BY <1>1, <1>2 DEF IInv, Held, Types, RowsDistinct
<1>5. \A r \in Row : /\ Marked(r) \in Row /\ Marked(r).denied
                     /\ Marked(r).key = r.key /\ Marked(r).host = r.host
  BY <1>4 DEF Row
<1>6. /\ requests' \in SUBSET Row /\ Distinct(requests')
      /\ \A r \in requests' : r \in requests \/ r.denied
  <2>1. CASE requests' = {r \in copy[o] : r.key # k0}
    BY <1>4, <2>1, DistinctPart
  <2>2. CASE requests' = {IF r.key = k0 THEN Marked(r) ELSE r : r \in copy[o]}
    <3>1. \A r \in requests' : \E q \in requests :
             /\ q \in Row /\ r = IF q.key = k0 THEN Marked(q) ELSE q
      BY <1>4, <2>2
    <3>2. ASSUME NEW r \in requests'
          PROVE  r \in Row /\ (r \in requests \/ r.denied)
      <4>1. PICK q \in requests : q \in Row /\ r = IF q.key = k0 THEN Marked(q) ELSE q
        BY <3>1
      <4>2. Marked(q) \in Row /\ Marked(q).denied
        BY <1>5, <4>1
      <4> HIDE DEF Marked
      <4> QED
        BY <4>1, <4>2
    <3>3. ASSUME NEW r \in requests', NEW q \in requests',
                 r.key = q.key \/ (~r.denied /\ ~q.denied /\ r.host = q.host)
          PROVE  r = q
      <4>1. PICK r0 \in requests : r0 \in Row /\ r = IF r0.key = k0 THEN Marked(r0) ELSE r0
        BY <3>1
      <4>2. PICK q0 \in requests : q0 \in Row /\ q = IF q0.key = k0 THEN Marked(q0) ELSE q0
        BY <3>1
      <4>3. /\ r.key = r0.key /\ r.host = r0.host /\ (~r.denied => r = r0)
            /\ q.key = q0.key /\ q.host = q0.host /\ (~q.denied => q = q0)
        BY <1>5, <4>1, <4>2
      <4>4. r0 = q0
        BY <1>4, <3>3, <4>3 DEF Distinct
      <4> QED
        BY <4>1, <4>2, <4>4
    <3>4. Distinct(requests')
      BY <3>3 DEF Distinct
    <3> QED
      BY <3>2, <3>4
  <2>3. CASE UNCHANGED requests
    BY <1>4, <2>3
  <2> QED
    BY <1>3, <2>1, <2>2, <2>3
<1>7. knock'.pc # "adding" /\ \A p \in Owners : owner'[p].pc = "idle"
  BY <1>1, <1>2 DEF IInv, Held, Types, Undecided
<1>8. copy' = [b \in Actors |-> {}]
  BY <1>1, <1>2, LetGoOfTheLock
<1>9. Types'
  BY <1>2, <1>6, <1>8 DEF IInv, Types, Undecided
<1>10. IInv'
  BY <1>1, <1>2, <1>6, <1>7, <1>9, SavedList
<1> QED
  BY <1>6, <1>10 DEF IsPending

LEMMA ApproveKeyStep == ASSUME IInv, NEW o \in Owners, ApproveKey(o) PROVE IInv'
<1>1. o \in Actors /\ o # TheHost
  BY StoresOK DEF Actors
<1>2. lock = o /\ UNCHANGED <<now, requests, knock>>
  BY DEF ApproveKey, IInv, Held
<1>3. CASE UNCHANGED <<lock, copy>> /\ owner' = [owner EXCEPT ![o].pc = "remove"]
  <2>1. Types'
    BY <1>2, <1>3 DEF IInv, Types
  <2>2. Held'
    BY <1>2, <1>3 DEF IInv, Types, Held
  <2>3. Waiting'
    BY <1>2, <1>3 DEF IInv, Types, Waiting
  <2> QED
    BY <1>2, <2>1, <2>2, <2>3 DEF IInv, RowsDistinct
<1>4. CASE LetGo(o) /\ owner' = [owner EXCEPT ![o] = Undecided]
  <2>1. knock'.pc # "adding" /\ \A p \in Owners : owner'[p].pc = "idle"
    BY <1>1, <1>2, <1>4 DEF IInv, Held, Types, Undecided
  <2>2. copy' = [b \in Actors |-> {}]
    BY <1>1, <1>2, <1>4, LetGoOfTheLock
  <2>3. Types'
    BY <1>2, <1>4, <2>2 DEF IInv, Types, Undecided
  <2> QED
    BY <1>1, <1>2, <1>4, <2>1, <2>3, SavedList DEF IInv, Types, RowsDistinct
<1> QED
  BY <1>3, <1>4 DEF ApproveKey

LEMMA DeathsAndLists ==
  ASSUME IInv,
         \/ HostDies \/ (\E o \in Owners : OwnerDies(o)) \/ Tick \/ RevokePairingTokens
         \/ (\E k \in Keys : ForgetAuthorizedClient(k)) \/ \E t \in Tokens : IssuePairingToken(t)
  PROVE  IInv' /\ UNCHANGED requests
<1>1. CASE HostDies
  <2>1. TheHost \in Actors /\ Nobody \notin Actors /\ TheHost \notin Owners
    BY StoresOK DEF Actors
  <2>2. LetGo(TheHost) /\ knock' = NoKnock /\ UNCHANGED <<now, requests, owner>>
    BY <1>1 DEF HostDies, files
  <2>3. Types'
    BY <2>1, <2>2 DEF IInv, Types, LetGo, NoKnock
  <2>4. Held'
    BY <2>1, <2>2 DEF IInv, Types, Held, LetGo, NoKnock
  <2> QED
    BY <2>2, <2>3, <2>4 DEF IInv, Waiting, RowsDistinct
<1>2. ASSUME NEW o \in Owners, OwnerDies(o) PROVE IInv' /\ UNCHANGED requests
  <2>1. o \in Actors /\ Nobody \notin Actors /\ o # TheHost /\ lock = o
    BY <1>2, StoresOK DEF Actors, OwnerDies, IInv, Held
  <2>2. LetGo(o) /\ owner' = [owner EXCEPT ![o] = Undecided] /\ UNCHANGED <<now, requests, knock>>
    BY <1>2 DEF OwnerDies, files
  <2>3. Types'
    BY <2>1, <2>2 DEF IInv, Types, LetGo, Undecided
  <2>4. knock'.pc # "adding" /\ \A p \in Owners : owner'[p].pc = "idle"
    BY <2>1, <2>2 DEF IInv, Held, Types, Undecided
  <2> QED
    BY <2>1, <2>2, <2>3, <2>4, SavedList DEF IInv, Types, RowsDistinct
<1>3. CASE Tick \/ RevokePairingTokens \/ (\E k \in Keys : ForgetAuthorizedClient(k))
           \/ \E t \in Tokens : IssuePairingToken(t)
  <2>1. UNCHANGED <<requests, lock, copy, owner, knock>> /\ now' \in Nat
    BY <1>3 DEF Tick, RevokePairingTokens, ForgetAuthorizedClient, IssuePairingToken, files,
                IInv, Types
  <2>2. Types'
    BY <2>1 DEF IInv, Types
  <2> QED
    BY <2>1, <2>2, AwayFromTheRequests
<1> QED
  BY <1>1, <1>2, <1>3

-----------------------------------------------------------------------------
(* The tokens.                                                             *)

\* Steps that leave the tokens alone and do not hand one over keep the invariant.
LEMMA TokensUntouched ==
  ASSUME TokenInv, UNCHANGED <<tokens, issued, letIn>>,
         knock'.pc = "redeem" => knock'.token \in Tokens,
         knock'.pc = "remember" => UNCHANGED knock
  PROVE  TokenInv'
BY DEF TokenInv, Spent

LEMMA RedeemStep ==
  ASSUME IInv, TokenInv, RedeemPairingToken
  PROVE  TokenInv'
<1>1. CASE Consume
  <2>1. PICK i \in Live : /\ i.token = knock.token
                         /\ \/ /\ tokens' = Live \ {i}
                               /\ knock' = [knock EXCEPT !.pc = "remember"]
                            \/ /\ Live = {i} /\ UNCHANGED tokens
                               /\ knock' = [knock EXCEPT !.pc = "remember", !.stuck = TRUE]
    BY <1>1 DEF Consume
  <2>2. /\ knock'.pc = "remember" /\ knock'.token = knock.token
        /\ knock.token \in Tokens /\ UNCHANGED <<issued, letIn>>
    BY <2>1 DEF RedeemPairingToken, IInv, Types, TokenInv
  <2>3. CASE UNCHANGED tokens /\ knock'.stuck
    BY <2>2, <2>3 DEF TokenInv, Spent
  <2>4. CASE tokens' = Live \ {i}
    <3>1. i \in tokens /\ tokens' \subseteq tokens /\ i \notin tokens'
      BY <2>4 DEF Live
    <3>2. letIn[knock.token] = {} /\ knock.token \in issued
      BY <2>1, <2>2, <3>1 DEF TokenInv, Spent
    <3>3. \A j \in tokens' : j.token # knock.token
      BY <2>1, <3>1 DEF TokenInv
    <3> QED
      BY <2>2, <3>1, <3>2, <3>3 DEF TokenInv, Spent
  <2> QED
    BY <2>1, <2>3, <2>4 DEF IInv, Types
<1>2. CASE knock' = [knock EXCEPT !.pc = "filed"] /\ UNCHANGED tokens
  BY <1>2, TokensUntouched DEF RedeemPairingToken, IInv, Types
<1> QED
  BY <1>1, <1>2 DEF RedeemPairingToken

LEMMA RememberStep ==
  ASSUME IInv, TokenInv, RememberTokenKey
  PROVE  TokenInv'
<1>1. /\ knock.pc = "remember" /\ knock'.pc = "check" /\ UNCHANGED <<tokens, issued>>
  BY DEF RememberTokenKey, IInv, Types
<1>2. CASE ~knock.stuck /\ letIn' = [letIn EXCEPT ![knock.token] = @ \cup {knock.key}]
  <2>1. letIn'[knock.token] = {knock.key}
    BY <1>1, <1>2 DEF TokenInv
  <2> QED
    BY <1>1, <1>2, <2>1 DEF TokenInv, Spent
<1>3. CASE UNCHANGED letIn
  BY <1>1, <1>3, TokensUntouched
<1> QED
  BY <1>2, <1>3 DEF RememberTokenKey

LEMMA IssueStep ==
  ASSUME TokenInv, NEW t \in Tokens, IssuePairingToken(t)
  PROVE  TokenInv'
<1> DEFINE new == [token |-> t, until |-> now + TokenTtl]
<1>1. PICK rest \in SUBSET Live : tokens' = rest \cup {new}
  <2>1. CASE tokens' = Live \cup {new}
    BY <2>1
  <2>2. CASE \E i \in Live : tokens' = (Live \ {i}) \cup {new}
    <3>1. PICK i \in Live : tokens' = (Live \ {i}) \cup {new}
      BY <2>2
    <3>2. Live \ {i} \in SUBSET Live
      OBVIOUS
    <3> QED
      BY <3>1, <3>2
  <2> QED
    BY <2>1, <2>2 DEF IssuePairingToken
<1>2. /\ t \notin issued /\ issued' = issued \cup {t} /\ UNCHANGED <<knock, letIn>>
      /\ rest \subseteq tokens
  BY <1>1 DEF IssuePairingToken, Live
<1>3. \A i \in tokens' : i = new \/ i \in tokens
  BY <1>1, <1>2
<1>4. (\A i \in tokens : i.token # t) /\ new.token = t
  BY <1>2 DEF TokenInv
<1>5. \A s \in Tokens : Spent(s) => s # t /\ Spent(s)'
  BY <1>2, <1>3, <1>4 DEF Spent
<1>6. \A i, j \in tokens' : i.token = j.token => i = j
  BY <1>3, <1>4 DEF TokenInv
<1> QED
  BY <1>2, <1>3, <1>4, <1>5, <1>6 DEF TokenInv

LEMMA TokenStep ==
  ASSUME IInv, TokenInv, [Next]_vars
  PROVE  TokenInv'
<1>1. CASE RedeemPairingToken
  BY <1>1, RedeemStep
<1>2. CASE RememberTokenKey
  BY <1>2, RememberStep
<1>3. ASSUME NEW t \in Tokens, IssuePairingToken(t) PROVE TokenInv'
  BY <1>3, IssueStep
<1>4. CASE RevokePairingTokens
  BY <1>4 DEF RevokePairingTokens, TokenInv, Spent
<1>5. ASSUME NEW k \in Keys, NEW h \in Hosts, NEW t \in issued \cup {NoToken},
             SettleProvenKey(k, h, t)
      PROVE  TokenInv'
  BY <1>5, TokensUntouched DEF SettleProvenKey, files, TokenInv
<1>6. CASE CheckTokenKey
  <2>1. knock'.pc \in {"idle", "filed"}
    BY <1>6 DEF CheckTokenKey, NoKnock, IInv, Types
  <2> QED
    BY <1>6, <2>1, TokensUntouched DEF CheckTokenKey, files
<1>7. CASE StampRequest \/ LoadForKnock \/ SaveKnock \/ HostDies
  <2>1. knock'.pc \in {"waiting", "adding", "idle"}
    <3>1. CASE StampRequest
      <4>1. knock' = [knock EXCEPT !.pc = "waiting", !.stamp = now]
        BY <3>1 DEF StampRequest
      <4> QED
        BY <4>1 DEF IInv, Types
    <3>2. CASE LoadForKnock
      BY <3>2 DEF LoadForKnock, IInv, Types
    <3>3. CASE SaveKnock \/ HostDies
      BY <3>3 DEF SaveKnock, HostDies, NoKnock
    <3> QED
      BY <1>7, <3>1, <3>2, <3>3
  <2> QED
    BY <1>7, <2>1, TokensUntouched DEF StampRequest, LoadForKnock, SaveKnock, HostDies, files
<1>8. ASSUME NEW o \in Owners,
             \/ \E k \in Keys, what \in {"approve", "deny"} : TakeUp(o, k, what)
             \/ ApproveKey(o) \/ RemoveApproved(o) \/ Deny(o) \/ OwnerDies(o)
      PROVE  TokenInv'
  <2>1. UNCHANGED <<tokens, issued, letIn, knock>>
    BY <1>8 DEF TakeUp, ApproveKey, RemoveApproved, Deny, Save, OwnerDies, files
  <2> QED
    BY <2>1, TokensUntouched DEF TokenInv
<1>9. CASE Tick \/ (\E k \in Keys : ForgetAuthorizedClient(k)) \/ UNCHANGED vars
  <2>1. UNCHANGED <<tokens, issued, letIn, knock>>
    BY <1>9 DEF Tick, ForgetAuthorizedClient, vars, files
  <2> QED
    BY <2>1, TokensUntouched DEF TokenInv
<1> QED
  BY <1>1, <1>2, <1>3, <1>4, <1>5, <1>6, <1>7, <1>8, <1>9 DEF Next, HostNext, OwnerNext

-----------------------------------------------------------------------------
(* The theorems.                                                           *)

LEMMA Initially == Init => IInv /\ TokenInv
BY StoresOK DEF Init, IInv, Types, Held, Waiting, RowsDistinct, Distinct, TokenInv, Actors,
                NoKnock, Undecided, Spent

LEMMA Preserved ==
  ASSUME IInv, TokenInv, [Next]_vars
  PROVE  IInv' /\ TokenInv'
<1>1. TokenInv'
  BY TokenStep
<1>2. CASE \/ \E k \in Keys, h \in Hosts, t \in issued \cup {NoToken} : SettleProvenKey(k, h, t)
           \/ RedeemPairingToken \/ RememberTokenKey \/ CheckTokenKey \/ StampRequest
  BY <1>1, <1>2, HostBeforeTheLock DEF TokenInv
<1>3. CASE LoadForKnock
  BY <1>1, <1>3, LoadForKnockStep
<1>4. CASE SaveKnock
  BY <1>1, <1>4, SaveKnockStep
<1>5. ASSUME NEW o \in Owners, NEW k \in Keys, NEW what \in {"approve", "deny"},
             TakeUp(o, k, what)
      PROVE  IInv'
  BY <1>5, TakeUpStep
<1>6. ASSUME NEW o \in Owners, ApproveKey(o) \/ RemoveApproved(o) \/ Deny(o)
      PROVE  IInv'
  BY <1>6, ApproveKeyStep, SaveDecision
<1>7. CASE \/ HostDies \/ (\E o \in Owners : OwnerDies(o)) \/ Tick \/ RevokePairingTokens
           \/ (\E k \in Keys : ForgetAuthorizedClient(k))
           \/ \E t \in Tokens : IssuePairingToken(t)
  BY <1>1, <1>7, DeathsAndLists
<1>8. CASE UNCHANGED vars
  BY <1>1, <1>8 DEF vars, files, IInv, Types, Held, Waiting, RowsDistinct
<1> QED
  BY <1>1, <1>2, <1>3, <1>4, <1>5, <1>6, <1>7, <1>8 DEF Next, HostNext, OwnerNext

LEMMA Invariance == Spec => [](IInv /\ TokenInv)
<1>1. IInv /\ TokenInv /\ [Next]_vars => (IInv /\ TokenInv)'
  BY Preserved
<1> QED
  BY Initially, <1>1, PTL DEF Spec

\* However many owners and devices write the list at once, it has one row of a device
\* and one waiting from an address (AccessRequests::Add under ChangeRequests' lock).
THEOREM OneRowOfEach == Spec => []RowsDistinct
<1>1. IInv => RowsDistinct
  BY DEF IInv
<1> QED
  BY <1>1, Invariance, PTL

\* ApproveAccessRequest writes the key while the request is still on file.
THEOREM ApprovalsAreCurrent == Spec => ApprovedWhilePending
<1>1. IInv /\ [Next]_vars =>
        [\A o \in Owners : owner[o].pc = "approve" /\ owner'[o].pc = "remove"
           => IsPending(requests, owner[o].key)]_vars
  BY DEF IInv, Waiting
<1> QED
  BY <1>1, Invariance, PTL DEF Spec, ApprovedWhilePending

\* Only a knock puts a request on the list: no save of an older list brings one back.
THEOREM SettledStaysSettled == Spec => NoRequestComesBack
<1>1. ASSUME IInv, TokenInv, [Next]_vars, NEW k \in Keys,
             IsPending(requests', k), ~IsPending(requests, k)
      PROVE  knock.pc = "adding" /\ knock.key = k
  <2>1. requests' # requests
    BY <1>1
  <2>2. CASE SaveKnock
    BY <1>1, <2>2, SaveKnockStep DEF SaveKnock
  <2>3. ASSUME NEW o \in Owners, RemoveApproved(o) \/ Deny(o) PROVE FALSE
    BY <1>1, <2>3, SaveDecision
  <2>4. SaveKnock \/ \E o \in Owners : RemoveApproved(o) \/ Deny(o)
    BY <1>1, <2>1 DEF Next, HostNext, OwnerNext, SettleProvenKey, RedeemPairingToken,
       RememberTokenKey, CheckTokenKey, StampRequest, LoadForKnock, HostDies, TakeUp,
       ApproveKey, OwnerDies, ForgetAuthorizedClient, IssuePairingToken, RevokePairingTokens,
       Tick, vars, files
  <2> QED
    BY <2>2, <2>3, <2>4
<1>2. IInv /\ TokenInv /\ [Next]_vars =>
        [\A k \in Keys : IsPending(requests', k) /\ ~IsPending(requests, k)
           => knock.pc = "adding" /\ knock.key = k]_vars
  BY <1>1
<1> QED
  BY <1>2, Invariance, PTL DEF Spec, NoRequestComesBack

\* A pairing token is used up before its key is written: a host that dies in between, or a
\* second device with the same token, lets in no other, as long as the file of the token that
\* was used up could be removed (RedeemPairingToken takes that for granted).
THEOREM TokensLetInOnce == Spec => []OneKeyPerToken
<1>1. ASSUME TokenInv, NEW t \in Tokens PROVE Cardinality(letIn[t]) <= 1
  <2>1. CASE letIn[t] = {}
    <3>1. Cardinality(letIn[t]) = 0
      BY <2>1, FS_EmptySet
    <3> QED
      BY <3>1
  <2>2. CASE \E k : letIn[t] = {k}
    <3>1. Cardinality(letIn[t]) = 1
      BY <2>2, FS_Singleton, Zenon
    <3> QED
      BY <3>1
  <2> QED
    BY <1>1, <2>1, <2>2 DEF TokenInv
<1>2. TokenInv => OneKeyPerToken
  BY <1>1 DEF OneKeyPerToken
<1> QED
  BY <1>2, Invariance, PTL

-----------------------------------------------------------------------------
(* The lengths of the lists.                                               *)

Bounded(S, n) == IsFiniteSet(S) /\ Cardinality(S) <= n

\* The files hold what they should and no list is longer than it may be.
ListInv ==
  /\ now \in Times
  /\ requests \subseteq Rows /\ Bounded(requests, MaxRequests)
  /\ allowed \subseteq Keys /\ Bounded(allowed, MaxAllowed)
  /\ tokens \subseteq [token : Tokens, until : 1..MaxNow + TokenTtl]
  /\ Bounded(tokens, MaxTokens)
  /\ copy \in [Actors -> SUBSET Rows]
  /\ knock.stamp \in Times
  /\ letIn \in [Tokens -> SUBSET Keys]

\* Part of a list is no longer than the list.
LEMMA PartBounded ==
  ASSUME NEW T, NEW S \in SUBSET T, NEW n \in Nat, Bounded(T, n)
  PROVE  Bounded(S, n)
<1>1. IsFiniteSet(S) /\ Cardinality(S) <= Cardinality(T)
  BY FS_Subset DEF Bounded
<1>2. Cardinality(S) \in Nat /\ Cardinality(T) \in Nat
  BY <1>1, FS_CardinalityType DEF Bounded
<1> QED
  BY <1>1, <1>2 DEF Bounded

\* A list that is not full has room for one more.
LEMMA OneMoreBounded ==
  ASSUME NEW S, IsFiniteSet(S), NEW n \in Nat, Cardinality(S) < n, NEW x
  PROVE  Bounded(S \cup {x}, n)
<1>1. IsFiniteSet(S \cup {x})
      /\ Cardinality(S \cup {x}) = IF x \in S THEN Cardinality(S) ELSE Cardinality(S) + 1
  BY FS_AddElement, Zenon
<1>2. Cardinality(S) \in Nat
  BY FS_CardinalityType
<1> QED
  BY <1>1, <1>2 DEF Bounded

\* A list that loses one row for another is no longer than before.
LEMMA ExchangeBounded ==
  ASSUME NEW S, NEW n \in Nat, Bounded(S, n), NEW r \in S, NEW x
  PROVE  Bounded((S \ {r}) \cup {x}, n)
<1>1. IsFiniteSet(S \ {r})
      /\ Cardinality(S \ {r}) = IF r \in S THEN Cardinality(S) - 1 ELSE Cardinality(S)
  BY FS_RemoveElement, Zenon DEF Bounded
<1>2. Cardinality(S) \in Nat /\ Cardinality(S) <= n
  BY FS_CardinalityType DEF Bounded
<1>3. Cardinality(S \ {r}) < n
  BY <1>1, <1>2
<1> QED
  BY <1>1, <1>3, OneMoreBounded

\* AccessRequests::Add keeps a list within its length.
LEMMA AddedBounded ==
  ASSUME NEW rows, NEW new, NEW after \in Added(rows, new), Bounded(rows, MaxRequests)
  PROVE  Bounded(after, MaxRequests)
<1> DEFINE kept == {r \in rows : ~Replaces(new, r)}
<1>1. MaxRequests \in Nat
  BY StoresOK
<1>2. Bounded(kept, MaxRequests)
  <2>1. kept \in SUBSET rows
    OBVIOUS
  <2> QED
    BY <1>1, <2>1, PartBounded
<1>3. CASE Cardinality(kept) < MaxRequests
  <2>1. after = kept \cup {new}
    BY <1>3 DEF Added
  <2> QED
    BY <1>1, <1>2, <1>3, <2>1, OneMoreBounded DEF Bounded
<1>4. CASE ~(Cardinality(kept) < MaxRequests)
  <2>1. after \in {(kept \ {r}) \cup {new} : r \in {q \in kept : \A p \in kept : q.at <= p.at}}
    BY <1>4 DEF Added
  <2>2. PICK r \in kept : after = (kept \ {r}) \cup {new}
    BY <2>1
  <2> QED
    BY <1>1, <1>2, <2>2, ExchangeBounded
<1> QED
  BY <1>3, <1>4

\* A list made of another, row by row, is no longer.
LEMMA ImageBounded ==
  ASSUME NEW rows, NEW n \in Nat, Bounded(rows, n), NEW after,
         NEW f \in Surjection(rows, after)
  PROVE  Bounded(after, n)
<1>1. IsFiniteSet(rows) /\ Cardinality(rows) <= n
  BY DEF Bounded
<1>2. IsFiniteSet(after) /\ Cardinality(after) <= Cardinality(rows)
  BY <1>1, FS_Surjection
<1>3. Cardinality(rows) \in Nat /\ Cardinality(after) \in Nat
  BY <1>1, <1>2, FS_CardinalityType
<1>4. Cardinality(after) <= n
  BY <1>1, <1>2, <1>3
<1> QED
  BY <1>2, <1>4 DEF Bounded

\* The limits are numbers.
LEMMA Limits ==
  /\ MaxRequests \in Nat /\ MaxAllowed \in Nat /\ MaxTokens \in Nat
  /\ MaxNow \in Nat /\ TokenTtl \in Nat \ {0} /\ 0 \in Times
BY StoresOK DEF Times

\* Whoever saves the requests saves a list within its length.
LEMMA SavedBounded ==
  ASSUME IInv, ListInv, SaveKnock \/ \E o \in Owners : RemoveApproved(o) \/ Deny(o)
  PROVE  requests' \subseteq Rows /\ Bounded(requests', MaxRequests)
<1>1. requests \subseteq Rows /\ Bounded(requests, MaxRequests) /\ now \in Times
  BY DEF ListInv
<1>2. CASE UNCHANGED requests
  BY <1>1, <1>2
<1>3. CASE SaveKnock /\ requests' # requests
  <2> DEFINE rows == Unexpired(copy[TheHost], knock.stamp)
             new == [key |-> knock.key, host |-> knock.host, denied |-> FALSE,
                     at |-> knock.stamp]
  <2>1. requests' \in Added(rows, new) /\ knock.pc = "adding"
    BY <1>3 DEF SaveKnock
  <2>2. rows \in SUBSET requests
    BY <2>1, StoresOK DEF IInv, Held, Unexpired, Actors
  <2>3. new \in Rows
    BY <2>1 DEF IInv, Types, ListInv, Rows
  <2> HIDE DEF rows, new
  <2>4. Bounded(rows, MaxRequests)
    BY <1>1, <2>2, Limits, PartBounded
  <2>5. Bounded(requests', MaxRequests)
    BY <2>1, <2>4, AddedBounded
  <2>6. \A r \in requests' : r = new \/ r \in rows
    BY <2>1 DEF Added
  <2> QED
    BY <1>1, <2>2, <2>3, <2>5, <2>6
<1>4. ASSUME NEW o \in Owners, RemoveApproved(o) \/ Deny(o), requests' # requests
      PROVE  requests' \subseteq Rows /\ Bounded(requests', MaxRequests)
  <2>1. copy[o] \in SUBSET requests
    BY <1>4 DEF RemoveApproved, Deny, IInv, Held, Actors
  <2>2. Bounded(copy[o], MaxRequests)
    BY <1>1, <2>1, Limits, PartBounded
  <2>3. CASE requests' = {r \in copy[o] : r.key # owner[o].key}
    <3>1. requests' \in SUBSET copy[o]
      BY <2>3
    <3> QED
      BY <1>1, <2>1, <2>2, <3>1, Limits, PartBounded
  <2>4. CASE requests' = {IF r.key = owner[o].key
                          THEN [r EXCEPT !.denied = TRUE, !.at = now] ELSE r : r \in copy[o]}
    <3>1. Bounded(requests', MaxRequests)
      <4> DEFINE f == [r \in copy[o] |-> IF r.key = owner[o].key
                                         THEN [r EXCEPT !.denied = TRUE, !.at = now] ELSE r]
      <4>1. f \in Surjection(copy[o], requests')
        BY <2>4 DEF Surjection
      <4> HIDE DEF f
      <4> QED
        BY <2>2, <4>1, Limits, ImageBounded
    <3>2. ASSUME NEW r \in copy[o]
          PROVE  r \in Rows /\ [r EXCEPT !.denied = TRUE, !.at = now] \in Rows
      BY <1>1, <2>1 DEF Rows
    <3> QED
      BY <2>4, <3>1, <3>2
  <2> QED
    BY <1>4, <2>3, <2>4 DEF RemoveApproved, Deny, Save
<1> QED
  BY <1>2, <1>3, <1>4

\* What touches neither the lists nor the clock keeps the invariant.
LEMMA ListsUntouched ==
  ASSUME ListInv, UNCHANGED <<now, allowed, tokens, letIn>>,
         requests' \subseteq Rows /\ Bounded(requests', MaxRequests),
         copy' \in [Actors -> SUBSET Rows],
         knock'.stamp \in Times
  PROVE  ListInv'
BY DEF ListInv

\* A copy is made of rows.
LEMMA CopyOfRows ==
  ASSUME ListInv, NEW a \in Actors, Load(a) \/ LetGo(a)
  PROVE  copy' \in [Actors -> SUBSET Rows]
<1>1. Unexpired(requests, now) \in SUBSET Rows /\ {} \in SUBSET Rows
  BY DEF ListInv, Unexpired
<1> QED
  BY <1>1 DEF ListInv, Load, LetGo

LEMMA IssueBounded ==
  ASSUME ListInv, NEW t \in Tokens, IssuePairingToken(t)
  PROVE  tokens' \subseteq [token : Tokens, until : 1..MaxNow + TokenTtl]
         /\ Bounded(tokens', MaxTokens)
<1> DEFINE new == [token |-> t, until |-> now + TokenTtl]
<1>1. Live \in SUBSET tokens /\ Bounded(tokens, MaxTokens)
      /\ tokens \subseteq [token : Tokens, until : 1..MaxNow + TokenTtl]
  BY DEF Live, ListInv
<1>2. Bounded(Live, MaxTokens)
  BY <1>1, Limits, PartBounded
<1>3. new \in [token : Tokens, until : 1..MaxNow + TokenTtl]
  <2>1. now + TokenTtl \in 1..MaxNow + TokenTtl
    BY Limits DEF ListInv, Times
  <2> QED
    BY <2>1
<1>4. CASE Cardinality(Live) < MaxTokens /\ tokens' = Live \cup {new}
  <2>1. Bounded(tokens', MaxTokens)
    BY <1>2, <1>4, Limits, OneMoreBounded DEF Bounded
  <2> QED
    BY <1>1, <1>3, <1>4, <2>1
<1>5. ASSUME NEW i \in Live, tokens' = (Live \ {i}) \cup {new}
      PROVE  tokens' \subseteq [token : Tokens, until : 1..MaxNow + TokenTtl]
             /\ Bounded(tokens', MaxTokens)
  <2>1. Bounded(tokens', MaxTokens)
    BY <1>2, <1>5, Limits, ExchangeBounded
  <2> QED
    BY <1>1, <1>3, <1>5, <2>1
<1> QED
  BY <1>4, <1>5 DEF IssuePairingToken

\* Every step keeps the lists within their lengths.
LEMMA ListStep ==
  ASSUME IInv, TokenInv, ListInv, [Next]_vars
  PROVE  ListInv'
<1> USE DEF files
<1>1. ASSUME NEW k \in Keys, NEW h \in Hosts, NEW t \in issued \cup {NoToken},
             SettleProvenKey(k, h, t)
      PROVE  ListInv'
  <2>1. knock'.stamp = 0
    BY <1>1 DEF SettleProvenKey
  <2> QED
    BY <1>1, <2>1, Limits DEF SettleProvenKey, ListInv
<1>2. CASE RedeemPairingToken
  <2>1. tokens' \in SUBSET tokens
    BY <1>2 DEF RedeemPairingToken, Consume, Live
  <2>2. Bounded(tokens', MaxTokens)
    BY <2>1, Limits, PartBounded DEF ListInv
  <2>3. knock'.stamp = knock.stamp
    BY <1>2 DEF RedeemPairingToken, Consume, IInv, Types
  <2> QED
    BY <1>2, <2>1, <2>2, <2>3 DEF RedeemPairingToken, ListInv
<1>3. CASE RememberTokenKey
  <2>1. knock.key \in Keys /\ knock.token \in Tokens /\ knock'.stamp = knock.stamp
    BY <1>3 DEF RememberTokenKey, IInv, Types, TokenInv
  <2>2. CASE UNCHANGED <<allowed, letIn>>
    BY <1>3, <2>1, <2>2 DEF RememberTokenKey, ListInv
  <2>3. CASE /\ HasRoom /\ allowed' = allowed \cup {knock.key}
             /\ \/ UNCHANGED letIn
                \/ letIn' = [letIn EXCEPT ![knock.token] = @ \cup {knock.key}]
    <3>1. Bounded(allowed', MaxAllowed)
      BY <2>3, Limits, OneMoreBounded DEF HasRoom, ListInv, Bounded
    <3>2. letIn' \in [Tokens -> SUBSET Keys]
      BY <2>1, <2>3 DEF ListInv
    <3> QED
      BY <1>3, <2>1, <2>3, <3>1, <3>2 DEF RememberTokenKey, ListInv
  <2> QED
    BY <1>3, <2>2, <2>3 DEF RememberTokenKey
<1>4. CASE CheckTokenKey
  <2>1. knock'.stamp \in Times
    BY <1>4, Limits DEF CheckTokenKey, NoKnock, IInv, Types, ListInv
  <2> QED
    BY <1>4, <2>1 DEF CheckTokenKey, ListInv
<1>5. CASE StampRequest
  <2>1. knock' = [knock EXCEPT !.pc = "waiting", !.stamp = now]
    BY <1>5 DEF StampRequest
  <2>2. knock'.stamp \in Times
    BY <2>1 DEF IInv, Types, ListInv
  <2> QED
    BY <1>5, <2>2 DEF StampRequest, ListInv
<1>6. CASE LoadForKnock
  <2>1. copy' \in [Actors -> SUBSET Rows]
    BY <1>6, CopyOfRows DEF LoadForKnock, Actors
  <2>2. knock'.stamp = knock.stamp
    BY <1>6 DEF LoadForKnock, IInv, Types
  <2> QED
    BY <1>6, <2>1, <2>2 DEF LoadForKnock, ListInv
<1>7. CASE SaveKnock
  <2>1. copy' \in [Actors -> SUBSET Rows]
    BY <1>7, CopyOfRows DEF SaveKnock, Actors
  <2>2. knock'.stamp \in Times
    BY <1>7, Limits DEF SaveKnock, NoKnock
  <2> QED
    BY <1>7, <2>1, <2>2, SavedBounded, ListsUntouched DEF SaveKnock
<1>8. CASE HostDies
  <2>1. copy' \in [Actors -> SUBSET Rows]
    BY <1>8, CopyOfRows DEF HostDies, Actors
  <2>2. knock'.stamp \in Times
    BY <1>8, Limits DEF HostDies, NoKnock
  <2> QED
    BY <1>8, <2>1, <2>2 DEF HostDies, ListInv
<1>9. ASSUME NEW o \in Owners, NEW k \in Keys, NEW what \in {"approve", "deny"},
             TakeUp(o, k, what)
      PROVE  ListInv'
  <2>1. copy' \in [Actors -> SUBSET Rows]
    BY <1>9, CopyOfRows DEF TakeUp, Actors
  <2> QED
    BY <1>9, <2>1 DEF TakeUp, ListInv
<1>10. ASSUME NEW o \in Owners, ApproveKey(o)
       PROVE  ListInv'
  <2>1. UNCHANGED <<now, requests, tokens, knock, letIn>>
    BY <1>10 DEF ApproveKey
  <2>2. owner[o].key \in Keys
    <3>1. \E r \in requests : r.key = owner[o].key
      BY <1>10 DEF ApproveKey, IInv, Waiting, IsPending
    <3> QED
      BY <3>1 DEF ListInv, Rows
  <2>3. allowed' \subseteq Keys /\ Bounded(allowed', MaxAllowed)
    <3>1. CASE HasRoom /\ allowed' = allowed \cup {owner[o].key}
      BY <2>2, <3>1, Limits, OneMoreBounded DEF HasRoom, ListInv, Bounded
    <3>2. CASE allowed' = allowed
      BY <3>2 DEF ListInv
    <3>3. allowed' = allowed \/ (HasRoom /\ allowed' = allowed \cup {owner[o].key})
      BY <1>10 DEF ApproveKey
    <3> QED
      BY <3>1, <3>2, <3>3
  <2>4. copy' \in [Actors -> SUBSET Rows]
    <3>1. LetGo(o) \/ UNCHANGED copy
      BY <1>10 DEF ApproveKey
    <3> QED
      BY <3>1, CopyOfRows DEF Actors, ListInv
  <2> QED
    BY <2>1, <2>3, <2>4 DEF ListInv
<1>11. ASSUME NEW o \in Owners, RemoveApproved(o) \/ Deny(o)
       PROVE  ListInv'
  <2>1. LetGo(o) /\ UNCHANGED <<now, allowed, tokens, knock, letIn>>
    BY <1>11 DEF RemoveApproved, Deny, Save
  <2>2. copy' \in [Actors -> SUBSET Rows]
    BY <2>1, CopyOfRows DEF Actors
  <2>3. knock'.stamp \in Times
    BY <2>1 DEF ListInv
  <2> QED
    BY <1>11, <2>1, <2>2, <2>3, SavedBounded, ListsUntouched
<1>12. ASSUME NEW o \in Owners, OwnerDies(o)
       PROVE  ListInv'
  <2>1. copy' \in [Actors -> SUBSET Rows]
    BY <1>12, CopyOfRows DEF OwnerDies, Actors
  <2> QED
    BY <1>12, <2>1 DEF OwnerDies, ListInv
<1>13. ASSUME NEW k \in Keys, ForgetAuthorizedClient(k)
       PROVE  ListInv'
  <2>1. allowed' \in SUBSET allowed
    BY <1>13 DEF ForgetAuthorizedClient
  <2>2. Bounded(allowed', MaxAllowed)
    BY <2>1, Limits, PartBounded DEF ListInv
  <2> QED
    BY <1>13, <2>1, <2>2 DEF ForgetAuthorizedClient, ListInv
<1>14. ASSUME NEW t \in Tokens, IssuePairingToken(t)
       PROVE  ListInv'
  BY <1>14, IssueBounded DEF IssuePairingToken, ListInv
<1>15. CASE RevokePairingTokens
  <2>1. tokens' \in SUBSET tokens
    BY <1>15 DEF RevokePairingTokens
  <2>2. Bounded(tokens', MaxTokens)
    BY <2>1, Limits, PartBounded DEF ListInv
  <2> QED
    BY <1>15, <2>1, <2>2 DEF RevokePairingTokens, ListInv
<1>16. CASE Tick
  <2>1. now' \in Times
    BY <1>16, Limits DEF Tick, ListInv, Times
  <2> QED
    BY <1>16, <2>1 DEF Tick, ListInv
<1>17. CASE UNCHANGED vars
  BY <1>17 DEF vars, ListInv
<1> QED
  BY <1>1, <1>2, <1>3, <1>4, <1>5, <1>6, <1>7, <1>8, <1>9, <1>10, <1>11, <1>12, <1>13,
     <1>14, <1>15, <1>16, <1>17 DEF Next, HostNext, OwnerNext

\* The lists are short at the start.
LEMMA InitLists == Init => ListInv
<1> SUFFICES ASSUME Init PROVE ListInv
  OBVIOUS
<1>1. Bounded({}, MaxRequests) /\ Bounded({}, MaxAllowed) /\ Bounded({}, MaxTokens)
  BY FS_EmptySet, Limits DEF Bounded
<1> QED
  BY <1>1, Limits DEF Init, ListInv, NoKnock

\* Whoever writes the files, in whatever order, they stay well formed and none of their
\* lists grows past its limit: a full list of requests or tokens gives one up first, and
\* a full list of keys takes no more (Add, RememberAuthorizedKey, IssuePairingToken).
THEOREM ListsStayBounded == Spec => []TypeOK
<1>1. IInv /\ TokenInv /\ ListInv => TypeOK
  <2> SUFFICES ASSUME IInv, TokenInv, ListInv PROVE TypeOK
    OBVIOUS
  <2>1. knock \in [pc : {"idle", "redeem", "remember", "check", "filed", "waiting", "adding"},
                   key : Keys \cup {NoKey}, host : Hosts \cup {NoHost},
                   token : Tokens \cup {NoToken}, stuck : BOOLEAN, stamp : Times]
    BY DEF IInv, Types, ListInv
  <2>2. lock \in Actors \cup {Nobody} /\ issued \subseteq Tokens
    BY DEF IInv, Held, TokenInv
  <2> QED
    BY <2>1, <2>2 DEF IInv, Types, ListInv, Bounded, TypeOK
<1>2. IInv /\ TokenInv /\ ListInv /\ [Next]_vars => ListInv'
  BY ListStep
<1> QED
  BY <1>1, <1>2, InitLists, Invariance, PTL DEF Spec
=============================================================================
