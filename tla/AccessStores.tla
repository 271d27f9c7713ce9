---------------------------- MODULE AccessStores ----------------------------
(***************************************************************************)
(* The files that say who may use a host: the connection requests awaiting *)
(* the owner, the keys let in, and the pairing tokens in force.  The host's *)
(* HostAuth and the owner's windows and command lines change them from     *)
(* threads and processes of their own.                                     *)
(*                                                                         *)
(* Every change of a file is made under that file's lock.  A change of the *)
(* keys or the tokens asks for no other lock, so it is a single step; one  *)
(* of the requests is a load and a save, as an approval writes the keys in *)
(* between.  A write replaces its file at once, or fails and changes       *)
(* nothing; the file of the tokens is removed when no token is left, and a *)
(* removal that fails is taken for one that did not.  The death of a       *)
(* process lets go of its locks.                                           *)
(***************************************************************************)
EXTENDS Naturals, FiniteSets

CONSTANTS
  Keys, NoKey,     \* keys of devices
  Hosts, NoHost,   \* the addresses devices ask from, ports left out
  Tokens, NoToken, \* pairing tokens, each issued once
  Owners,          \* the places the owner decides at
  TheHost,         \* the host's receive thread
  Nobody,          \* holds no lock
  MaxRequests,     \* kMaxAccessRequests
  MaxAllowed,      \* kMaxAuthorizedKeys
  MaxTokens,       \* kMaxPairingTokens
  Ttl, TokenTtl,   \* kAccessRequestTtlSeconds, kPairingTokenTtlSeconds
  MaxNow           \* bound on the time

ASSUME StoresOK ==
  /\ NoKey \notin Keys /\ NoHost \notin Hosts /\ NoToken \notin Tokens
  /\ TheHost \notin Owners /\ Nobody \notin Owners \cup {TheHost}
  /\ MaxRequests \in Nat \ {0} /\ MaxAllowed \in Nat /\ MaxTokens \in Nat \ {0}
  /\ Ttl \in Nat \ {0} /\ TokenTtl \in Nat \ {0} /\ MaxNow \in Nat

Actors == Owners \cup {TheHost}

VARIABLES
  now,       \* NowUnixSeconds()
  requests,  \* access_requests
  allowed,   \* authorized_keys
  tokens,    \* pairing_tokens
  lock,      \* who holds the lock of access_requests
  copy,      \* actor -> the requests it loaded
  knock,     \* the device HostAuth is settling, how far it got, and whether the file of its
             \* token could not be removed
  owner,     \* owner -> the decision being carried out
  issued,    \* the tokens ever issued
  letIn      \* token -> the keys let in by it, none for which its file could not be removed

files == <<requests, allowed, tokens>>
vars == <<now, files, lock, copy, knock, owner, issued, letIn>>

NoKnock == [pc |-> "idle", key |-> NoKey, host |-> NoHost, token |-> NoToken, stuck |-> FALSE,
            stamp |-> 0]
Undecided == [pc |-> "idle", key |-> NoKey]

-----------------------------------------------------------------------------
(* The list of requests: at most one row of a key, and of those waiting at *)
(* most one from an address.                                               *)

Outlived(r, t) == r.at <= t /\ t - r.at >= Ttl

\* AccessRequests::Expire: what is left at time t; rows from later go as well.
Unexpired(rows, t) == {r \in rows : ~Outlived(r, t) /\ r.at <= t}

IsDenied(rows, k) == \E r \in rows : r.key = k /\ r.denied
IsPending(rows, k) == \E r \in rows : r.key = k /\ ~r.denied

Replaces(new, r) == r.key = new.key \/ (~r.denied /\ r.host = new.host)

\* Faulty variant of Added: a full list makes no room.
AddedBeyond(rows, new) ==
  LET kept == {r \in rows : ~Replaces(new, r)}
      oldest == {r \in kept : \A q \in kept : r.at <= q.at}
  IN  IF Cardinality(kept) <= MaxRequests THEN {kept \cup {new}}
      ELSE {(kept \ {r}) \cup {new} : r \in oldest}

\* AccessRequests::Add of a row not denied: the lists it may leave; a full list loses
\* one of its oldest rows.
Added(rows, new) ==
  LET kept == {r \in rows : ~Replaces(new, r)}
      oldest == {r \in kept : \A q \in kept : r.at <= q.at}
  IN  IF Cardinality(kept) < MaxRequests THEN {kept \cup {new}}
      ELSE {(kept \ {r}) \cup {new} : r \in oldest}

-----------------------------------------------------------------------------
(* ChangeRequests: the lock is taken and the file loaded, the change made  *)
(* and saved, the lock let go.                                             *)

\* Faulty variant of Load: the lock is not waited for.
LoadUnlocked(a) ==
  /\ lock' = a
  /\ copy' = [copy EXCEPT ![a] = Unexpired(requests, now)]

Load(a) ==
  /\ lock = Nobody
  /\ lock' = a
  /\ copy' = [copy EXCEPT ![a] = Unexpired(requests, now)]

LetGo(a) ==
  /\ lock' = IF lock = a THEN Nobody ELSE lock
  /\ copy' = [copy EXCEPT ![a] = {}]

-----------------------------------------------------------------------------
(* HostAuth, for a device that proved its key.                             *)

\* SettleProvenKey; a key on the list is let in and nothing changes.
SettleProvenKey(k, h, t) ==
  /\ knock.pc = "idle" /\ k \notin allowed
  /\ knock' = [pc |-> IF t = NoToken THEN "filed" ELSE "redeem",
               key |-> k, host |-> h, token |-> t, stuck |-> FALSE, stamp |-> 0]
  /\ UNCHANGED <<now, files, lock, copy, owner, issued, letIn>>

Live == {i \in tokens : i.until > now}

\* Faulty variant of RedeemPairingToken: the token stays in force.
RedeemAndKeep ==
  /\ knock.pc = "redeem"
  /\ \/ /\ \E i \in Live : i.token = knock.token
        /\ knock' = [knock EXCEPT !.pc = "remember"]
     \/ knock' = [knock EXCEPT !.pc = "filed"]
  /\ UNCHANGED <<now, files, lock, copy, owner, issued, letIn>>

\* The token is used up; the file of the last one may stay as it was all the same.
Consume ==
  \E i \in Live :
    /\ i.token = knock.token
    /\ \/ tokens' = Live \ {i} /\ knock' = [knock EXCEPT !.pc = "remember"]
       \/ /\ Live = {i} /\ UNCHANGED tokens
          /\ knock' = [knock EXCEPT !.pc = "remember", !.stuck = TRUE]

\* RedeemPairingToken: the token is consumed; or it is not in force, or the file cannot
\* be locked or written, and the device is one without a token.
RedeemPairingToken ==
  /\ knock.pc = "redeem"
  /\ \/ Consume
     \/ /\ knock' = [knock EXCEPT !.pc = "filed"]
        /\ UNCHANGED tokens
  /\ UNCHANGED <<now, requests, allowed, lock, copy, owner, issued, letIn>>

HasRoom == Cardinality(allowed) < MaxAllowed

\* RememberAuthorizedKey for the token's device, or the list is full or cannot be
\* written.
RememberTokenKey ==
  /\ knock.pc = "remember"
  /\ knock' = [knock EXCEPT !.pc = "check", !.stuck = FALSE]
  /\ \/ /\ HasRoom
        /\ allowed' = allowed \cup {knock.key}
        /\ letIn' = IF knock.stuck THEN letIn
                    ELSE [letIn EXCEPT ![knock.token] = @ \cup {knock.key}]
     \/ UNCHANGED <<allowed, letIn>>
  /\ UNCHANGED <<now, requests, tokens, lock, copy, owner, issued>>

\* The list is asked again: the owner may have taken the key off it.
CheckTokenKey ==
  /\ knock.pc = "check"
  /\ knock' = IF knock.key \in allowed THEN NoKnock ELSE [knock EXCEPT !.pc = "filed"]
  /\ UNCHANGED <<now, files, lock, copy, owner, issued, letIn>>

\* RememberAccessRequest reads the clock before it asks for the lock.
StampRequest ==
  /\ knock.pc = "filed"
  /\ knock' = [knock EXCEPT !.pc = "waiting", !.stamp = now]
  /\ UNCHANGED <<now, files, lock, copy, owner, issued, letIn>>

LoadForKnock ==
  /\ knock.pc = "waiting"
  /\ Load(TheHost)
  /\ knock' = [knock EXCEPT !.pc = "adding"]
  /\ UNCHANGED <<now, files, owner, issued, letIn>>

\* The device is told to wait; or that it is not paired, as it was denied or the file
\* cannot be written.
SaveKnock ==
  LET rows == Unexpired(copy[TheHost], knock.stamp) IN
  /\ knock.pc = "adding"
  /\ \/ /\ ~IsDenied(rows, knock.key)
        /\ requests' \in Added(rows, [key |-> knock.key, host |-> knock.host,
                                      denied |-> FALSE, at |-> knock.stamp])
     \/ UNCHANGED requests
  /\ LetGo(TheHost)
  /\ knock' = NoKnock
  /\ UNCHANGED <<now, allowed, tokens, owner, issued, letIn>>

-----------------------------------------------------------------------------
(* The owner.                                                              *)

\* ApproveAccessRequest and DenyAccessRequest find a request that is waiting.
TakeUp(o, k, what) ==
  /\ owner[o].pc = "idle"
  /\ Load(o)
  /\ IsPending(Unexpired(requests, now), k)
  /\ owner' = [owner EXCEPT ![o] = [pc |-> what, key |-> k]]
  /\ UNCHANGED <<now, files, knock, issued, letIn>>

\* Faulty variant of ApproveKey: the requests are let go of before they are saved.
ApproveKeyLettingGo(o) ==
  LET k == owner[o].key IN
  /\ owner[o].pc = "approve"
  /\ k \in allowed \/ HasRoom
  /\ allowed' = allowed \cup {k}
  /\ owner' = [owner EXCEPT ![o].pc = "remove"]
  /\ lock' = Nobody
  /\ UNCHANGED <<now, requests, tokens, copy, knock, issued, letIn>>

\* The key is put on the list, or is there already; or there is no room for it, or the
\* file cannot be written, and the request stays.
ApproveKey(o) ==
  LET k == owner[o].key IN
  /\ owner[o].pc = "approve"
  /\ \/ /\ k \in allowed \/ HasRoom
        /\ allowed' = allowed \cup {k}
        /\ owner' = [owner EXCEPT ![o].pc = "remove"]
        /\ UNCHANGED <<lock, copy>>
     \/ /\ k \notin allowed
        /\ owner' = [owner EXCEPT ![o] = Undecided]
        /\ LetGo(o)
        /\ UNCHANGED allowed
  /\ UNCHANGED <<now, requests, tokens, knock, issued, letIn>>

\* The decision is saved, or the file cannot be written.
Save(o, rows) ==
  /\ requests' = rows \/ UNCHANGED requests
  /\ LetGo(o)
  /\ owner' = [owner EXCEPT ![o] = Undecided]
  /\ UNCHANGED <<now, allowed, tokens, knock, issued, letIn>>

RemoveApproved(o) ==
  /\ owner[o].pc = "remove"
  /\ Save(o, {r \in copy[o] : r.key # owner[o].key})

\* AccessRequests::Deny: the row stays, marked, and its time starts again.
Deny(o) ==
  /\ owner[o].pc = "deny"
  /\ Save(o, {IF r.key = owner[o].key THEN [r EXCEPT !.denied = TRUE, !.at = now] ELSE r :
              r \in copy[o]})

ForgetAuthorizedClient(k) ==
  /\ k \in allowed
  /\ allowed' = allowed \ {k}
  /\ UNCHANGED <<now, requests, tokens, lock, copy, knock, owner, issued, letIn>>

\* A full list loses the token that would run out first.
IssuePairingToken(t) ==
  LET new == [token |-> t, until |-> now + TokenTtl]
      soonest == {i \in Live : \A j \in Live : i.until <= j.until}
  IN  /\ t \notin issued
      /\ issued' = issued \cup {t}
      /\ \/ Cardinality(Live) < MaxTokens /\ tokens' = Live \cup {new}
         \/ Cardinality(Live) >= MaxTokens
            /\ \E i \in soonest : tokens' = (Live \ {i}) \cup {new}
      /\ UNCHANGED <<now, requests, allowed, lock, copy, knock, owner, letIn>>

\* The file is removed, or stays as it was.
RevokePairingTokens ==
  /\ tokens # {}
  /\ tokens' \in {{}, tokens}
  /\ UNCHANGED <<now, requests, allowed, lock, copy, knock, owner, issued, letIn>>

-----------------------------------------------------------------------------
(* Processes that die, and time.                                           *)

HostDies ==
  /\ knock.pc # "idle"
  /\ knock' = NoKnock
  /\ LetGo(TheHost)
  /\ UNCHANGED <<now, files, owner, issued, letIn>>

OwnerDies(o) ==
  /\ owner[o].pc # "idle"
  /\ owner' = [owner EXCEPT ![o] = Undecided]
  /\ LetGo(o)
  /\ UNCHANGED <<now, files, knock, issued, letIn>>

Tick ==
  /\ now < MaxNow
  /\ now' = now + 1
  /\ UNCHANGED <<files, lock, copy, knock, owner, issued, letIn>>

Init ==
  /\ now = 0 /\ requests = {} /\ allowed = {} /\ tokens = {}
  /\ lock = Nobody /\ copy = [a \in Actors |-> {}]
  /\ knock = NoKnock /\ owner = [o \in Owners |-> Undecided]
  /\ issued = {} /\ letIn = [t \in Tokens |-> {}]

HostNext ==
  \/ \E k \in Keys, h \in Hosts, t \in issued \cup {NoToken} : SettleProvenKey(k, h, t)
  \/ RedeemPairingToken \/ RememberTokenKey \/ CheckTokenKey
  \/ StampRequest \/ LoadForKnock \/ SaveKnock \/ HostDies

OwnerNext ==
  \/ \E o \in Owners : \/ \E k \in Keys, what \in {"approve", "deny"} : TakeUp(o, k, what)
                       \/ ApproveKey(o) \/ RemoveApproved(o) \/ Deny(o) \/ OwnerDies(o)
  \/ \E k \in Keys : ForgetAuthorizedClient(k)
  \/ \E t \in Tokens : IssuePairingToken(t)
  \/ RevokePairingTokens

Next == HostNext \/ OwnerNext \/ Tick
Spec == Init /\ [][Next]_vars

-----------------------------------------------------------------------------
(* Properties.                                                             *)

Times == 0..MaxNow
Rows == [key : Keys, host : Hosts, denied : BOOLEAN, at : Times]

\* The files hold rows, keys and tokens, and no list is longer than it may be.
TypeOK ==
  /\ now \in Times
  /\ requests \subseteq Rows /\ Cardinality(requests) <= MaxRequests
  /\ allowed \subseteq Keys /\ Cardinality(allowed) <= MaxAllowed
  /\ tokens \subseteq [token : Tokens, until : 1..MaxNow + TokenTtl]
  /\ Cardinality(tokens) <= MaxTokens
  /\ lock \in Actors \cup {Nobody} /\ copy \in [Actors -> SUBSET Rows]
  /\ knock \in [pc : {"idle", "redeem", "remember", "check", "filed", "waiting", "adding"},
                key : Keys \cup {NoKey}, host : Hosts \cup {NoHost},
                token : Tokens \cup {NoToken}, stuck : BOOLEAN, stamp : Times]
  /\ owner \in [Owners -> [pc : {"idle", "approve", "remove", "deny"},
                           key : Keys \cup {NoKey}]]
  /\ issued \subseteq Tokens /\ letIn \in [Tokens -> SUBSET Keys]

Distinct(rows) ==
  \A r, q \in rows : r.key = q.key \/ (~r.denied /\ ~q.denied /\ r.host = q.host) => r = q

\* The owner never sees two requests of one device, nor two from one address: Add
\* erases what a request replaces, whatever was denied, lost or written meanwhile.
RowsDistinct == Distinct(requests)

\* A key is approved on a request still waiting in the file: between finding it and
\* writing the key nobody else has denied, approved or replaced it.
ApprovedWhilePending ==
  [][\A o \in Owners : owner[o].pc = "approve" /\ owner'[o].pc = "remove"
       => IsPending(requests, owner[o].key)]_vars

\* A request that is gone or settled comes back only by its device asking again, not
\* by somebody saving a list loaded before.
NoRequestComesBack ==
  [][\A k \in Keys : IsPending(requests', k) /\ ~IsPending(requests, k)
       => knock.pc = "adding" /\ knock.key = k]_vars

\* A pairing token lets in one device, once, however the host dies in between, what becomes
\* of the owner's list and whatever else is issued or revoked.  The documentation promises no
\* less; but a token redeemed while its emptied file cannot be removed stays in force, and
\* whom it lets in then is not counted here.
OneKeyPerToken == \A t \in Tokens : Cardinality(letIn[t]) <= 1

\* What the documentation promises: a row denied is kept until its time is up, or a full
\* list drops it to make room.
DenialHolds ==
  [][\A r \in requests : r.denied /\ ~Outlived(r, now)
       => r \in requests' \/ Cardinality(requests') = MaxRequests]_vars
=============================================================================
