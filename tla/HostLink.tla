------------------------------ MODULE HostLink ------------------------------
(***************************************************************************)
(* The link thread of a client: it dials the host, is let in or not, pumps *)
(* messages while it is, and dials again when the connection was lost or   *)
(* while the owner of the host has yet to approve the device.  This is the *)
(* link as the viewers of a screen and of a terminal set it up, with       *)
(* recoverLink on.  What a dial meets is the choice of the network and of  *)
(* the host.  The callbacks of the link are what its owner adds to these   *)
(* actions: onState where state changes, onReady(resumed) in BecomeReady.  *)
(***************************************************************************)
EXTENDS Integers

CONSTANTS
  Grace,         \* recoverGraceUs, in steps of time
  ApprovalWait   \* approvalWaitUs

ASSUME LinkOK == Grace \in Nat \ {0} /\ ApprovalWait \in Nat \ {0}

VARIABLES
  state,    \* state_
  at,       \* where in Loop and DialAndAdmit the link thread is
  lossAge,  \* time since linkLostAtUs_, Never while that is 0
  askAge,   \* time since approvalStartedUs_, likewise
  resumed,  \* resumed
  redial,   \* redial_
  stop      \* stop_, as Stop set it

link == <<state, at, lossAge, askAge, resumed, redial, stop>>

Never == -1
Recovering == lossAge # Never
Settled == state \in {"Refused", "Failed", "Ended"}

\* One step of time later, up to the limit that is watched.
Older(age, limit) == IF age = Never \/ age >= limit THEN age ELSE age + 1

LinkInit ==
  /\ state = "Idle" /\ at = "next" /\ lossAge = Never /\ askAge = Never
  /\ resumed = FALSE /\ redial = FALSE /\ stop = FALSE

Fail(s) == state' = s /\ at' = "off"

\* The thread sees stop_ and is done, as in WaitBeforeRedial, RunAuth and PumpReady.
SeeStop ==
  /\ stop /\ at \in {"next", "auth", "pump"} /\ at' = "off"
  /\ UNCHANGED <<state, lossAge, askAge, resumed, redial, stop>>

\* A lost connection was not dialled again within the time there is for that.
GiveUp ==
  /\ at = "next" /\ state # "AwaitingApproval" /\ Recovering /\ lossAge >= Grace
  /\ Fail("Failed")
  /\ UNCHANGED <<lossAge, askAge, resumed, redial, stop>>

\* The wait before a dial, if it is not the first, and the dial.
Dial ==
  /\ at = "next" /\ ~stop
  /\ state = "AwaitingApproval" \/ ~Recovering \/ lossAge < Grace
  /\ at' = "dial"
  /\ state' = IF Recovering \/ state = "AwaitingApproval" THEN state ELSE "Connecting"
  /\ UNCHANGED <<lossAge, askAge, resumed, redial, stop>>

\* AwaitEstablished: the host does not answer.
Unreachable ==
  /\ at = "dial"
  /\ IF Recovering THEN at' = "next" /\ UNCHANGED state ELSE Fail("Failed")
  /\ UNCHANGED <<lossAge, askAge, resumed, redial, stop>>

\* No socket, no trust in the key of the host, or no key of its own to show.
Untrusted == at = "dial" /\ Fail("Failed") /\ UNCHANGED <<lossAge, askAge, resumed, redial, stop>>

Established ==
  /\ at = "dial" /\ at' = "auth"
  /\ state' = IF Recovering \/ state = "AwaitingApproval" THEN state ELSE "Authing"
  /\ UNCHANGED <<lossAge, askAge, resumed, redial, stop>>

Admitted ==
  /\ at = "auth" /\ at' = "ready" /\ state' = "Ready"
  /\ UNCHANGED <<lossAge, askAge, resumed, redial, stop>>

\* Faulty variant of StillWorthAsking: a wait for approval has no end.
AlwaysWorthAsking(asked) == TRUE

\* KeepWaitingForApproval.
StillWorthAsking(asked) == asked < ApprovalWait

\* The host says that its owner has to approve the device first.
MustBeApproved ==
  /\ at = "auth" /\ askAge' = IF askAge = Never THEN 0 ELSE askAge
  /\ IF StillWorthAsking(askAge') THEN state' = "AwaitingApproval" /\ at' = "next"
     ELSE Fail("Refused")
  /\ UNCHANGED <<lossAge, resumed, redial, stop>>

\* The host does not answer the AUTH_START of a client that was let in before.
AuthTimedOut ==
  /\ at = "auth" /\ Recovering
  /\ IF state = "AwaitingApproval" /\ ~StillWorthAsking(askAge) THEN Fail("Refused")
     ELSE at' = "next" /\ UNCHANGED state
  /\ UNCHANGED <<lossAge, askAge, resumed, redial, stop>>

\* Any other answer, or none to a client that was not.
AuthRefused == at = "auth" /\ Fail("Refused") /\ UNCHANGED <<lossAge, askAge, resumed, redial, stop>>

\* Faulty variant of BecomeReady: the approval that came is still being waited for.
BecomeReadyStillAsking ==
  /\ at = "ready" /\ at' = "pump"
  /\ lossAge' = Never /\ redial' = FALSE
  /\ UNCHANGED <<state, askAge, resumed, stop>>

\* What Loop does after it said that the link is ready.
BecomeReady ==
  /\ at = "ready" /\ at' = "pump"
  /\ lossAge' = Never /\ askAge' = Never /\ redial' = FALSE
  /\ UNCHANGED <<state, resumed, stop>>

\* PumpReady returned: Loop after it.
Lose ==
  /\ at' = "next" /\ state' = "Recovering" /\ lossAge' = 0 /\ resumed' = TRUE
  /\ UNCHANGED <<askAge, stop>>

\* A redial was asked for.
Redialled == at = "pump" /\ ~stop /\ redial /\ redial' = FALSE /\ Lose

\* The connection broke, was closed or went silent.
Lost == at = "pump" /\ ~stop /\ Lose /\ UNCHANGED redial

\* ... closed by a host that took the device off its list.
Forgotten ==
  /\ at = "pump" /\ ~stop /\ Fail("Refused")
  /\ UNCHANGED <<lossAge, askAge, resumed, redial, stop>>

\* The link thread, with what it does whatever the network does ...
Auth == Admitted \/ MustBeApproved \/ AuthTimedOut \/ AuthRefused
LinkThread ==
  \/ SeeStop \/ GiveUp \/ Dial \/ Unreachable \/ Untrusted \/ Established
  \/ Auth \/ BecomeReady \/ Redialled

\* ... and with what may happen to a connection that is up.
LinkStep == LinkThread \/ Lost \/ Forgotten

\* RequestRedial and Stop.
RequestRedial == redial' = TRUE /\ UNCHANGED <<state, at, lossAge, askAge, resumed, stop>>
StopLink == stop' = TRUE /\ UNCHANGED <<state, at, lossAge, askAge, resumed, redial>>

\* No time passes while the thread goes from SetState(Ready) to onReady.
LinkAges ==
  /\ at # "ready"
  /\ lossAge' = Older(lossAge, Grace) /\ askAge' = Older(askAge, ApprovalWait)
  /\ UNCHANGED <<state, at, resumed, redial, stop>>

\* The clocks of a loss and of a wait for approval run as long as these last, and a link that
\* is up has none left over from before: one that is lost later, or has to be approved anew,
\* has all the time there is for that.
ClocksMatch ==
  /\ at \in {"ready", "pump"} => state = "Ready"
  /\ at = "pump" => ~Recovering /\ askAge = Never
  /\ state = "Recovering" => Recovering
  /\ state = "AwaitingApproval" => askAge # Never

LinkTypeOK ==
  /\ ClocksMatch
  /\ state \in {"Idle", "Connecting", "Authing", "Ready", "Recovering", "AwaitingApproval",
                "Refused", "Failed"}
  /\ at \in {"next", "dial", "auth", "ready", "pump", "off"}
  /\ lossAge \in Never..Grace /\ askAge \in Never..ApprovalWait
  /\ resumed \in BOOLEAN /\ redial \in BOOLEAN /\ stop \in BOOLEAN
=============================================================================
