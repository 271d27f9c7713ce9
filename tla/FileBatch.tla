------------------------------ MODULE FileBatch ------------------------------
(***************************************************************************)
(* What a file transfer promises the person who sends it: one batch at a   *)
(* time, its files put in the host's folder one after the other, and one   *)
(* verdict: Done only when all of them are there, Refused only when none   *)
(* is.  A Failed batch may have left any number of its first files, and    *)
(* files already under way may still land after the sender gave up.        *)
(***************************************************************************)
EXTENDS Naturals

CONSTANT NumFiles   \* files in a batch

VARIABLES batch,    \* the latest batch offered
          placed,   \* how many of its files are in the host's folder
          verdict   \* "None", "Pending", "Done", "Refused" or "Failed"

bvars == <<batch, placed, verdict>>

Start ==
  /\ verdict # "Pending"
  /\ batch' = batch + 1
  /\ placed' = 0
  /\ verdict' = "Pending"

\* A new batch could not be offered: the verdict on the last one is put away.
Withdraw ==
  /\ verdict # "Pending"
  /\ verdict' = "None"
  /\ UNCHANGED <<batch, placed>>

Place ==
  /\ verdict \in {"Pending", "Failed", "None"}
  /\ placed < NumFiles
  /\ placed' = placed + 1
  /\ UNCHANGED <<batch, verdict>>

Settle ==
  /\ verdict = "Pending"
  /\ verdict' \in {"Done", "Refused", "Failed"}
  /\ verdict' = "Done" => placed = NumFiles
  /\ verdict' = "Refused" => placed = 0
  /\ UNCHANGED <<batch, placed>>

BatchInit == batch = 0 /\ placed = 0 /\ verdict = "None"
BatchNext == Start \/ Withdraw \/ Place \/ Settle
BatchSpec == BatchInit /\ [][BatchNext]_bvars
=============================================================================
