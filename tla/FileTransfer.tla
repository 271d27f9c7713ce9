---------------------------- MODULE FileTransfer ----------------------------
(***************************************************************************)
(* Files sent over one connection: a FileUpload with its FileSender on the *)
(* client, the host's FileReceiver and FileStore for that peer, and the    *)
(* reliable stream between them.  The client's outbox for the stream is    *)
(* bounded: a record it refuses is back-pressure and is tried again, save  *)
(* for a FileCancel, which is sent once.  What the host answers is a few   *)
(* bytes per file and always fits.                                         *)
(*                                                                         *)
(* A thread of the client reads ahead of the sender, and a thread of the   *)
(* host writes behind the receiver, each by so much and no more: the host  *)
(* takes nothing off the stream while its disk does not keep up.           *)
(*                                                                         *)
(* The content of a file is the sequence of its chunks, a checksum the     *)
(* sequence of the chunks it has been fed.                                 *)
(***************************************************************************)
EXTENDS Naturals, Sequences, FiniteSets

CONSTANTS
  NumFiles,    \* files in a batch
  Size,        \* the chunks of each file
  MaxBatches,  \* bound on the batches offered
  Cap,         \* records the client's outbox and the stream hold
  ReadAhead,   \* kMaxReadAheadBytes, in chunks
  DiskRoom,    \* how many chunks may wait while DiskKeepingUp
  MaxTears,    \* bound on the ends of the stream that break
  MaxDamage,   \* bound on the chunks that reach the host altered
  MaxToggles   \* bound on the times the host's user switches file transfer off

ASSUME FilesOK ==
  /\ NumFiles \in Nat \ {0}
  /\ Size \in [1..NumFiles -> Nat]
  /\ MaxBatches \in Nat /\ Cap \in Nat \ {0}
  /\ ReadAhead \in Nat \ {0, 1} /\ DiskRoom \in Nat \ {0} /\ MaxTears \in Nat
  /\ MaxDamage \in Nat /\ MaxToggles \in Nat

VARIABLES
  snd,     \* the FileUpload with its FileSender; untold: the batches whose FileCancel found
           \* no room; all, read, popped: chunks of the batch sent, read ahead, let go since
  rcv,     \* the host's FileReceiver for this peer
  slot,    \* the FileStore's open part file; written: how far its writer thread got
  disk,    \* batch -> file -> what was put in place, or Missing
  up,      \* records on their way to the host
  down,    \* records on their way to the client
  link,    \* "up" or "lost"
  torn,    \* the ends whose half of the stream broke
  gone,    \* the peer is in gone_
  on,      \* the FileHost is running
  damage,  \* chunks altered so far
  toggles  \* times file transfer was switched off so far

vars == <<snd, rcv, slot, disk, up, down, link, torn, gone, on, damage, toggles>>

Files == 1..NumFiles
Batches == 1..MaxBatches
Missing == <<<<>>>>   \* no file has an empty chunk
Chunk(f, at) == <<f, at>>
Altered == <<0, 0>>
Content(f) == [at \in 1..Size[f] |-> Chunk(f, at)]
Total == Cardinality(UNION {{Chunk(f, at) : at \in 1..Size[f]} : f \in Files})

SndBusy == snd.state \in {"Offering", "Sending"}
Receiving == rcv.state = "Receiving"

NewSender == [state |-> "Idle", batch |-> 0, next |-> 1, file |-> 1, sent |-> 0,
              acked |-> 0, crc |-> <<>>, unanswered |-> FALSE, untold |-> {},
              all |-> 0, read |-> 0, popped |-> 0, failed |-> FALSE]
NewReceiver == [state |-> "Idle", batch |-> 0, file |-> 1, got |-> 0,
                crc |-> <<>>, accepting |-> TRUE]
Closed == [open |-> FALSE, data |-> <<>>, written |-> 0, sound |-> TRUE]

-----------------------------------------------------------------------------
(* The client's end.                                                       *)

\* Faulty variant of Sendable: room for one record is enough for two.
SendableOne(n) == link = "up" /\ "client" \notin torn /\ Len(up) < Cap

Sendable(n) == link = "up" /\ "client" \notin torn /\ Len(up) + n <= Cap

\* FileUpload::Begin: the next batch is offered, or the offer does not fit and
\* the sender is back to idle.
Begin ==
  /\ ~SndBusy /\ snd.next <= MaxBatches
  /\ LET offered == [NewSender EXCEPT !.state = "Offering", !.batch = snd.next,
                                      !.next = snd.next + 1, !.untold = snd.untold]
     IN  \/ /\ Sendable(1)
            /\ snd' = offered
            /\ up' = Append(up, [type |-> "Offer", batch |-> snd.next])
         \/ /\ ~Sendable(1)
            /\ snd' = [offered EXCEPT !.state = "Idle", !.next = snd.next]
            /\ UNCHANGED up
  /\ UNCHANGED <<rcv, slot, disk, down, link, torn, gone, on, damage, toggles>>

\* Finish; what the reader thread has read is of no use any more.
Settled(s, outcome) ==
  [s EXCEPT !.state = outcome, !.all = 0, !.read = 0, !.popped = 0, !.failed = FALSE]

\* Faulty variant of AbortSending: the peer is not told.
AbortSilently(s) ==
  /\ snd' = Settled(s, "Failed")
  /\ UNCHANGED up

\* FileSender::Abort: the peer is told if the record still fits.
AbortSending(s) ==
  \/ /\ Sendable(1)
     /\ snd' = Settled(s, "Failed")
     /\ up' = Append(up, [type |-> "Cancel", batch |-> s.batch])
  \/ /\ ~Sendable(1)
     /\ snd' = Settled([s EXCEPT !.untold = @ \cup {s.batch}], "Failed")
     /\ UNCHANGED up

OnAccept(m) ==
  /\ snd' = IF snd.state # "Offering" \/ m.batch # snd.batch THEN snd
            ELSE IF m.ok THEN [snd EXCEPT !.state = "Sending"] ELSE Settled(snd, "Refused")
  /\ UNCHANGED up

OnAck(m) ==
  LET counted == [snd EXCEPT !.acked = @ + 1]
      ours    == snd.state = "Sending" /\ m.batch = snd.batch
  IN  IF ours /\ m.ok /\ m.file # snd.acked + 1 THEN AbortSending(snd)
      ELSE /\ snd' = IF ~ours THEN snd
                     ELSE IF ~m.ok THEN Settled(snd, "Failed")
                     ELSE IF counted.acked >= NumFiles THEN Settled(counted, "Done")
                     ELSE counted
           /\ UNCHANGED up

\* Faulty variant of OnHostCancel: a cancel always reads as a refusal.
OnHostRefusal(m) ==
  /\ snd' = IF m.batch # snd.batch \/ ~SndBusy THEN snd ELSE Settled(snd, "Refused")
  /\ UNCHANGED up

OnHostCancel(m) ==
  /\ snd' = IF m.batch # snd.batch \/ ~SndBusy THEN snd
            ELSE Settled(snd, IF snd.state = "Offering" THEN "Refused" ELSE "Failed")
  /\ UNCHANGED up

ClientReceives ==
  /\ down # <<>>
  /\ down' = Tail(down)
  /\ LET m == Head(down)
     IN  CASE m.type = "Accept" -> OnAccept(m)
           [] m.type = "Ack"    -> OnAck(m)
           [] m.type = "Cancel" -> OnHostCancel(m)
  /\ UNCHANGED <<rcv, slot, disk, link, torn, gone, on, damage, toggles>>

\* FinishFile: the checksum of the current file, and on to the next one.
FileFinished(s) == [s EXCEPT !.file = @ + 1, !.sent = 0, !.crc = <<>>]

DoneRecord(s) == [type |-> "Done", batch |-> s.batch, file |-> s.file, crc |-> s.crc]

\* Faulty variant of RoomToRead: the chunk about to be read must fit as well.
RoomToReadWhole == snd.read + 1 - snd.popped < ReadAhead

RoomToRead == snd.read - snd.popped < ReadAhead

\* ReaderThread: the next chunk is read, or cannot be.
ReaderThread ==
  /\ SndBusy /\ ~snd.failed /\ snd.read < Total /\ RoomToRead
  /\ snd' \in {[snd EXCEPT !.read = @ + 1], [snd EXCEPT !.failed = TRUE]}
  /\ UNCHANGED <<rcv, slot, disk, up, down, link, torn, gone, on, damage, toggles>>

\* A chunk is ready, or none will be any more.
Pumpable == snd.read > snd.all \/ snd.failed \/ snd.read = Total

\* ReadAt lets go of the chunks that were sent before the one it looks for.
ReadAt(s) == [s EXCEPT !.popped = s.all]

\* SendOneChunk; a chunk the outbox refuses is kept for another time.
SendOneChunk ==
  LET data == Chunk(snd.file, snd.sent + 1)
      look == ReadAt(snd)
      fed  == [look EXCEPT !.crc = Append(@, data), !.sent = @ + 1, !.all = @ + 1]
      rec  == [type |-> "Chunk", batch |-> snd.batch, file |-> snd.file,
               at |-> snd.sent, data |-> data]
  IN  /\ snd.state = "Sending" /\ snd.file <= NumFiles /\ Pumpable
      /\ \/ /\ snd.sent >= Size[snd.file] /\ Sendable(1)
            /\ snd' = FileFinished(snd)
            /\ up' = Append(up, DoneRecord(snd))
         \/ /\ snd.sent < Size[snd.file] /\ snd.read = snd.all
            /\ AbortSending(snd)
         \/ /\ snd.sent < Size[snd.file] /\ snd.read > snd.all
            /\ IF fed.sent >= Size[snd.file] /\ Sendable(2)
               THEN /\ snd' = FileFinished(fed)
                    /\ up' = up \o <<rec, DoneRecord(fed)>>
               ELSE IF Sendable(1) THEN snd' = fed /\ up' = Append(up, rec)
               ELSE snd' = look /\ UNCHANGED up
      /\ UNCHANGED <<rcv, slot, disk, down, link, torn, gone, on, damage, toggles>>

\* The user stops the transfer.
Cancel ==
  /\ SndBusy
  /\ AbortSending(snd)
  /\ UNCHANGED <<rcv, slot, disk, down, link, torn, gone, on, damage, toggles>>

\* Ten seconds without an answer to the offer.
OfferTimeout ==
  /\ snd.state = "Offering"
  /\ AbortSending([snd EXCEPT !.unanswered = TRUE])
  /\ UNCHANGED <<rcv, slot, disk, down, link, torn, gone, on, damage, toggles>>

\* The upload learns that its link is no longer Ready, or its end of the stream broken.
ClientLinkLost ==
  /\ link = "lost" \/ "client" \in torn
  /\ SndBusy
  /\ snd' = Settled(snd, "Failed")
  /\ UNCHANGED <<rcv, slot, disk, up, down, link, torn, gone, on, damage, toggles>>

-----------------------------------------------------------------------------
(* The host's end.  Whatever the receiver answers goes out in the order it *)
(* was produced.                                                           *)

Answer(msgs) == down' = IF link = "up" /\ "host" \notin torn THEN down \o msgs ELSE down

\* Settle: a part file is closed once all that waits for it is written.
Written == slot.written = Len(slot.data)

CancelRecord == [type |-> "Cancel", batch |-> rcv.batch]
AckRecord(ok) == [type |-> "Ack", batch |-> rcv.batch, file |-> rcv.file, ok |-> ok]

\* FileReceiver::Abort: the open part file is thrown away.
AbortReceiving(r, msgs) ==
  /\ Written
  /\ rcv' = [r EXCEPT !.state = "Failed"]
  /\ slot' = Closed
  /\ Answer(msgs)
  /\ UNCHANGED disk

\* fits: the batch is within the limits and the free space.
OnOffer(m, fits) ==
  LET ok == rcv.accepting /\ ~Receiving /\ fits
  IN  /\ rcv' = IF ok THEN [NewReceiver EXCEPT !.state = "Receiving", !.batch = m.batch]
                ELSE rcv
      /\ Answer(<<[type |-> "Accept", batch |-> m.batch, ok |-> ok]>>)
      /\ UNCHANGED <<slot, disk>>

\* A record of the batch being received; anything else is ignored.
Current(m) == m.batch = rcv.batch /\ Receiving
Ignored == UNCHANGED <<rcv, slot, disk, down>>

\* opens: FileStore::Open found a free name and could create the part file.
OnChunk(m, opens) ==
  IF ~Current(m) THEN Ignored
  ELSE IF \/ m.file # rcv.file \/ m.at # rcv.got
          \/ rcv.got >= Size[rcv.file]
          \/ ~slot.open /\ ~opens
          \/ slot.open /\ ~slot.sound
       THEN AbortReceiving(rcv, <<CancelRecord>>)
       ELSE /\ rcv' = [rcv EXCEPT !.got = @ + 1, !.crc = Append(@, m.data)]
            /\ slot' = [slot EXCEPT !.open = TRUE, !.data = Append(@, m.data)]
            /\ UNCHANGED <<disk, down>>

\* Faulty variant of OnDone's checksum test: any checksum will do.
AnySum(m) == TRUE

SumMatches(m) == m.crc = rcv.crc

\* The file is put in place under its final name.
FilePlaced ==
  /\ Written
  /\ disk' = [disk EXCEPT ![rcv.batch][rcv.file] = slot.data]
  /\ slot' = Closed
  /\ rcv' = [rcv EXCEPT !.file = @ + 1, !.got = 0, !.crc = <<>>,
                        !.state = IF rcv.file >= NumFiles THEN "Done" ELSE @]
  /\ Answer(<<AckRecord(TRUE)>>)

\* moves: FileStore::Close could rename the part file.
OnDone(m, opens, moves) ==
  IF ~Current(m) THEN Ignored
  ELSE IF m.file # rcv.file \/ rcv.got # Size[rcv.file] \/ (~slot.open /\ ~opens)
       THEN AbortReceiving(rcv, <<CancelRecord>>)
       ELSE IF ~SumMatches(m) \/ ~slot.sound \/ ~moves
            THEN AbortReceiving(rcv, <<AckRecord(FALSE)>>)
            ELSE FilePlaced

OnCancel(m) == IF Current(m) THEN AbortReceiving(rcv, <<>>) ELSE Ignored

\* BulkServable, with DiskKeepingUp.
KeepingUp == Len(slot.data) - slot.written < DiskRoom

HostReceives ==
  /\ up # <<>> /\ KeepingUp
  /\ up' = Tail(up)
  /\ LET m == Head(up)
     IN  IF ~on THEN Ignored
         ELSE \E ok, opens \in BOOLEAN :
                CASE m.type = "Offer"  -> OnOffer(m, ok)
                  [] m.type = "Chunk"  -> OnChunk(m, opens)
                  [] m.type = "Done"   -> OnDone(m, opens, ok)
                  [] m.type = "Cancel" -> OnCancel(m)
  /\ UNCHANGED <<snd, link, torn, gone, on, damage, toggles>>

\* The store's writer thread writes the next chunk; when it cannot, the next Write or Close
\* of the slot will fail.
WriterThread ==
  /\ ~Written
  /\ \E sound \in {slot.sound, FALSE} :
       slot' = [slot EXCEPT !.written = @ + 1, !.sound = sound]
  /\ UNCHANGED <<snd, rcv, disk, up, down, link, torn, gone, on, damage, toggles>>

\* The host's user turns file transfer off or on again.
SetAccepting(yes) ==
  /\ on /\ rcv.accepting # yes
  /\ yes \/ toggles < MaxToggles
  /\ toggles' = IF yes THEN toggles ELSE toggles + 1
  /\ LET r == [rcv EXCEPT !.accepting = yes]
     IN  IF ~yes /\ Receiving THEN AbortReceiving(r, <<CancelRecord>>)
         ELSE rcv' = r /\ UNCHANGED <<slot, disk, down>>
  /\ UNCHANGED <<snd, up, link, torn, gone, on, damage>>

\* FileHost::Stop: the batch under way is cancelled and every peer forgotten.
StopFileHost ==
  /\ on /\ Written /\ toggles < MaxToggles
  /\ toggles' = toggles + 1
  /\ on' = FALSE
  /\ rcv' = NewReceiver
  /\ slot' = Closed
  /\ Answer(IF Receiving THEN <<CancelRecord>> ELSE <<>>)
  /\ UNCHANGED <<snd, disk, up, link, torn, gone, damage>>

StartFileHost ==
  /\ ~on
  /\ on' = TRUE
  /\ UNCHANGED <<snd, rcv, slot, disk, up, down, link, torn, gone, damage, toggles>>

\* DrainGone: the host drops the peer whose connection has ended, or its own end of the
\* stream broken.
DropPeer ==
  /\ gone /\ gone' = FALSE /\ Written
  /\ rcv' = [NewReceiver EXCEPT !.accepting = rcv.accepting]
  /\ slot' = Closed
  /\ UNCHANGED <<snd, disk, up, down, link, torn, on, damage, toggles>>

-----------------------------------------------------------------------------
(* The stream.                                                             *)

\* The connection ends: what the host has not handled is dropped, and of what is
\* on its way to the client only some beginning may have arrived.
LoseLink ==
  /\ link = "up"
  /\ link' = "lost" /\ gone' = TRUE
  /\ up' = <<>>
  /\ \E n \in 0..Len(down) : down' = SubSeq(down, 1, n)
  /\ UNCHANGED <<snd, rcv, slot, disk, torn, on, damage, toggles>>

\* BreakStream: what one end wrote and the other did not read is lost, and so is what it
\* writes from now on.  Only that end is told.
BreakStream(end) ==
  /\ link = "up" /\ end \notin torn /\ Cardinality(torn) < MaxTears
  /\ torn' = torn \cup {end}
  /\ IF end = "client"
     THEN /\ \E n \in 0..Len(up) : up' = SubSeq(up, 1, n)
          /\ UNCHANGED <<down, gone>>
     ELSE /\ \E n \in 0..Len(down) : down' = SubSeq(down, 1, n)
          /\ gone' = TRUE
          /\ UNCHANGED up
  /\ UNCHANGED <<snd, rcv, slot, disk, link, on, damage, toggles>>

\* A chunk reaches the host other than the sender's checksum covered it.
Damage ==
  /\ damage < MaxDamage
  /\ \E i \in DOMAIN up :
       /\ up[i].type = "Chunk" /\ up[i].data # Altered
       /\ up' = [up EXCEPT ![i].data = Altered]
  /\ damage' = damage + 1
  /\ UNCHANGED <<snd, rcv, slot, disk, down, link, torn, gone, on, toggles>>

Init ==
  /\ snd = NewSender
  /\ rcv = NewReceiver
  /\ slot = Closed
  /\ disk = [b \in Batches |-> [f \in Files |-> Missing]]
  /\ up = <<>> /\ down = <<>>
  /\ link = "up" /\ torn = {} /\ gone = FALSE /\ on = TRUE
  /\ damage = 0 /\ toggles = 0

Upload ==
  \/ Begin
  \/ ClientReceives
  \/ ReaderThread
  \/ SendOneChunk
  \/ Cancel
  \/ OfferTimeout
  \/ ClientLinkLost

Host ==
  \/ HostReceives
  \/ WriterThread
  \/ \E yes \in BOOLEAN : SetAccepting(yes)
  \/ StopFileHost
  \/ StartFileHost
  \/ DropPeer

Next == Upload \/ Host \/ LoseLink \/ (\E end \in {"client", "host"} : BreakStream(end)) \/ Damage

Spec == Init /\ [][Next]_vars

\* Both receive loops, the pump, the reader and the writer keep running, the offer's
\* deadline passes, and both ends notice a lost link.
FairSpec ==
  /\ Spec
  /\ WF_vars(HostReceives) /\ WF_vars(ClientReceives)
  /\ WF_vars(ReaderThread) /\ WF_vars(SendOneChunk) /\ WF_vars(WriterThread)
  /\ WF_vars(OfferTimeout)
  /\ WF_vars(ClientLinkLost) /\ WF_vars(DropPeer)

-----------------------------------------------------------------------------
(* Properties.                                                             *)

\* Every component of the state has its type.
TypeOK ==
  /\ snd.state \in {"Idle", "Offering", "Sending", "Done", "Refused", "Failed"}
  /\ snd.batch \in 0..MaxBatches /\ snd.next \in 1..MaxBatches + 1
  /\ snd.file \in 1..NumFiles + 1 /\ snd.acked \in 0..NumFiles
  /\ snd.untold \subseteq Batches
  /\ snd.file <= NumFiles => snd.sent \in 0..Size[snd.file]
  /\ snd.read \in 0..Total /\ snd.all \in 0..snd.read /\ snd.popped \in 0..snd.all
  /\ snd.failed \in BOOLEAN
  /\ rcv.state \in {"Idle", "Receiving", "Done", "Failed"}
  /\ rcv.batch \in 0..MaxBatches /\ rcv.file \in 1..NumFiles + 1
  /\ Receiving => rcv.got \in 0..Size[rcv.file]
  /\ slot.written \in 0..Len(slot.data) /\ Len(slot.data) - slot.written <= DiskRoom
  /\ torn \subseteq {"client", "host"} /\ gone \in BOOLEAN
  /\ Len(up) <= Cap
  /\ Len(down) <= (NumFiles + 2) * MaxBatches

\* Only whole files are put in place, in the order of the batch: whatever is
\* damaged, cut short or cancelled leaves the folder without it, and no part file is
\* left behind once its batch is no longer being received.
OnlyWholeFilesPlaced ==
  /\ \A b \in Batches, f \in Files : disk[b][f] # Missing =>
       /\ disk[b][f] = Content(f)
       /\ \A e \in 1..f : disk[b][e] # Missing
  /\ slot.open => Receiving

\* Once nothing is under way between them, host and client agree that the batch is
\* over, unless the outbox had no room for the cancel, or their stream is broken.
BothEndsAgree ==
  link = "up" /\ torn = {} /\ on /\ up = <<>> /\ down = <<>> /\ ~SndBusy
    => ~Receiving \/ rcv.batch \in snd.untold

\* The promise of a transfer, FileBatch, as this protocol keeps it.
Offered == snd.next - 1

Verdict ==
  CASE SndBusy -> "Pending"
    [] snd.state = "Idle" -> "None"
    [] snd.unanswered -> "Refused"
    [] OTHER -> snd.state

Batch == INSTANCE FileBatch WITH
  batch <- Offered,
  placed <- IF Offered = 0 THEN 0
            ELSE Cardinality({f \in Files : disk[Offered][f] # Missing}),
  verdict <- Verdict

\* Each step of the two ends is a step of the batch's promise, or none: Done only
\* with all files in place, Refused only with none.
KeepsThePromise == Batch!BatchSpec

\* An upload never stays busy: it is answered, refused, cancelled or told that its link is
\* lost, and neither the reader's ring, the outbox nor the writer's queue, when they are
\* full, holds it up for ever.  But a host whose end of the stream breaks does not tell.
UploadSettles == SndBusy ~> ~SndBusy \/ "host" \in torn
=============================================================================
