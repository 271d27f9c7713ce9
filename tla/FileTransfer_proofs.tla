------------------------ MODULE FileTransfer_proofs -------------------------
(***************************************************************************)
(* FileTransfer keeps its types, places only whole files, ends a batch at  *)
(* both ends, and implements FileBatch, for batches of any files, for      *)
(* every size of the outbox, the reader's ring and the writer's queue, and *)
(* for any number of batches, tears, damaged chunks and switches.          *)
(*                                                                         *)
(* What holds it together is the order of the stream: the records behind   *)
(* an offer belong to its batch or a later one, and whatever the host has, *)
(* was asked or has answered belongs to an earlier one.                    *)
(***************************************************************************)
EXTENDS FileTransfer, FiniteSetTheorems, SequenceTheorems, TLAPS

Data == Nat \X Nat

OfferRecords  == [type : {"Offer"}, batch : Batches]
ChunkRecords  == [type : {"Chunk"}, batch : Batches, file : Files, at : Nat, data : Data]
DoneRecords   == [type : {"Done"}, batch : Batches, file : Files, crc : Seq(Data)]
CancelRecords == [type : {"Cancel"}, batch : Batches]
UpRecords     == OfferRecords \cup ChunkRecords \cup DoneRecords \cup CancelRecords

AcceptRecords == [type : {"Accept"}, batch : Batches, ok : BOOLEAN]
AckRecords    == [type : {"Ack"}, batch : Batches, file : Files, ok : BOOLEAN]
DownRecords   == AcceptRecords \cup AckRecords \cup CancelRecords

Senders ==
  [state : {"Idle", "Offering", "Sending", "Done", "Refused", "Failed"},
   batch : 0..MaxBatches, next : 1..MaxBatches + 1, file : 1..NumFiles + 1, sent : Nat,
   acked : 0..NumFiles, crc : Seq(Data), unanswered : BOOLEAN, untold : SUBSET Batches,
   all : Nat, read : 0..Total, popped : Nat, failed : BOOLEAN]

Receivers ==
  [state : {"Idle", "Receiving", "Done", "Failed"}, batch : 0..MaxBatches,
   file : 1..NumFiles + 1, got : Nat, crc : Seq(Data), accepting : BOOLEAN]

Slots == [open : BOOLEAN, data : Seq(Data), written : Nat, sound : BOOLEAN]

\* What is on its way, as sets.
InUp == {up[i] : i \in DOMAIN up}
InDown == {down[i] : i \in DOMAIN down}

Types ==
  /\ snd \in Senders /\ rcv \in Receivers /\ slot \in Slots
  /\ disk \in [Batches -> [Files -> Seq(Data) \cup {Missing}]]
  /\ up \in Seq(UpRecords) /\ down \in Seq(DownRecords)
  /\ torn \subseteq {"client", "host"} /\ gone \in BOOLEAN /\ on \in BOOLEAN
  /\ Len(up) <= Cap

-----------------------------------------------------------------------------
(* The parts of the inductive invariant.                                   *)

\* The sender's position, and that a batch that was refused, or offered and never
\* answered, had none of its records sent.
SenderOK ==
  /\ snd.state = "Idle" => snd.batch <= snd.next /\ snd.acked = 0
  /\ snd.state # "Idle" => snd.batch = snd.next - 1 /\ snd.batch \in Batches
  /\ snd.state \in {"Idle", "Offering", "Refused"} \/ snd.unanswered => snd.file = 1
  /\ snd.unanswered => snd.state = "Failed"
  /\ snd.file <= NumFiles =>
       /\ snd.sent <= Size[snd.file]
       /\ snd.crc = [at \in 1..snd.sent |-> Chunk(snd.file, at)]
  /\ snd.popped <= snd.all /\ snd.all <= snd.read
  /\ snd.state = "Done" => snd.acked = NumFiles

\* What the sender counts as acknowledged is in the folder.
AckedOK ==
  \A f \in Files : f <= snd.acked => snd.batch \in Batches /\ disk[snd.batch][f] # Missing

\* The receiver has in hand the next file of its batch, its part file what arrived of it.
ReceiverOK ==
  /\ rcv.batch < snd.next
  /\ Receiving =>
       /\ on /\ rcv.batch \in Batches /\ rcv.file \in Files
       /\ slot.data = rcv.crc /\ rcv.got = Len(rcv.crc) /\ rcv.got <= Size[rcv.file]
       /\ \A f \in Files : disk[rcv.batch][f] # Missing <=> f < rcv.file
  /\ slot.open => Receiving
  /\ ~slot.open => slot = Closed
  /\ slot.written <= Len(slot.data) /\ Len(slot.data) - slot.written <= DiskRoom

\* The sender is done with file f of batch b.
Past(b, f) == b < snd.batch \/ (b = snd.batch /\ f < snd.file)

\* Files are whole, placed in order, and only after the sender was done with them.
FolderOK ==
  \A b \in Batches, f \in Files : disk[b][f] # Missing =>
    /\ disk[b][f] = Content(f) /\ Past(b, f)
    /\ \A e \in 1..f : disk[b][e] # Missing

\* Behind an offer nothing of an earlier batch follows, nor in front of it of a later one.
Ordered ==
  \A i, j \in DOMAIN up : i < j /\ up[j].type = "Offer" => up[i].batch < up[j].batch

RecordsOK ==
  /\ Ordered
  /\ \A m \in InUp :
       /\ m.batch < snd.next
       /\ m.type = "Done" => m.crc = Content(m.file) /\ Past(m.batch, m.file)
       /\ m.type = "Offer" =>
            /\ rcv.batch < m.batch
            /\ \A k \in InDown : k.batch < m.batch
            /\ \A f \in Files : disk[m.batch][f] = Missing

\* An acknowledgement is true; a refusal or a cancel means that the batch is over.
AnswersOK ==
  \A m \in InDown :
    /\ m.batch < snd.next
    /\ m.type = "Ack" /\ m.ok => disk[m.batch][m.file] # Missing
    /\ ~(m.type \in {"Accept", "Ack"} /\ m.ok) => ~(Receiving /\ rcv.batch = m.batch)

\* The sender still works on batch b, or told the host, or could not.
Known(b) ==
  \/ SndBusy /\ snd.batch = b
  \/ \E m \in InUp : m.type = "Cancel" /\ m.batch = b
  \/ b \in snd.untold

AgreeOK ==
  link = "up" /\ torn = {} =>
    /\ Receiving => Known(rcv.batch)
    /\ \A m \in InUp : m.type = "Offer" => Known(m.batch)

\* How many answers the batch being received may still get, and all those on their way.
ToCome == IF Receiving THEN NumFiles + 2 - rcv.file ELSE 0
CountOK ==
  /\ Len(down) + ToCome <= (NumFiles + 2) * Offered
  /\ \A m \in InUp : m.type = "Offer" => Len(down) + ToCome <= (NumFiles + 2) * (m.batch - 1)

IInv == /\ Types /\ SenderOK /\ AckedOK /\ ReceiverOK /\ FolderOK
        /\ RecordsOK /\ AnswersOK /\ AgreeOK /\ CountOK

-----------------------------------------------------------------------------
(* What is on its way, after each thing that happens to it.                *)

\* The records of each kind are told apart by their type.
LEMMA RecordKinds ==
  /\ \A m \in UpRecords :
       /\ m.type \in {"Offer", "Chunk", "Done", "Cancel"} /\ m.batch \in Batches
       /\ m.type = "Chunk" => m \in ChunkRecords
       /\ m.type = "Done" => m \in DoneRecords
  /\ \A m \in DownRecords :
       /\ m.type \in {"Accept", "Ack", "Cancel"} /\ m.batch \in Batches
       /\ m.type = "Accept" => m.ok \in BOOLEAN
       /\ m.type = "Ack" => m.file \in Files /\ m.ok \in BOOLEAN
BY DEF UpRecords, DownRecords, OfferRecords, ChunkRecords, DoneRecords, CancelRecords,
       AcceptRecords, AckRecords

\* The host takes the first record: what is behind it stays in its order.
LEMMA UpTaken ==
  ASSUME up \in Seq(UpRecords), up # <<>>, up' = Tail(up)
  PROVE  /\ up' \in Seq(UpRecords) /\ (Len(up) <= Cap => Len(up') <= Cap)
         /\ Head(up) \in UpRecords /\ InUp = InUp' \cup {Head(up)}
         /\ Ordered => /\ Ordered'
                       /\ \A m \in InUp' : m.type = "Offer" => Head(up).batch < m.batch
<1>1. /\ Len(up) \in Nat \ {0} /\ Head(up) = up[1] /\ up[1] \in UpRecords
      /\ up' \in Seq(UpRecords) /\ Len(up') = Len(up) - 1
      /\ DOMAIN up = 1..Len(up) /\ DOMAIN up' = 1..Len(up) - 1
      /\ \A i \in DOMAIN up' : up'[i] = up[i + 1]
  OBVIOUS
<1>2. \A i \in DOMAIN up' : i + 1 \in DOMAIN up /\ 1 < i + 1 /\ up'[i] = up[i + 1]
  BY <1>1
<1>3. InUp' \cup {Head(up)} \subseteq InUp
  BY <1>1, <1>2 DEF InUp
<1>4. InUp \subseteq InUp' \cup {Head(up)}
  <2> SUFFICES ASSUME NEW i \in DOMAIN up, i # 1 PROVE up[i] \in InUp'
    BY <1>1 DEF InUp
  <2>1. i - 1 \in DOMAIN up' /\ up'[i - 1] = up[i]
    BY <1>1
  <2> QED BY <2>1 DEF InUp
<1>5. ASSUME Ordered
      PROVE  Ordered' /\ \A m \in InUp' : m.type = "Offer" => Head(up).batch < m.batch
  <2>1. ASSUME NEW i \in DOMAIN up', NEW j \in DOMAIN up', i < j, up'[j].type = "Offer"
        PROVE  up'[i].batch < up'[j].batch
    <3>1. i + 1 < j + 1
      BY <1>1, <2>1
    <3> QED BY <1>2, <1>5, <2>1, <3>1 DEF Ordered
  <2>2. ASSUME NEW i \in DOMAIN up', up'[i].type = "Offer"
        PROVE  Head(up).batch < up'[i].batch
    <3>1. 1 \in DOMAIN up
      BY <1>1
    <3> QED BY <1>1, <1>2, <1>5, <2>2, <3>1 DEF Ordered
  <2> QED BY <2>1, <2>2 DEF Ordered, InUp
<1>6. Len(up) <= Cap => Len(up') <= Cap
  BY <1>1, FilesOK
<1> QED BY <1>1, <1>3, <1>4, <1>5, <1>6

\* The sender queues a record, an offer only behind those of earlier batches.
LEMMA UpPut ==
  ASSUME up \in Seq(UpRecords), NEW r \in UpRecords, up' = Append(up, r)
  PROVE  /\ up' \in Seq(UpRecords) /\ Len(up') = Len(up) + 1
         /\ InUp' = InUp \cup {r}
         /\ Ordered /\ (r.type = "Offer" => \A m \in InUp : m.batch < r.batch) => Ordered'
<1>1. /\ up' \in Seq(UpRecords) /\ Len(up') = Len(up) + 1 /\ Len(up) \in Nat
      /\ DOMAIN up = 1..Len(up) /\ DOMAIN up' = 1..Len(up) + 1
      /\ \A i \in DOMAIN up : up'[i] = up[i]
      /\ up'[Len(up) + 1] = r
  BY AppendProperties
<1>2. \A i \in DOMAIN up' : (i \in DOMAIN up /\ up'[i] = up[i]) \/ (i = Len(up) + 1 /\ up'[i] = r)
  BY <1>1
<1>3. InUp' = InUp \cup {r}
  <2>1. InUp' \subseteq InUp \cup {r}
    BY <1>2 DEF InUp
  <2>2. InUp \subseteq InUp'
    <3> SUFFICES ASSUME NEW i \in DOMAIN up PROVE up[i] \in InUp'
      BY DEF InUp
    <3>1. i \in DOMAIN up' /\ up'[i] = up[i]
      BY <1>1
    <3> QED BY <3>1 DEF InUp
  <2>3. r \in InUp'
    <3>1. Len(up) + 1 \in DOMAIN up'
      BY <1>1
    <3> QED BY <1>1, <3>1 DEF InUp
  <2> QED BY <2>1, <2>2, <2>3
<1>4. ASSUME Ordered, r.type = "Offer" => \A m \in InUp : m.batch < r.batch,
             NEW i \in DOMAIN up', NEW j \in DOMAIN up', i < j, up'[j].type = "Offer"
      PROVE  up'[i].batch < up'[j].batch
  <2>1. i \in DOMAIN up /\ up'[i] = up[i]
    BY <1>1, <1>4
  <2>2. CASE j \in DOMAIN up
    <3>1. up'[j] = up[j]
      BY <1>1, <2>2
    <3> QED BY <1>4, <2>1, <2>2, <3>1 DEF Ordered
  <2>3. CASE up'[j] = r
    <3>1. up[i] \in InUp
      BY <2>1 DEF InUp
    <3> QED BY <1>4, <2>1, <2>3, <3>1
  <2> QED BY <1>2, <2>2, <2>3
<1>5. ASSUME Ordered, r.type = "Offer" => \A m \in InUp : m.batch < r.batch
      PROVE  Ordered'
  BY <1>4, <1>5 DEF Ordered
<1> QED BY <1>1, <1>3, <1>5

\* Two records, neither an offer, go out together.
LEMMA UpPutTwo ==
  ASSUME up \in Seq(UpRecords), NEW r \in UpRecords, NEW q \in UpRecords,
         r.type # "Offer", q.type # "Offer", up' = up \o <<r, q>>
  PROVE  /\ up' \in Seq(UpRecords) /\ Len(up') = Len(up) + 2
         /\ InUp' = InUp \cup {r, q}
         /\ Ordered => Ordered'
<1>1. /\ up' \in Seq(UpRecords) /\ Len(up') = Len(up) + 2 /\ Len(up) \in Nat
      /\ DOMAIN up = 1..Len(up) /\ DOMAIN up' = 1..Len(up) + 2
      /\ \A i \in DOMAIN up : up'[i] = up[i]
      /\ up'[Len(up) + 1] = r /\ up'[Len(up) + 2] = q
  <2>1. <<r, q>> \in Seq(UpRecords) /\ Len(<<r, q>>) = 2 /\ <<r, q>>[1] = r /\ <<r, q>>[2] = q
    OBVIOUS
  <2>2. /\ up \o <<r, q>> \in Seq(UpRecords) /\ Len(up \o <<r, q>>) = Len(up) + 2
        /\ \A i \in 1..Len(up) + 2 :
             (up \o <<r, q>>)[i] = IF i <= Len(up) THEN up[i] ELSE <<r, q>>[i - Len(up)]
    BY <2>1, ConcatProperties
  <2>3. Len(up) \in Nat /\ DOMAIN up = 1..Len(up) /\ DOMAIN up' = 1..Len(up) + 2
    BY <2>2, LenProperties
  <2>4. (Len(up) + 1) - Len(up) = 1 /\ (Len(up) + 2) - Len(up) = 2
    BY <2>3
  <2> QED BY <2>1, <2>2, <2>3, <2>4
<1>2. \A i \in DOMAIN up' : \/ i \in DOMAIN up /\ up'[i] = up[i]
                            \/ i = Len(up) + 1 /\ up'[i] = r
                            \/ i = Len(up) + 2 /\ up'[i] = q
  BY <1>1
<1>3. InUp' = InUp \cup {r, q}
  <2>1. InUp' \subseteq InUp \cup {r, q}
    BY <1>2 DEF InUp
  <2>2. InUp \subseteq InUp'
    <3> SUFFICES ASSUME NEW i \in DOMAIN up PROVE up[i] \in InUp'
      BY DEF InUp
    <3>1. i \in DOMAIN up' /\ up'[i] = up[i]
      BY <1>1
    <3> QED BY <3>1 DEF InUp
  <2>3. r \in InUp' /\ q \in InUp'
    <3>1. Len(up) + 1 \in DOMAIN up' /\ Len(up) + 2 \in DOMAIN up'
      BY <1>1
    <3> QED BY <1>1, <3>1 DEF InUp
  <2> QED BY <2>1, <2>2, <2>3
<1>4. ASSUME Ordered, NEW i \in DOMAIN up', NEW j \in DOMAIN up', i < j, up'[j].type = "Offer"
      PROVE  up'[i].batch < up'[j].batch
  <2>1. j \in DOMAIN up /\ up'[j] = up[j]
    BY <1>2, <1>4
  <2>2. i \in DOMAIN up /\ up'[i] = up[i]
    BY <1>1, <1>4, <2>1
  <2> QED BY <1>4, <2>1, <2>2 DEF Ordered
<1>5. Ordered => Ordered'
  BY <1>4 DEF Ordered
<1> QED BY <1>1, <1>3, <1>5

\* Of what the sender wrote only some beginning reaches the host.
LEMMA UpCut ==
  ASSUME up \in Seq(UpRecords), NEW n \in 0..Len(up), up' = SubSeq(up, 1, n)
  PROVE  /\ up' \in Seq(UpRecords) /\ Len(up') <= Len(up)
         /\ InUp' \subseteq InUp
         /\ Ordered => Ordered'
<1>1. /\ up' \in Seq(UpRecords) /\ Len(up') = n /\ Len(up) \in Nat
      /\ DOMAIN up = 1..Len(up) /\ DOMAIN up' = 1..n
      /\ \A i \in 1..n : up'[i] = up[i]
  OBVIOUS
<1>2. \A i \in DOMAIN up' : i \in DOMAIN up /\ up'[i] = up[i]
  BY <1>1
<1>3. InUp' \subseteq InUp
  BY <1>2 DEF InUp
<1>4. Ordered => Ordered'
  BY <1>2 DEF Ordered
<1> QED BY <1>1, <1>3, <1>4

\* A damaged chunk is still a chunk, in its place, and everything else is what it was.
LEMMA UpDamaged ==
  ASSUME up \in Seq(UpRecords), NEW i \in DOMAIN up, up[i].type = "Chunk",
         up' = [up EXCEPT ![i].data = Altered]
  PROVE  /\ up' \in Seq(UpRecords) /\ Len(up') = Len(up)
         /\ \A m \in InUp' : m \in InUp \/ (m.type = "Chunk" /\ m.batch = up[i].batch)
         /\ \A m \in InUp : m.type # "Chunk" => m \in InUp'
         /\ up[i] \in InUp
         /\ Ordered => Ordered'
<1> DEFINE r == [up[i] EXCEPT !.data = Altered]
<1>1. up[i] \in UpRecords /\ up[i] \in ChunkRecords
  BY RecordKinds
<1>2. r \in ChunkRecords /\ r.type = "Chunk" /\ r.batch = up[i].batch
  BY <1>1 DEF ChunkRecords, Altered, Data
<1>3. r \in UpRecords /\ up' = [up EXCEPT ![i] = r]
  BY <1>2 DEF UpRecords
<1> HIDE DEF r
<1>4. /\ up' \in Seq(UpRecords) /\ Len(up') = Len(up) /\ DOMAIN up' = DOMAIN up
      /\ up'[i] = r /\ \A j \in DOMAIN up : j # i => up'[j] = up[j]
  BY <1>3, ExceptSeq
<1>5. \A j \in DOMAIN up : up'[j].type = up[j].type /\ up'[j].batch = up[j].batch
  BY <1>2, <1>4
<1>6. \A m \in InUp' : m \in InUp \/ (m.type = "Chunk" /\ m.batch = up[i].batch)
  BY <1>2, <1>4 DEF InUp
<1>7. \A m \in InUp : m.type # "Chunk" => m \in InUp'
  BY <1>4 DEF InUp
<1>8. Ordered => Ordered'
  BY <1>4, <1>5 DEF Ordered
<1> QED BY <1>4, <1>6, <1>7, <1>8 DEF InUp

\* The client takes the first answer.
LEMMA DownTaken ==
  ASSUME down \in Seq(DownRecords), down # <<>>, down' = Tail(down)
  PROVE  /\ down' \in Seq(DownRecords) /\ Len(down') <= Len(down)
         /\ Head(down) \in DownRecords /\ Head(down) \in InDown /\ InDown' \subseteq InDown
<1>1. /\ Len(down) \in Nat \ {0} /\ Head(down) = down[1] /\ down[1] \in DownRecords
      /\ down' \in Seq(DownRecords) /\ Len(down') = Len(down) - 1
      /\ DOMAIN down = 1..Len(down) /\ DOMAIN down' = 1..Len(down) - 1
      /\ \A i \in DOMAIN down' : down'[i] = down[i + 1]
  OBVIOUS
<1>2. \A i \in DOMAIN down' : i + 1 \in DOMAIN down /\ down'[i] = down[i + 1]
  BY <1>1
<1>3. 1 \in DOMAIN down
  BY <1>1
<1> QED BY <1>1, <1>2, <1>3 DEF InDown

\* Of what the host wrote only some beginning reaches the client.
LEMMA DownCut ==
  ASSUME down \in Seq(DownRecords), NEW n \in 0..Len(down), down' = SubSeq(down, 1, n)
  PROVE  /\ down' \in Seq(DownRecords) /\ Len(down') <= Len(down)
         /\ InDown' \subseteq InDown
<1>1. /\ down' \in Seq(DownRecords) /\ Len(down') = n /\ Len(down) \in Nat
      /\ DOMAIN down = 1..Len(down) /\ DOMAIN down' = 1..n
      /\ \A i \in 1..n : down'[i] = down[i]
  OBVIOUS
<1>2. \A i \in DOMAIN down' : i \in DOMAIN down /\ down'[i] = down[i]
  BY <1>1
<1> QED BY <1>1, <1>2 DEF InDown

\* The host answers once, if its half of the stream is whole.
LEMMA Answered ==
  ASSUME down \in Seq(DownRecords), NEW r \in DownRecords, Answer(<<r>>)
  PROVE  /\ down' \in Seq(DownRecords) /\ Len(down') <= Len(down) + 1
         /\ InDown' \subseteq InDown \cup {r}
<1>1. CASE down' = down
  BY <1>1, LenProperties DEF InDown
<1>2. CASE down' = down \o <<r>>
  <2>1. /\ down' \in Seq(DownRecords) /\ Len(down') = Len(down) + 1 /\ Len(down) \in Nat
        /\ DOMAIN down = 1..Len(down) /\ DOMAIN down' = 1..Len(down) + 1
        /\ \A i \in DOMAIN down : down'[i] = down[i]
        /\ down'[Len(down) + 1] = r
    <3>1. down' = Append(down, r)
      BY <1>2, AppendIsConcat
    <3> QED BY <3>1, AppendProperties
  <2>2. \A i \in DOMAIN down' : (i \in DOMAIN down /\ down'[i] = down[i]) \/ down'[i] = r
    BY <2>1
  <2> QED BY <2>1, <2>2 DEF InDown
<1> QED BY <1>1, <1>2 DEF Answer

\* The host has nothing to answer.
LEMMA Unanswered ==
  ASSUME down \in Seq(DownRecords), Answer(<<>>)
  PROVE  down' = down
BY ConcatEmptySeq DEF Answer

\* A file's content is a sequence of data, and never what stands for a missing file.
LEMMA ContentFacts ==
  \A f \in Files : /\ Content(f) \in Seq(Data) /\ Len(Content(f)) = Size[f]
                   /\ Content(f) # Missing
<1> SUFFICES ASSUME NEW f \in Files
             PROVE  /\ Content(f) \in Seq(Data) /\ Len(Content(f)) = Size[f]
                    /\ Content(f) # Missing
  OBVIOUS
<1>1. Size[f] \in Nat /\ f \in Nat
  BY FilesOK DEF Files
<1>2. \A at \in 1..Size[f] : Chunk(f, at) \in Data
  BY <1>1 DEF Chunk, Data
<1>3. Content(f) \in Seq(Data) /\ Len(Content(f)) = Size[f]
  BY <1>1, <1>2 DEF Content
<1>4. Content(f) # Missing
  <2> SUFFICES ASSUME Content(f) = Missing PROVE FALSE
    OBVIOUS
  <2>1. Len(Missing) = 1 /\ Missing[1] = <<>>
    BY DEF Missing
  <2>2. Size[f] = 1 /\ Content(f)[1] = <<f, 1>>
    BY <1>1, <1>3, <2>1 DEF Content, Chunk
  <2> QED BY <2>1, <2>2
<1> QED BY <1>3, <1>4

\* The chunks of a batch can be counted.
LEMMA TotalIsNat == Total \in Nat
<1> DEFINE Of(f) == {Chunk(f, at) : at \in 1..Size[f]}
           All == UNION {Of(f) : f \in Files}
<1>1. \A f \in Files : IsFiniteSet(Of(f))
  <2> SUFFICES ASSUME NEW f \in Files PROVE IsFiniteSet(Of(f))
    OBVIOUS
  <2>1. Size[f] \in Nat
    BY FilesOK DEF Files
  <2>2. IsFiniteSet(1..Size[f])
    BY <2>1, FS_Interval
  <2> DEFINE g == [at \in 1..Size[f] |-> Chunk(f, at)]
  <2>3. g \in Surjection(1..Size[f], Of(f))
    BY DEF Surjection
  <2> QED BY <2>2, <2>3, FS_Surjection
<1>2. IsFiniteSet({Of(f) : f \in Files})
  <2>1. IsFiniteSet(Files)
    BY FilesOK, FS_Interval DEF Files
  <2> DEFINE g == [f \in Files |-> Of(f)]
  <2>2. g \in Surjection(Files, {Of(f) : f \in Files})
    BY DEF Surjection
  <2> HIDE DEF g, Of
  <2> QED BY <2>1, <2>2, FS_Surjection
<1>3. IsFiniteSet(All)
  <2> HIDE DEF Of
  <2>1. \A T \in {Of(f) : f \in Files} : IsFiniteSet(T)
    BY <1>1
  <2> QED BY <1>2, <2>1, FS_UNION
<1> QED BY <1>3, FS_CardinalityType DEF Total

-----------------------------------------------------------------------------
\* A client with nothing offered, and a host with an empty folder.
LEMMA InitInv == Init => IInv
<1> SUFFICES ASSUME Init PROVE IInv
  OBVIOUS
<1>1. NumFiles \in Nat \ {0} /\ MaxBatches \in Nat /\ Cap \in Nat \ {0} /\ DiskRoom \in Nat \ {0}
  BY FilesOK
<1>2. up = <<>> /\ down = <<>> /\ Len(up) = 0 /\ Len(down) = 0 /\ InUp = {} /\ InDown = {}
      /\ DOMAIN up = {}
  BY DEF Init, InUp, InDown
<1>3. Types
  <2>1. snd \in Senders
    <3>1. 0 \in 0..Total
      BY TotalIsNat
    <3> QED BY <1>1, <3>1 DEF Init, NewSender, Senders
  <2>2. rcv \in Receivers /\ slot \in Slots
    BY <1>1 DEF Init, NewReceiver, Receivers, Closed, Slots
  <2>3. disk \in [Batches -> [Files -> Seq(Data) \cup {Missing}]]
    BY DEF Init
  <2>4. up \in Seq(UpRecords) /\ down \in Seq(DownRecords)
    BY <1>2, EmptySeq
  <2>5. torn \subseteq {"client", "host"} /\ gone \in BOOLEAN /\ on \in BOOLEAN
    BY DEF Init
  <2>6. Len(up) <= Cap
    BY <1>1, <1>2
  <2> QED BY <2>1, <2>2, <2>3, <2>4, <2>5, <2>6 DEF Types
<1>4. SenderOK /\ AckedOK
  <2>1. snd.state = "Idle" /\ snd.batch = 0 /\ snd.next = 1 /\ snd.acked = 0 /\ snd.file = 1
        /\ ~snd.unanswered /\ snd.sent = 0 /\ snd.crc = <<>>
        /\ snd.popped = 0 /\ snd.all = 0 /\ snd.read = 0
    BY DEF Init, NewSender
  <2>2. \A f \in Files : Size[f] \in Nat /\ ~(f <= 0)
    BY FilesOK DEF Files
  <2>3. snd.crc = [at \in 1..snd.sent |-> Chunk(snd.file, at)]
    BY <2>1
  <2>4. 1 \in Files
    BY <1>1 DEF Files
  <2> QED BY <2>1, <2>2, <2>3, <2>4 DEF SenderOK, AckedOK
<1>5. ReceiverOK /\ CountOK
  <2>1. rcv.batch = 0 /\ snd.next = 1 /\ ~Receiving /\ slot = Closed /\ slot.open = FALSE
        /\ slot.written = 0 /\ Len(slot.data) = 0
    BY DEF Init, NewSender, NewReceiver, Closed, Receiving
  <2> QED BY <1>1, <1>2, <2>1 DEF ReceiverOK, CountOK, ToCome, Offered
<1>6. FolderOK /\ RecordsOK /\ AnswersOK
  BY <1>2 DEF Init, FolderOK, RecordsOK, Ordered, AnswersOK
<1>7. AgreeOK
  BY <1>2 DEF Init, NewReceiver, Receiving, AgreeOK
<1> QED BY <1>3, <1>4, <1>5, <1>6, <1>7 DEF IInv

-----------------------------------------------------------------------------
(* The client's steps.                                                     *)

\* Whatever the sender does of its batch, and takes of the answers, leaves what the host
\* has as it was; its records are of that batch, and end only files it is done with.
LEMMA SenderStep ==
  ASSUME IInv, UNCHANGED <<rcv, slot, disk, on>>,
         snd' \in Senders, snd'.next = snd.next, snd'.batch = snd.batch, snd.file <= snd'.file,
         down' \in Seq(DownRecords), Len(down') <= Len(down), InDown' \subseteq InDown,
         Ordered',
         \A m \in InUp' :
           \/ m \in InUp
           \/ /\ m.type # "Offer" /\ m.batch < snd.next
              /\ m.type = "Done" => m.crc = Content(m.file) /\ Past(m.batch, m.file)'
  PROVE  ReceiverOK' /\ FolderOK' /\ RecordsOK' /\ AnswersOK' /\ CountOK'
<1>1. /\ snd \in Senders /\ snd.file \in Int /\ snd'.file \in Int /\ snd.batch \in Int
      /\ Len(down) \in Nat /\ Len(down') \in Nat
  BY LenProperties DEF IInv, Types, Senders
<1>2. Receiving' = Receiving /\ ToCome' = ToCome /\ Offered' = Offered
  BY DEF Receiving, ToCome, Offered
<1>3. ASSUME NEW b \in Batches, NEW f \in Files, Past(b, f) PROVE Past(b, f)'
  BY <1>1, <1>3 DEF Past, Files, Batches
<1>4. ReceiverOK'
  BY <1>2 DEF IInv, ReceiverOK
<1>5. FolderOK'
  BY <1>3 DEF IInv, FolderOK
<1>6. RecordsOK'
  <2>1. ASSUME NEW m \in InUp', m \in InUp
        PROVE  /\ m.batch < snd'.next
               /\ m.type = "Done" => m.crc = Content(m.file) /\ Past(m.batch, m.file)'
               /\ m.type = "Offer" =>
                    /\ rcv'.batch < m.batch
                    /\ \A k \in InDown' : k.batch < m.batch
                    /\ \A f \in Files : disk'[m.batch][f] = Missing
    <3>1. m \in UpRecords
      BY <2>1 DEF IInv, Types, InUp
    <3>2. m.type = "Done" => m.crc = Content(m.file) /\ Past(m.batch, m.file)'
      <4> SUFFICES ASSUME m.type = "Done" PROVE m.crc = Content(m.file) /\ Past(m.batch, m.file)'
        OBVIOUS
      <4>1. m.batch \in Batches /\ m.file \in Files
        BY <3>1, RecordKinds DEF DoneRecords
      <4> QED BY <1>3, <2>1, <4>1 DEF IInv, RecordsOK
    <3>3. m.batch < snd'.next
      BY <2>1 DEF IInv, RecordsOK
    <3>4. m.type = "Offer" => /\ rcv'.batch < m.batch
                              /\ \A k \in InDown' : k.batch < m.batch
                              /\ \A f \in Files : disk'[m.batch][f] = Missing
      BY <2>1 DEF IInv, RecordsOK
    <3> QED BY <3>2, <3>3, <3>4
  <2> QED BY <2>1 DEF RecordsOK
<1>7. AnswersOK'
  BY <1>2 DEF IInv, AnswersOK
<1>8. CountOK'
  <2>1. ToCome \in Int
    BY FilesOK DEF IInv, Types, Receivers, ToCome
  <2>2. /\ Len(down) + ToCome <= (NumFiles + 2) * Offered
        /\ \A m \in InUp : m.type = "Offer" => Len(down) + ToCome <= (NumFiles + 2) * (m.batch - 1)
    BY DEF IInv, CountOK
  <2>3. ASSUME NEW x \in Int, Len(down) + ToCome <= x PROVE Len(down') + ToCome <= x
    BY <1>1, <2>1, <2>3
  <2>4. NumFiles \in Nat /\ Offered \in Int /\ (NumFiles + 2) * Offered \in Int
    <3>1. NumFiles \in Nat /\ snd.next \in Int
      BY <1>1, FilesOK DEF Senders
    <3> QED BY <3>1 DEF Offered
  <2>5. \A m \in InUp' : m.type = "Offer" => m \in InUp /\ (NumFiles + 2) * (m.batch - 1) \in Int
    <3>1. \A m \in InUp : m.batch \in Int
      BY RecordKinds DEF IInv, Types, InUp, Batches
    <3> QED BY <2>4, <3>1
  <2> QED BY <1>2, <2>2, <2>3, <2>4, <2>5 DEF CountOK
<1> QED BY <1>4, <1>5, <1>6, <1>7, <1>8

\* What the sender knows of a batch it goes on knowing, as long as its cancels are kept.
LEMMA StillKnown ==
  ASSUME NEW b, Known(b), snd.untold \subseteq snd'.untold,
         \A m \in InUp : m.type = "Cancel" => m \in InUp',
         SndBusy /\ snd.batch = b => Known(b)'
  PROVE  Known(b)'
BY DEF Known

LEMMA StillAgree ==
  ASSUME IInv, link' = "up" => link = "up", torn \subseteq torn', UNCHANGED rcv,
         snd.untold \subseteq snd'.untold,
         \A m \in InUp : m.type = "Cancel" => m \in InUp',
         \A m \in InUp' : m.type = "Offer" => m \in InUp,
         SndBusy => snd'.batch = snd.batch,
         link = "up" /\ torn = {} /\ SndBusy =>
           \/ Known(snd.batch)'
           \/ /\ ~(Receiving /\ rcv.batch = snd.batch)
              /\ \A m \in InUp : m.type = "Offer" => m.batch # snd.batch
  PROVE  AgreeOK'
<1> SUFFICES ASSUME link = "up", torn = {}
             PROVE  /\ Receiving => Known(rcv.batch)'
                    /\ \A m \in InUp' : m.type = "Offer" => Known(m.batch)'
  BY DEF AgreeOK, Receiving
<1>1. ASSUME Receiving PROVE Known(rcv.batch)'
  <2>1. Known(rcv.batch)
    BY <1>1 DEF IInv, AgreeOK
  <2>2. SndBusy /\ snd.batch = rcv.batch => Known(rcv.batch)'
    BY <1>1
  <2> QED BY <2>1, <2>2, StillKnown
<1>2. ASSUME NEW m \in InUp', m.type = "Offer" PROVE Known(m.batch)'
  <2>1. Known(m.batch) /\ m \in InUp
    BY <1>2 DEF IInv, AgreeOK
  <2>2. SndBusy /\ snd.batch = m.batch => Known(m.batch)'
    BY <1>2, <2>1
  <2> QED BY <2>1, <2>2, StillKnown
<1> QED BY <1>1, <1>2

\* A sender that is done keeps its place in the batch.
LEMMA SettledFacts ==
  ASSUME NEW s \in Senders, NEW o \in {"Done", "Refused", "Failed"}
  PROVE  LET t == Settled(s, o)
         IN  /\ t \in Senders /\ t.state = o /\ t.batch = s.batch /\ t.next = s.next
             /\ t.file = s.file /\ t.sent = s.sent /\ t.acked = s.acked /\ t.crc = s.crc
             /\ t.unanswered = s.unanswered /\ t.untold = s.untold
             /\ t.all = 0 /\ t.read = 0 /\ t.popped = 0
<1>1. 0 \in 0..Total /\ 0 \in Nat
  BY TotalIsNat
<1> HIDE DEF Total
<1> QED BY <1>1 DEF Settled, Senders

\* A busy sender has a batch.
LEMMA BusyFacts ==
  ASSUME IInv, SndBusy
  PROVE  /\ snd \in Senders /\ snd.batch \in Batches /\ snd.batch = snd.next - 1
         /\ snd.batch < snd.next /\ ~snd.unanswered
         /\ snd.state = "Offering" => snd.file = 1
<1>1. snd \in Senders /\ snd.next \in Int
  BY DEF IInv, Types, Senders
<1> QED BY <1>1 DEF IInv, SenderOK, SndBusy

\* The sender settles its batch on what the host answered, or because its stream is gone:
\* the host does not have that batch in hand, unless there is no stream to tell.
LEMMA SettlingStep ==
  ASSUME IInv, SndBusy, NEW o \in {"Done", "Refused", "Failed"}, NEW s \in Senders,
         s.batch = snd.batch, s.next = snd.next, s.file = snd.file, s.sent = snd.sent,
         s.crc = snd.crc, s.unanswered = snd.unanswered, s.untold = snd.untold,
         \A f \in Files : f <= s.acked => disk[s.batch][f] # Missing,
         o = "Refused" => snd.state = "Offering", o = "Done" => s.acked = NumFiles,
         snd' = Settled(s, o), UNCHANGED <<up, rcv, slot, disk, link, torn, gone, on>>,
         down' \in Seq(DownRecords), Len(down') <= Len(down), InDown' \subseteq InDown,
         link = "up" /\ torn = {} =>
           /\ ~(Receiving /\ rcv.batch = snd.batch)
           /\ \A m \in InUp : m.type = "Offer" => m.batch # snd.batch
  PROVE  IInv'
<1>1. /\ snd' \in Senders /\ snd'.state = o /\ snd'.batch = snd.batch /\ snd'.next = snd.next
      /\ snd'.file = snd.file /\ snd'.sent = snd.sent /\ snd'.acked = s.acked
      /\ snd'.crc = snd.crc /\ snd'.unanswered = FALSE /\ snd'.untold = snd.untold
      /\ snd'.all = 0 /\ snd'.read = 0 /\ snd'.popped = 0
  BY SettledFacts, BusyFacts
<1>2. InUp' = InUp /\ snd.file <= snd'.file
  BY <1>1 DEF InUp, Senders
<1>3. Types' /\ AckedOK'
  BY <1>1, BusyFacts DEF IInv, Types, AckedOK
<1>4. SenderOK'
  BY <1>1, BusyFacts DEF IInv, SenderOK
<1>5. Ordered'
  BY DEF IInv, RecordsOK, Ordered
<1>6. ReceiverOK' /\ FolderOK' /\ RecordsOK' /\ AnswersOK' /\ CountOK'
  BY <1>1, <1>2, <1>5, SenderStep
<1>7. AgreeOK'
  BY <1>1, <1>2, StillAgree
<1> QED BY <1>3, <1>4, <1>6, <1>7 DEF IInv

\* The sender gives its batch up and tells the host, or could not.
LEMMA AbortStep ==
  ASSUME IInv, SndBusy, NEW s, AbortSending(s),
         s = snd \/ (snd.state = "Offering" /\ s = [snd EXCEPT !.unanswered = TRUE]),
         UNCHANGED <<rcv, slot, disk, link, torn, gone, on>>,
         down' \in Seq(DownRecords), Len(down') <= Len(down), InDown' \subseteq InDown
  PROVE  IInv'
<1>1. /\ s \in Senders /\ s.batch = snd.batch /\ s.next = snd.next /\ s.file = snd.file
      /\ s.sent = snd.sent /\ s.acked = snd.acked /\ s.crc = snd.crc /\ s.untold = snd.untold
      /\ s.unanswered => snd.state = "Offering"
  BY BusyFacts DEF Senders
<1> DEFINE r == [type |-> "Cancel", batch |-> snd.batch]
           kept == [s EXCEPT !.untold = @ \cup {s.batch}]
<1>2. r \in UpRecords /\ r.type = "Cancel" /\ r.batch = snd.batch
  BY BusyFacts DEF UpRecords, CancelRecords
<1>3. /\ kept \in Senders /\ kept.batch = s.batch /\ kept.next = s.next /\ kept.file = s.file
      /\ kept.sent = s.sent /\ kept.acked = s.acked /\ kept.crc = s.crc
      /\ kept.unanswered = s.unanswered /\ kept.untold = s.untold \cup {s.batch}
  <2>1. s.untold \cup {s.batch} \in SUBSET Batches
    BY <1>1, BusyFacts DEF Senders
  <2> QED BY <1>1, <2>1 DEF Senders
<1>4. \/ Sendable(1) /\ snd' = Settled(s, "Failed") /\ up' = Append(up, r)
      \/ snd' = Settled(kept, "Failed") /\ UNCHANGED up
  BY <1>1 DEF AbortSending
<1> HIDE DEF r, kept
<1>5. /\ snd' \in Senders /\ snd'.state = "Failed" /\ snd'.batch = snd.batch
      /\ snd'.next = snd.next /\ snd'.file = snd.file /\ snd'.sent = snd.sent
      /\ snd'.acked = snd.acked /\ snd'.crc = snd.crc /\ snd'.unanswered = s.unanswered
      /\ snd'.all = 0 /\ snd'.read = 0 /\ snd'.popped = 0 /\ snd.untold \subseteq snd'.untold
  BY <1>1, <1>3, <1>4, SettledFacts
<1>6. /\ up' \in Seq(UpRecords) /\ Len(up') <= Cap /\ Ordered' /\ InUp \subseteq InUp'
      /\ \A m \in InUp' : m \in InUp \/ m = r
      /\ r \in InUp' \/ snd.batch \in snd'.untold
  <2>1. up \in Seq(UpRecords) /\ Len(up) <= Cap /\ Ordered
    BY DEF IInv, Types, RecordsOK
  <2>2. CASE Sendable(1) /\ snd' = Settled(s, "Failed") /\ up' = Append(up, r)
    <3>1. /\ up' \in Seq(UpRecords) /\ Len(up') = Len(up) + 1 /\ InUp' = InUp \cup {r} /\ Ordered'
      BY <1>2, <2>1, <2>2, UpPut
    <3>2. Len(up) + 1 <= Cap
      BY <2>2 DEF Sendable
    <3> QED BY <3>1, <3>2
  <2>3. CASE snd' = Settled(kept, "Failed") /\ UNCHANGED up
    <3>1. InUp' = InUp /\ Ordered'
      BY <2>1, <2>3 DEF InUp, Ordered
    <3>2. snd.batch \in snd'.untold
      BY <1>1, <1>3, <2>3, SettledFacts
    <3> QED BY <2>1, <2>3, <3>1, <3>2
  <2> QED BY <1>4, <2>2, <2>3
<1>7. snd.file <= snd'.file
  BY <1>5, BusyFacts DEF Senders
<1>8. Types' /\ AckedOK'
  BY <1>5, <1>6 DEF IInv, Types, AckedOK
<1>9. SenderOK'
  BY <1>1, <1>5, BusyFacts DEF IInv, SenderOK
<1>10. ReceiverOK' /\ FolderOK' /\ RecordsOK' /\ AnswersOK' /\ CountOK'
  BY <1>2, <1>5, <1>6, <1>7, BusyFacts, SenderStep
<1>11. AgreeOK'
  <2>1. Known(snd.batch)'
    BY <1>2, <1>5, <1>6 DEF Known
  <2> QED BY <1>2, <1>5, <1>6, <2>1, StillAgree
<1> QED BY <1>8, <1>9, <1>10, <1>11 DEF IInv

\* The sender goes on with its batch.
LEMMA WorkingStep ==
  ASSUME IInv, SndBusy, snd' \in Senders, SndBusy', snd'.batch = snd.batch,
         snd'.next = snd.next, snd.file <= snd'.file, snd'.unanswered = snd.unanswered,
         snd'.untold = snd.untold, snd'.state = "Offering" => snd'.file = 1,
         snd'.file <= NumFiles =>
           /\ snd'.sent <= Size[snd'.file]
           /\ snd'.crc = [at \in 1..snd'.sent |-> Chunk(snd'.file, at)],
         snd'.popped <= snd'.all, snd'.all <= snd'.read, AckedOK',
         UNCHANGED <<rcv, slot, disk, link, torn, gone, on>>,
         down' \in Seq(DownRecords), Len(down') <= Len(down), InDown' \subseteq InDown,
         up' \in Seq(UpRecords), Len(up') <= Cap, Ordered', InUp \subseteq InUp',
         \A m \in InUp' :
           \/ m \in InUp
           \/ /\ m.type # "Offer" /\ m.batch < snd.next
              /\ m.type = "Done" => m.crc = Content(m.file) /\ Past(m.batch, m.file)'
  PROVE  IInv'
<1>1. Types'
  BY DEF IInv, Types
<1>2. SenderOK'
  BY BusyFacts DEF SenderOK, SndBusy
<1>3. ReceiverOK' /\ FolderOK' /\ RecordsOK' /\ AnswersOK' /\ CountOK'
  BY SenderStep
<1>4. AgreeOK'
  <2>1. Known(snd.batch)'
    BY DEF Known
  <2> QED BY <2>1, StillAgree
<1> QED BY <1>1, <1>2, <1>3, <1>4 DEF IInv

\* The next batch is offered, or its offer does not fit: whatever is known to the host, on
\* its way to it or in its folder is of an earlier one.
LEMMA BeginStep == ASSUME IInv, Begin PROVE IInv'
<1>1. /\ snd \in Senders /\ snd.next \in Batches /\ ~SndBusy /\ snd.batch \in Int
      /\ snd.file \in Int /\ snd.untold \subseteq Batches
      /\ MaxBatches \in Nat /\ NumFiles \in Nat \ {0} /\ Cap \in Nat
  <2>1. snd \in Senders /\ ~SndBusy /\ snd.next <= MaxBatches
    BY DEF IInv, Types, Begin
  <2> QED BY <2>1, FilesOK DEF Senders, Batches
<1> PICK b \in Batches : b = snd.next
  BY <1>1
<1> b \in Int
  BY DEF Batches
<1> DEFINE r == [type |-> "Offer", batch |-> b]
<1>2. UNCHANGED <<rcv, slot, disk, down, link, torn, gone, on>>
  BY DEF Begin
<1>3. /\ snd' \in Senders /\ snd'.batch = b /\ snd'.file = 1 /\ snd'.sent = 0 /\ snd'.acked = 0
      /\ snd'.crc = <<>> /\ snd'.unanswered = FALSE /\ snd'.untold = snd.untold
      /\ snd'.all = 0 /\ snd'.read = 0 /\ snd'.popped = 0
      /\ \/ /\ snd'.state = "Offering" /\ snd'.next = b + 1 /\ Sendable(1) /\ up' = Append(up, r)
         \/ /\ snd'.state = "Idle" /\ snd'.next = b /\ up' = up
  <2>1. 0 \in 0..Total /\ 0 \in Nat /\ 0 \in 0..NumFiles /\ 1 \in 1..NumFiles + 1
        /\ b \in 0..MaxBatches /\ b \in 1..MaxBatches + 1 /\ b + 1 \in 1..MaxBatches + 1
        /\ <<>> \in Seq(Data)
    BY <1>1, TotalIsNat, EmptySeq DEF Batches
  <2> DEFINE offered == [NewSender EXCEPT !.state = "Offering", !.batch = b, !.next = b + 1,
                                          !.untold = snd.untold]
             idle == [offered EXCEPT !.state = "Idle", !.next = b]
  <2>2. \/ snd' = offered /\ Sendable(1) /\ up' = Append(up, r)
        \/ snd' = idle /\ up' = up
    BY DEF Begin
  <2> HIDE DEF Total
  <2>3. /\ offered \in Senders /\ offered.state = "Offering" /\ offered.next = b + 1
        /\ offered.batch = b /\ offered.file = 1 /\ offered.sent = 0 /\ offered.acked = 0
        /\ offered.crc = <<>> /\ offered.unanswered = FALSE /\ offered.untold = snd.untold
        /\ offered.all = 0 /\ offered.read = 0 /\ offered.popped = 0
    BY <1>1, <2>1 DEF NewSender, Senders
  <2> HIDE DEF offered
  <2>4. /\ idle \in Senders /\ idle.state = "Idle" /\ idle.next = b
        /\ idle.batch = b /\ idle.file = 1 /\ idle.sent = 0 /\ idle.acked = 0
        /\ idle.crc = <<>> /\ idle.unanswered = FALSE /\ idle.untold = snd.untold
        /\ idle.all = 0 /\ idle.read = 0 /\ idle.popped = 0
    BY <2>1, <2>3 DEF Senders
  <2> HIDE DEF idle
  <2> QED BY <2>2, <2>3, <2>4
<1>4. r \in UpRecords /\ r.type = "Offer" /\ r.batch = b
  BY <1>1 DEF UpRecords, OfferRecords
<1>5. /\ rcv.batch < b /\ \A k \in InDown : k.batch < b
      /\ \A m \in InUp : m.batch < b
      /\ \A m \in InUp : m.batch \in Int
  <2>1. \A m \in InUp : m.batch \in Int
    BY RecordKinds DEF IInv, Types, InUp, Batches
  <2> QED BY <2>1 DEF IInv, ReceiverOK, AnswersOK, RecordsOK
<1>6. ASSUME NEW c \in Batches, NEW f \in Files, Past(c, f) PROVE c < b /\ Past(c, f)'
  <2>1. snd.batch <= b /\ (snd.batch = b => snd.file = 1)
    BY <1>1 DEF IInv, SenderOK
  <2> QED BY <1>1, <1>3, <1>6, <2>1 DEF Past, Files, Batches
<1> HIDE DEF r
<1>7. /\ up' \in Seq(UpRecords) /\ Len(up') <= Cap /\ Ordered' /\ InUp \subseteq InUp'
      /\ \A m \in InUp' : m \in InUp \/ (m = r /\ snd'.state = "Offering" /\ snd'.next = b + 1)
  <2>1. up \in Seq(UpRecords) /\ Len(up) <= Cap /\ Ordered
    BY DEF IInv, Types, RecordsOK
  <2>2. CASE /\ snd'.state = "Offering" /\ snd'.next = b + 1 /\ Sendable(1)
             /\ up' = Append(up, r)
    <3>1. /\ up' \in Seq(UpRecords) /\ Len(up') = Len(up) + 1 /\ InUp' = InUp \cup {r} /\ Ordered'
      BY <1>4, <1>5, <2>1, <2>2, UpPut
    <3>2. Len(up) + 1 <= Cap
      BY <2>2 DEF Sendable
    <3> QED BY <2>2, <3>1, <3>2
  <2>3. CASE up' = up
    BY <2>1, <2>3 DEF InUp, Ordered
  <2> QED BY <1>3, <2>2, <2>3
<1>8. b <= snd'.next /\ snd'.next \in Int
  BY <1>1, <1>3
<1>9. Types'
  BY <1>2, <1>3, <1>7 DEF IInv, Types
<1>10. SenderOK' /\ AckedOK'
  <2>1. 1 \in Files /\ \A f \in Files : Size[f] \in Nat /\ ~(f <= 0)
    BY <1>1, FilesOK DEF Files
  <2>2. snd'.crc = [at \in 1..snd'.sent |-> Chunk(snd'.file, at)] /\ snd'.sent <= Size[snd'.file]
    BY <1>3, <2>1
  <2>3. SenderOK'
    BY <1>1, <1>3, <2>2 DEF SenderOK
  <2>4. AckedOK'
    BY <1>3, <2>1 DEF AckedOK
  <2> QED BY <2>3, <2>4
<1>11. Receiving' = Receiving /\ ToCome' = ToCome /\ InDown' = InDown
  BY <1>2 DEF Receiving, ToCome, InDown
<1>12. ReceiverOK' /\ FolderOK' /\ AnswersOK'
  <2>1. rcv.batch \in Int /\ \A k \in InDown : k.batch \in Int
    BY RecordKinds DEF IInv, Types, Receivers, InDown, Batches
  <2>2. rcv'.batch < snd'.next /\ \A k \in InDown : k.batch < snd'.next
    BY <1>1, <1>2, <1>5, <1>8, <2>1
  <2>3. ReceiverOK'
    BY <1>2, <1>11, <2>2 DEF IInv, ReceiverOK
  <2>4. FolderOK'
    BY <1>2, <1>6 DEF IInv, FolderOK
  <2>5. AnswersOK'
    BY <1>2, <1>11, <2>2 DEF IInv, AnswersOK
  <2> QED BY <2>3, <2>4, <2>5
<1>13. RecordsOK'
  <2> SUFFICES ASSUME NEW m \in InUp'
               PROVE  /\ m.batch < snd'.next
                      /\ m.type = "Done" => m.crc = Content(m.file) /\ Past(m.batch, m.file)'
                      /\ m.type = "Offer" =>
                           /\ rcv.batch < m.batch
                           /\ \A k \in InDown : k.batch < m.batch
                           /\ \A f \in Files : disk[m.batch][f] = Missing
    BY <1>2, <1>7, <1>11 DEF RecordsOK
  <2>1. CASE m \in InUp
    <3>1. m.batch < snd'.next
      BY <1>1, <1>5, <1>8, <2>1
    <3>2. ASSUME m.type = "Done" PROVE m.crc = Content(m.file) /\ Past(m.batch, m.file)'
      <4>1. m.batch \in Batches /\ m.file \in Files
        BY <2>1, <3>2, RecordKinds DEF IInv, Types, InUp, DoneRecords
      <4> QED BY <1>6, <2>1, <3>2, <4>1 DEF IInv, RecordsOK
    <3>3. m.type = "Offer" => /\ rcv.batch < m.batch
                              /\ \A k \in InDown : k.batch < m.batch
                              /\ \A f \in Files : disk[m.batch][f] = Missing
      BY <2>1 DEF IInv, RecordsOK
    <3> QED BY <3>1, <3>2, <3>3
  <2>2. CASE m = r /\ snd'.next = b + 1
    <3>1. \A f \in Files : disk[b][f] = Missing
      BY <1>1, <1>6 DEF IInv, FolderOK
    <3> QED BY <1>1, <1>4, <1>5, <2>2, <3>1
  <2> QED BY <1>7, <2>1, <2>2
<1>14. AgreeOK'
  <2>1. ASSUME NEW c, Known(c) PROVE Known(c)'
    BY <1>1, <1>3, <1>7, <2>1 DEF Known
  <2>2. snd'.state = "Offering" => Known(b)'
    BY <1>3 DEF Known, SndBusy
  <2> QED BY <1>2, <1>4, <1>7, <1>11, <2>1, <2>2 DEF IInv, AgreeOK
<1>15. CountOK'
  <2> DEFINE K == NumFiles + 2
             have == Len(down) + ToCome
  <2>1. /\ K \in Nat /\ have \in Int
        /\ have <= K * (b - 1)
        /\ \A m \in InUp : m.type = "Offer" => have <= K * (m.batch - 1)
    <3>1. ToCome \in Int /\ Len(down) \in Int
      BY FilesOK, LenProperties DEF IInv, Types, Receivers, ToCome
    <3> QED BY <1>1, <3>1 DEF IInv, CountOK, Offered
  <2>2. have' = have
    BY <1>2, <1>11
  <2> HIDE DEF K, have
  <2>3. K * (b - 1) <= K * b
    <3>1. K * b = K * (b - 1) + K
      BY <1>1, <2>1
    <3>2. K * (b - 1) \in Int /\ K * b \in Int
      BY <1>1, <2>1
    <3> QED BY <2>1, <3>1, <3>2
  <2>4. have <= K * Offered'
    <3>1. Offered' = b \/ Offered' = b - 1
      BY <1>1, <1>3 DEF Offered
    <3>2. K * b \in Int /\ K * (b - 1) \in Int
      BY <1>1, <2>1
    <3> QED BY <2>1, <2>3, <3>1, <3>2
  <2>5. \A m \in InUp' : m.type = "Offer" => have <= K * (m.batch - 1)
    BY <1>4, <1>7, <2>1
  <2> QED BY <2>2, <2>4, <2>5 DEF CountOK, K, have
<1> QED BY <1>9, <1>10, <1>12, <1>13, <1>14, <1>15 DEF IInv

\* The sender has no use for what it hears: only the stream has changed.
LEMMA UnheededStep ==
  ASSUME IInv, UNCHANGED <<snd, up, rcv, slot, disk, link, torn, gone, on>>,
         down' \in Seq(DownRecords), Len(down') <= Len(down), InDown' \subseteq InDown
  PROVE  IInv'
<1>1. InUp' = InUp /\ Ordered' /\ snd.file <= snd'.file /\ snd' \in Senders
  BY DEF IInv, Types, Senders, RecordsOK, Ordered, InUp
<1>2. Types' /\ SenderOK' /\ AckedOK'
  BY DEF IInv, Types, SenderOK, AckedOK
<1>3. ReceiverOK' /\ FolderOK' /\ RecordsOK' /\ AnswersOK' /\ CountOK'
  BY <1>1, SenderStep
<1>4. AgreeOK'
  BY <1>1 DEF IInv, AgreeOK, Receiving, Known, SndBusy
<1> QED BY <1>2, <1>3, <1>4 DEF IInv

\* A refusal, a failure or a cancel from the host ends the batch, and the host has it no
\* more; so does the last acknowledgement, since all its files are in place.
LEMMA ClientReceivesStep == ASSUME IInv, ClientReceives PROVE IInv'
<1> PICK m \in InDown : m = Head(down)
  BY DownTaken DEF IInv, Types, ClientReceives
<1>1. /\ down' \in Seq(DownRecords) /\ Len(down') <= Len(down) /\ InDown' \subseteq InDown
      /\ m \in DownRecords
  BY DownTaken DEF IInv, Types, ClientReceives
<1>2. UNCHANGED <<rcv, slot, disk, link, torn, gone, on>>
  BY DEF ClientReceives
<1>3. /\ m.type \in {"Accept", "Ack", "Cancel"}
      /\ m.type = "Accept" => OnAccept(m) /\ m.ok \in BOOLEAN
      /\ m.type = "Ack" => OnAck(m) /\ m.file \in Files /\ m.ok \in BOOLEAN
      /\ m.type = "Cancel" => OnHostCancel(m)
  BY <1>1, RecordKinds DEF ClientReceives
<1>4. /\ m.type = "Ack" /\ m.ok => disk[m.batch][m.file] # Missing
      /\ ~(m.type \in {"Accept", "Ack"} /\ m.ok) => ~(Receiving /\ rcv.batch = m.batch)
      /\ \A k \in InUp : k.type = "Offer" => k.batch # m.batch
  <2>1. \A k \in InUp : k.type = "Offer" => m.batch < k.batch
    BY DEF IInv, RecordsOK
  <2>2. \A k \in InUp : k.batch \in Int
    BY RecordKinds DEF IInv, Types, InUp, Batches
  <2> QED BY <2>1, <2>2 DEF IInv, AnswersOK
<1>5. CASE UNCHANGED <<snd, up>>
  BY <1>1, <1>2, <1>5, UnheededStep
<1>6. SndBusy => /\ snd \in Senders /\ snd.file <= snd.file
                 /\ \A f \in Files : f <= snd.acked => disk[snd.batch][f] # Missing
                 /\ Ordered /\ up \in Seq(UpRecords) /\ Len(up) <= Cap
  BY DEF IInv, Types, Senders, AckedOK, RecordsOK
<1>7. ASSUME NEW o \in {"Refused", "Failed"}, SndBusy, m.batch = snd.batch,
             ~(m.type \in {"Accept", "Ack"} /\ m.ok), o = "Refused" => snd.state = "Offering",
             snd' = Settled(snd, o), UNCHANGED up
      PROVE  IInv'
  BY <1>1, <1>2, <1>4, <1>6, <1>7, SettlingStep
<1>8. CASE m.type = "Accept"
  <2>1. CASE snd.state # "Offering" \/ m.batch # snd.batch
    BY <1>3, <1>5, <1>8, <2>1 DEF OnAccept
  <2>2. CASE snd.state = "Offering" /\ m.batch = snd.batch /\ m.ok
    <3>1. SndBusy /\ snd' = [snd EXCEPT !.state = "Sending"] /\ UNCHANGED up
      BY <1>3, <1>8, <2>2 DEF OnAccept, SndBusy
    <3>2. /\ snd' \in Senders /\ SndBusy' /\ snd'.batch = snd.batch /\ snd'.next = snd.next
          /\ snd'.file = snd.file /\ snd'.unanswered = snd.unanswered
          /\ snd'.untold = snd.untold /\ snd'.state = "Sending" /\ snd'.sent = snd.sent
          /\ snd'.crc = snd.crc /\ snd'.popped = snd.popped /\ snd'.all = snd.all
          /\ snd'.read = snd.read /\ snd'.acked = snd.acked
      BY <1>6, <3>1 DEF SndBusy, Senders
    <3>3. AckedOK' /\ Ordered' /\ InUp' = InUp
      BY <1>2, <3>1, <3>2 DEF IInv, RecordsOK, AckedOK, Ordered, InUp
    <3> QED BY <1>1, <1>2, <1>6, <3>1, <3>2, <3>3, WorkingStep DEF IInv, SenderOK
  <2>3. CASE snd.state = "Offering" /\ m.batch = snd.batch /\ ~m.ok
    <3>1. SndBusy /\ snd' = Settled(snd, "Refused") /\ UNCHANGED up
      BY <1>3, <1>8, <2>3 DEF OnAccept, SndBusy
    <3> QED BY <1>7, <2>3, <3>1
  <2> QED BY <2>1, <2>2, <2>3
<1>9. CASE m.type = "Ack"
  <2> DEFINE counted == [snd EXCEPT !.acked = @ + 1]
             ours == snd.state = "Sending" /\ m.batch = snd.batch
  <2>1. CASE ~ours
    BY <1>3, <1>5, <1>9, <2>1 DEF OnAck
  <2>2. CASE ours /\ m.ok /\ m.file # snd.acked + 1
    <3>1. SndBusy /\ AbortSending(snd)
      BY <1>3, <1>9, <2>2 DEF OnAck, SndBusy
    <3> QED BY <1>1, <1>2, <3>1, AbortStep
  <2>3. CASE ours /\ ~m.ok
    <3>1. SndBusy /\ snd' = Settled(snd, "Failed") /\ UNCHANGED up
      BY <1>3, <1>9, <2>3 DEF OnAck, SndBusy
    <3> QED BY <1>7, <2>3, <3>1
  <2>4. CASE ours /\ m.ok /\ m.file = snd.acked + 1
    <3>1. SndBusy /\ m.file \in Files /\ snd.acked \in Nat
      BY <1>3, <1>6, <1>9, <2>4 DEF SndBusy, Senders
    <3>2. /\ counted \in Senders /\ counted.batch = snd.batch /\ counted.next = snd.next
          /\ counted.file = snd.file /\ counted.unanswered = snd.unanswered
          /\ counted.untold = snd.untold /\ counted.state = snd.state
          /\ counted.sent = snd.sent /\ counted.crc = snd.crc /\ counted.popped = snd.popped
          /\ counted.all = snd.all /\ counted.read = snd.read /\ counted.acked = m.file
      <4>1. snd.acked + 1 \in 0..NumFiles
        BY <2>4, <3>1, FilesOK DEF Files
      <4> QED BY <1>6, <2>4, <3>1, <4>1 DEF Senders
    <3>3. /\ UNCHANGED up
          /\ snd' = IF m.file >= NumFiles THEN Settled(counted, "Done") ELSE counted
      BY <1>3, <1>9, <2>4, <3>2 DEF OnAck
    <3>4. \A f \in Files : f <= counted.acked => disk[counted.batch][f] # Missing
      <4> SUFFICES ASSUME NEW f \in Files, f <= m.file PROVE disk[snd.batch][f] # Missing
        BY <3>2
      <4>1. f <= snd.acked \/ f = m.file
        BY <2>4, <3>1 DEF Files
      <4> QED BY <1>4, <1>6, <1>9, <2>4, <3>1, <4>1
    <3> HIDE DEF counted
    <3>5. CASE m.file >= NumFiles
      <4>1. m.file = NumFiles
        BY <3>1, <3>5, FilesOK DEF Files
      <4>2. ~(Receiving /\ rcv.batch = snd.batch)
        <5> SUFFICES ASSUME Receiving, rcv.batch = snd.batch PROVE FALSE
          OBVIOUS
        <5>1. /\ rcv.file \in Files
              /\ disk[rcv.batch][m.file] # Missing => m.file < rcv.file
          BY <3>1 DEF IInv, ReceiverOK
        <5>2. disk[rcv.batch][m.file] # Missing
          BY <1>4, <1>9, <2>4
        <5> QED BY <4>1, <5>1, <5>2, FilesOK DEF Files
      <4> QED BY <1>1, <1>2, <1>4, <2>4, <3>1, <3>2, <3>3, <3>4, <3>5, <4>1, <4>2, SettlingStep
    <3>6. CASE ~(m.file >= NumFiles)
      <4>1. snd' = counted /\ SndBusy'
        BY <2>4, <3>2, <3>3, <3>6 DEF SndBusy
      <4>2. AckedOK' /\ Ordered' /\ InUp' = InUp
        <5>1. AckedOK'
          BY <1>2, <3>1, <3>2, <3>4, <4>1, BusyFacts DEF AckedOK
        <5> QED BY <3>3, <5>1 DEF IInv, RecordsOK, Ordered, InUp
      <4>3. /\ snd'.file <= NumFiles =>
                 /\ snd'.sent <= Size[snd'.file]
                 /\ snd'.crc = [at \in 1..snd'.sent |-> Chunk(snd'.file, at)]
            /\ snd'.popped <= snd'.all /\ snd'.all <= snd'.read
        BY <3>2, <4>1 DEF IInv, SenderOK
      <4>4. snd'.state # "Offering" /\ snd'.file = snd.file
        BY <2>4, <3>2, <4>1
      <4> QED BY <1>1, <1>2, <1>6, <3>1, <3>2, <3>3, <4>1, <4>2, <4>3, <4>4, WorkingStep
    <3> QED BY <3>5, <3>6
  <2> QED BY <1>3, <1>9, <2>1, <2>2, <2>3, <2>4
<1>10. CASE m.type = "Cancel"
  <2>1. CASE m.batch # snd.batch \/ ~SndBusy
    BY <1>3, <1>5, <1>10, <2>1 DEF OnHostCancel
  <2>2. CASE m.batch = snd.batch /\ SndBusy
    <3>1. /\ UNCHANGED up
          /\ snd' = Settled(snd, IF snd.state = "Offering" THEN "Refused" ELSE "Failed")
      BY <1>3, <1>10, <2>2 DEF OnHostCancel
    <3> QED BY <1>7, <1>10, <2>2, <3>1
  <2> QED BY <2>1, <2>2
<1> QED BY <1>3, <1>8, <1>9, <1>10

\* The reader thread reads one chunk, or finds that it cannot.
LEMMA ReaderStep == ASSUME IInv, ReaderThread PROVE IInv'
<1>1. /\ SndBusy /\ snd.read < Total /\ Total \in Nat
      /\ snd' \in {[snd EXCEPT !.read = @ + 1], [snd EXCEPT !.failed = TRUE]}
      /\ UNCHANGED <<rcv, slot, disk, up, down, link, torn, gone, on>>
  BY TotalIsNat DEF ReaderThread
<1> HIDE DEF Total
<1>2. snd \in Senders /\ snd.read \in 0..Total /\ snd.read + 1 \in 0..Total
  BY <1>1, BusyFacts DEF Senders
<1>3. /\ snd' \in Senders /\ snd'.state = snd.state /\ snd'.batch = snd.batch
      /\ snd'.next = snd.next /\ snd'.file = snd.file /\ snd'.unanswered = snd.unanswered
      /\ snd'.untold = snd.untold /\ snd'.sent = snd.sent /\ snd'.crc = snd.crc
      /\ snd'.popped = snd.popped /\ snd'.all = snd.all /\ snd.read <= snd'.read
      /\ snd'.acked = snd.acked
  <2>1. CASE snd' = [snd EXCEPT !.read = @ + 1]
    BY <1>2, <2>1 DEF Senders
  <2>2. CASE snd' = [snd EXCEPT !.failed = TRUE]
    <3>1. snd' \in Senders
      BY <1>2, <2>2 DEF Senders
    <3>2. snd.read <= snd.read
      BY <1>1, <1>2
    <3> QED BY <1>2, <2>2, <3>1, <3>2 DEF Senders
  <2> QED BY <1>1, <2>1, <2>2
<1>4. SndBusy' /\ snd.file <= snd'.file /\ snd.popped <= snd.all /\ snd.all <= snd'.read
  <2>1. snd.all \in Int /\ snd.read \in Int /\ snd'.read \in Int /\ snd.file \in Int
    BY <1>2, <1>3 DEF Senders
  <2>2. snd.popped <= snd.all /\ snd.all <= snd.read
    BY DEF IInv, SenderOK
  <2> QED BY <1>1, <1>3, <2>1, <2>2 DEF SndBusy
<1>5. AckedOK' /\ Ordered' /\ InUp' = InUp /\ InDown' = InDown
  BY <1>1, <1>3 DEF IInv, RecordsOK, AckedOK, Ordered, InUp, InDown
<1>6. /\ up' \in Seq(UpRecords) /\ Len(up') <= Cap
      /\ down' \in Seq(DownRecords) /\ Len(down') <= Len(down)
  BY <1>1, LenProperties DEF IInv, Types
<1>7. snd'.state = "Offering" => snd'.file = 1
  BY <1>1, <1>3, BusyFacts
<1> QED BY <1>1, <1>3, <1>4, <1>5, <1>6, <1>7, WorkingStep DEF IInv, SenderOK

\* A chunk, the end of a file, both, or neither: the end of a file carries its checksum.
LEMMA SendStep == ASSUME IInv, SendOneChunk PROVE IInv'
<1> DEFINE data == Chunk(snd.file, snd.sent + 1)
           look == ReadAt(snd)
           fed  == [look EXCEPT !.crc = Append(@, data), !.sent = @ + 1, !.all = @ + 1]
           rec  == [type |-> "Chunk", batch |-> snd.batch, file |-> snd.file,
                    at |-> snd.sent, data |-> data]
<1>1. /\ snd.state = "Sending" /\ SndBusy /\ snd.file \in Files
      /\ snd \in Senders /\ snd.batch \in Batches /\ snd.batch < snd.next
      /\ snd.batch \in Int /\ snd.file \in Int /\ snd.sent \in Nat /\ snd.all \in Nat
      /\ snd.read \in Nat /\ Size[snd.file] \in Nat /\ data \in Data
      /\ snd.sent <= Size[snd.file] /\ snd.popped <= snd.all /\ snd.all <= snd.read
      /\ snd.crc = [at \in 1..snd.sent |-> Chunk(snd.file, at)] /\ snd.crc \in Seq(Data)
  <2>1. snd.state = "Sending" /\ snd.file <= NumFiles /\ SndBusy
    BY DEF SendOneChunk, SndBusy
  <2>2. snd \in Senders /\ snd.batch \in Batches /\ snd.batch < snd.next
    BY <2>1, BusyFacts
  <2>3. snd.file \in Files
    BY <2>1, <2>2, FilesOK DEF Senders, Files
  <2>4. snd.file \in Int /\ snd.sent \in Nat /\ snd.all \in Nat /\ snd.read \in Nat
        /\ Size[snd.file] \in Nat /\ snd.crc \in Seq(Data) /\ snd.batch \in Int
    BY <2>2, <2>3, FilesOK, TotalIsNat DEF Senders, Files, Batches
  <2>5. data \in Data
    BY <2>3, <2>4 DEF Chunk, Data, Files
  <2> QED BY <2>1, <2>2, <2>3, <2>4, <2>5 DEF IInv, SenderOK
<1>2. /\ UNCHANGED <<rcv, slot, disk, link, torn, gone, on>>
      /\ down' \in Seq(DownRecords) /\ Len(down') <= Len(down) /\ InDown' \subseteq InDown
  BY LenProperties DEF SendOneChunk, IInv, Types, InDown
<1>3. up \in Seq(UpRecords) /\ Len(up) <= Cap /\ Ordered
  BY DEF IInv, Types, RecordsOK
\* The sender after a look for its chunk, and after the chunk.
<1>4. /\ look \in Senders /\ look.state = "Sending" /\ look.batch = snd.batch
      /\ look.next = snd.next /\ look.file = snd.file /\ look.unanswered = snd.unanswered
      /\ look.untold = snd.untold /\ look.sent = snd.sent /\ look.crc = snd.crc
      /\ look.popped = snd.all /\ look.all = snd.all /\ look.read = snd.read
      /\ look.acked = snd.acked
  BY <1>1 DEF ReadAt, Senders
<1> HIDE DEF look, data
<1>5. /\ fed \in Senders /\ fed.state = "Sending" /\ fed.batch = snd.batch
      /\ fed.next = snd.next /\ fed.file = snd.file /\ fed.unanswered = snd.unanswered
      /\ fed.untold = snd.untold /\ fed.sent = snd.sent + 1 /\ fed.crc = Append(snd.crc, data)
      /\ fed.popped = snd.all /\ fed.all = snd.all + 1 /\ fed.read = snd.read
      /\ fed.acked = snd.acked
  <2>1. Append(snd.crc, data) \in Seq(Data) /\ snd.sent + 1 \in Nat /\ snd.all + 1 \in Nat
    BY <1>1, AppendProperties
  <2> QED BY <1>4, <2>1 DEF Senders
<1>6. Append(snd.crc, data) = [at \in 1..snd.sent + 1 |-> Chunk(snd.file, at)]
  <2> DEFINE g == [at \in 1..snd.sent + 1 |-> Chunk(snd.file, at)]
  <2>1. Len(snd.crc) = snd.sent /\ DOMAIN snd.crc = 1..snd.sent
    BY <1>1, LenProperties
  <2>2. /\ Append(snd.crc, data) \in Seq(Data)
        /\ DOMAIN Append(snd.crc, data) = 1..snd.sent + 1
        /\ \A at \in 1..snd.sent : Append(snd.crc, data)[at] = snd.crc[at]
        /\ Append(snd.crc, data)[snd.sent + 1] = data
    BY <1>1, <2>1, AppendProperties
  <2>3. ASSUME NEW at \in 1..snd.sent + 1 PROVE Append(snd.crc, data)[at] = g[at]
    <3>1. CASE at \in 1..snd.sent
      BY <1>1, <2>2, <3>1
    <3>2. CASE at = snd.sent + 1
      BY <2>2, <3>2 DEF data
    <3> QED BY <1>1, <3>1, <3>2
  <2>4. Append(snd.crc, data) \in [1..snd.sent + 1 -> Data]
    BY <2>2, LenProperties
  <2> HIDE DEF data
  <2> QED BY <2>3, <2>4
<1> HIDE DEF fed
\* A file is finished with all its chunks fed.
<1>7. ASSUME NEW s \in {snd, fed}, s.sent >= Size[snd.file], s.sent <= Size[snd.file]
      PROVE  /\ s.crc = Content(snd.file) /\ DoneRecord(s) \in UpRecords
             /\ DoneRecord(s).type = "Done" /\ DoneRecord(s).batch = snd.batch
             /\ DoneRecord(s).file = snd.file /\ DoneRecord(s).crc = Content(snd.file)
             /\ FileFinished(s) \in Senders /\ FileFinished(s).state = "Sending"
             /\ FileFinished(s).batch = snd.batch /\ FileFinished(s).next = snd.next
             /\ FileFinished(s).file = snd.file + 1
             /\ FileFinished(s).unanswered = snd.unanswered
             /\ FileFinished(s).untold = snd.untold /\ FileFinished(s).sent = 0
             /\ FileFinished(s).crc = <<>> /\ FileFinished(s).popped = s.popped
             /\ FileFinished(s).all = s.all /\ FileFinished(s).read = s.read
             /\ FileFinished(s).acked = snd.acked
  <2>1. /\ s \in Senders /\ s.batch = snd.batch /\ s.file = snd.file /\ s.sent \in Nat
        /\ s.state = "Sending" /\ s.next = snd.next /\ s.unanswered = snd.unanswered
        /\ s.untold = snd.untold /\ s.acked = snd.acked
        /\ s.crc = [at \in 1..s.sent |-> Chunk(snd.file, at)]
    <3>1. CASE s = snd
      BY <1>1, <3>1
    <3>2. CASE s = fed
      <4>1. fed.sent \in Nat /\ fed.crc = [at \in 1..fed.sent |-> Chunk(snd.file, at)]
        BY <1>1, <1>5, <1>6
      <4> QED BY <1>5, <3>2, <4>1
    <3> QED BY <1>7, <3>1, <3>2
  <2>2. s.sent = Size[snd.file]
    BY <1>1, <1>7, <2>1
  <2>3. s.crc = Content(snd.file) /\ s.crc \in Seq(Data)
    BY <1>1, <2>1, <2>2, ContentFacts DEF Content
  <2>4. /\ DoneRecord(s) \in UpRecords
        /\ DoneRecord(s).type = "Done" /\ DoneRecord(s).batch = snd.batch
        /\ DoneRecord(s).file = snd.file /\ DoneRecord(s).crc = s.crc
    BY <1>1, <2>1, <2>3 DEF DoneRecord, UpRecords, DoneRecords
  <2>5. snd.file + 1 \in 1..NumFiles + 1 /\ <<>> \in Seq(Data) /\ 0 \in Nat
    <3>1. snd.file \in 1..NumFiles /\ NumFiles \in Nat
      BY <1>1, FilesOK DEF Files
    <3> QED BY <3>1, EmptySeq
  <2> QED BY <2>1, <2>3, <2>4, <2>5 DEF FileFinished, Senders
<1>8. ASSUME NEW r, r.type = "Done", r.batch = snd.batch, r.file = snd.file,
             r.crc = Content(snd.file), snd'.batch = snd.batch, snd'.file = snd.file + 1
      PROVE  r.type # "Offer" /\ r.batch < snd.next
             /\ r.crc = Content(r.file) /\ Past(r.batch, r.file)'
  BY <1>1, <1>8 DEF Past
<1>9. rec \in UpRecords /\ rec.type = "Chunk" /\ rec.batch = snd.batch
  BY <1>1 DEF UpRecords, ChunkRecords
<1>10. ASSUME snd' \in Senders, snd'.acked = snd.acked, snd'.batch = snd.batch PROVE AckedOK'
  BY <1>2, <1>10 DEF IInv, AckedOK
<1> HIDE DEF rec
<1>11. \/ /\ snd.sent >= Size[snd.file] /\ Sendable(1)
          /\ snd' = FileFinished(snd) /\ up' = Append(up, DoneRecord(snd))
       \/ AbortSending(snd)
       \/ /\ snd.sent < Size[snd.file] /\ snd.read > snd.all
          /\ \/ /\ fed.sent >= Size[snd.file] /\ Sendable(2)
                /\ snd' = FileFinished(fed) /\ up' = up \o <<rec, DoneRecord(fed)>>
             \/ Sendable(1) /\ snd' = fed /\ up' = Append(up, rec)
             \/ snd' = look /\ UNCHANGED up
  BY DEF SendOneChunk, look, fed, data, rec
<1>12. CASE /\ snd.sent >= Size[snd.file] /\ Sendable(1)
            /\ snd' = FileFinished(snd) /\ up' = Append(up, DoneRecord(snd))
  <2> DEFINE r == DoneRecord(snd)
  <2>1. /\ r \in UpRecords /\ r.type = "Done" /\ r.batch = snd.batch /\ r.file = snd.file
        /\ r.crc = Content(snd.file) /\ snd' \in Senders /\ snd'.state = "Sending"
        /\ snd'.batch = snd.batch /\ snd'.next = snd.next /\ snd'.file = snd.file + 1
        /\ snd'.unanswered = snd.unanswered /\ snd'.untold = snd.untold /\ snd'.sent = 0
        /\ snd'.crc = <<>> /\ snd'.popped = snd.popped /\ snd'.all = snd.all
        /\ snd'.read = snd.read /\ snd'.acked = snd.acked
    BY <1>1, <1>7, <1>12
  <2>2. /\ up' \in Seq(UpRecords) /\ Len(up') = Len(up) + 1 /\ InUp' = InUp \cup {r} /\ Ordered'
    BY <1>3, <1>12, <2>1, UpPut
  <2>3. Len(up) + 1 <= Cap
    BY <1>12 DEF Sendable
  <2> HIDE DEF r
  <2>4. SndBusy' /\ AckedOK' /\ snd.file <= snd'.file
    BY <1>1, <1>10, <2>1 DEF SndBusy
  <2>5. \A m \in InUp' :
           \/ m \in InUp
           \/ /\ m.type # "Offer" /\ m.batch < snd.next
              /\ m.type = "Done" => m.crc = Content(m.file) /\ Past(m.batch, m.file)'
    BY <1>8, <2>1, <2>2
  <2>6. snd'.file <= NumFiles =>
          /\ snd'.sent <= Size[snd'.file]
          /\ snd'.crc = [at \in 1..snd'.sent |-> Chunk(snd'.file, at)]
    <3>1. snd'.file <= NumFiles => Size[snd'.file] \in Nat
      BY <1>1, <2>1, FilesOK DEF Files
    <3> QED BY <2>1, <3>1
  <2> QED BY <1>1, <1>2, <2>1, <2>2, <2>3, <2>4, <2>5, <2>6, WorkingStep
<1>13. CASE AbortSending(snd)
  BY <1>1, <1>2, <1>13, AbortStep
<1>14. CASE /\ snd.sent < Size[snd.file] /\ snd.read > snd.all
            /\ fed.sent >= Size[snd.file] /\ Sendable(2)
            /\ snd' = FileFinished(fed) /\ up' = up \o <<rec, DoneRecord(fed)>>
  <2> DEFINE r == DoneRecord(fed)
  <2>1. /\ r \in UpRecords /\ r.type = "Done" /\ r.batch = snd.batch /\ r.file = snd.file
        /\ r.crc = Content(snd.file) /\ snd' \in Senders /\ snd'.state = "Sending"
        /\ snd'.batch = snd.batch /\ snd'.next = snd.next /\ snd'.file = snd.file + 1
        /\ snd'.unanswered = snd.unanswered /\ snd'.untold = snd.untold /\ snd'.sent = 0
        /\ snd'.crc = <<>> /\ snd'.popped = snd.all /\ snd'.all = snd.all + 1
        /\ snd'.read = snd.read /\ snd'.acked = snd.acked
    <3>1. fed.sent <= Size[snd.file]
      BY <1>1, <1>5, <1>14
    <3> QED BY <1>1, <1>5, <1>7, <1>14, <3>1
  <2>2. r.type # "Offer" /\ rec.type # "Offer"
    BY <1>9, <2>1
  <2> HIDE DEF r
  <2>3. /\ up' \in Seq(UpRecords) /\ Len(up') = Len(up) + 2 /\ InUp' = InUp \cup {rec, r}
        /\ Ordered'
    <3>1. up' = up \o <<rec, r>>
      BY <1>14 DEF r
    <3> QED BY <1>3, <1>9, <2>1, <2>2, <3>1, UpPutTwo
  <2>4. Len(up) + 2 <= Cap
    BY <1>14 DEF Sendable
  <2>5. /\ SndBusy' /\ AckedOK' /\ snd.file <= snd'.file
        /\ snd'.popped <= snd'.all /\ snd'.all <= snd'.read
    BY <1>1, <1>10, <1>14, <2>1 DEF SndBusy
  <2>6. \A m \in InUp' :
           \/ m \in InUp
           \/ /\ m.type # "Offer" /\ m.batch < snd.next
              /\ m.type = "Done" => m.crc = Content(m.file) /\ Past(m.batch, m.file)'
    BY <1>1, <1>8, <1>9, <2>1, <2>3
  <2>7. snd'.file <= NumFiles =>
          /\ snd'.sent <= Size[snd'.file]
          /\ snd'.crc = [at \in 1..snd'.sent |-> Chunk(snd'.file, at)]
    <3>1. snd'.file <= NumFiles => Size[snd'.file] \in Nat
      BY <1>1, <2>1, FilesOK DEF Files
    <3> QED BY <2>1, <3>1
  <2> QED BY <1>1, <1>2, <2>1, <2>3, <2>4, <2>5, <2>6, <2>7, WorkingStep
<1>15. CASE /\ snd.sent < Size[snd.file] /\ snd.read > snd.all
            /\ Sendable(1) /\ snd' = fed /\ up' = Append(up, rec)
  <2>1. /\ up' \in Seq(UpRecords) /\ Len(up') = Len(up) + 1 /\ InUp' = InUp \cup {rec} /\ Ordered'
    <3>1. rec.type # "Offer"
      BY <1>9
    <3> QED BY <1>3, <1>9, <1>15, <3>1, UpPut
  <2>2. Len(up) + 1 <= Cap
    BY <1>15 DEF Sendable
  <2>3. /\ SndBusy' /\ AckedOK' /\ snd.file <= snd'.file
        /\ snd'.popped <= snd'.all /\ snd'.all <= snd'.read /\ snd'.sent <= Size[snd'.file]
    BY <1>1, <1>5, <1>10, <1>15 DEF SndBusy
  <2>4. \A m \in InUp' :
           \/ m \in InUp
           \/ /\ m.type # "Offer" /\ m.batch < snd.next
              /\ m.type = "Done" => m.crc = Content(m.file) /\ Past(m.batch, m.file)'
    BY <1>1, <1>9, <2>1
  <2> QED BY <1>1, <1>2, <1>5, <1>6, <1>15, <2>1, <2>2, <2>3, <2>4, WorkingStep
<1>16. CASE /\ snd.sent < Size[snd.file] /\ snd.read > snd.all
            /\ snd' = look /\ UNCHANGED up
  <2>1. /\ SndBusy' /\ AckedOK' /\ snd.file <= snd'.file
        /\ snd'.popped <= snd'.all /\ snd'.all <= snd'.read /\ snd'.sent <= Size[snd'.file]
    BY <1>1, <1>4, <1>10, <1>16 DEF SndBusy
  <2>2. InUp' = InUp /\ Ordered'
    BY <1>3, <1>16 DEF InUp, Ordered
  <2> QED BY <1>1, <1>2, <1>3, <1>4, <1>16, <2>1, <2>2, WorkingStep
<1> QED BY <1>11, <1>12, <1>13, <1>14, <1>15, <1>16

\* The user stops the transfer, or the offer is not answered in time.
LEMMA CancelStep == ASSUME IInv, Cancel \/ OfferTimeout PROVE IInv'
<1>1. down' \in Seq(DownRecords) /\ Len(down') <= Len(down) /\ InDown' \subseteq InDown
  BY LenProperties DEF Cancel, OfferTimeout, IInv, Types, InDown
<1>2. CASE Cancel
  BY <1>1, <1>2, AbortStep DEF Cancel
<1>3. CASE OfferTimeout
  <2> DEFINE s == [snd EXCEPT !.unanswered = TRUE]
  <2>1. SndBusy /\ AbortSending(s) /\ snd.state = "Offering"
    BY <1>3 DEF OfferTimeout, SndBusy
  <2>2. UNCHANGED <<rcv, slot, disk, link, torn, gone, on>>
    BY <1>3 DEF OfferTimeout
  <2>3. s = snd \/ (snd.state = "Offering" /\ s = [snd EXCEPT !.unanswered = TRUE])
    BY <2>1
  <2> HIDE DEF s
  <2> QED BY <1>1, <2>1, <2>2, <2>3, AbortStep
<1> QED BY <1>2, <1>3

\* The upload learns that there is nobody left to tell.
LEMMA ClientLinkLostStep == ASSUME IInv, ClientLinkLost PROVE IInv'
<1>1. /\ SndBusy /\ snd' = Settled(snd, "Failed") /\ ~(link = "up" /\ torn = {})
      /\ UNCHANGED <<up, rcv, slot, disk, link, torn, gone, on>>
  BY DEF ClientLinkLost
<1>2. down' \in Seq(DownRecords) /\ Len(down') <= Len(down) /\ InDown' \subseteq InDown
  BY LenProperties DEF ClientLinkLost, IInv, Types, InDown
<1>3. snd \in Senders /\ \A f \in Files : f <= snd.acked => disk[snd.batch][f] # Missing
  BY DEF IInv, Types, AckedOK
<1> QED BY <1>1, <1>2, <1>3, SettlingStep

-----------------------------------------------------------------------------
(* The host's steps.                                                       *)

\* What a host's batch may still be answered.
LEMMA ToComeFacts ==
  ASSUME IInv
  PROVE  /\ ToCome \in Nat /\ Len(down) \in Nat /\ Offered \in Nat
         /\ Receiving => ToCome >= 2
<1>1. /\ rcv.file \in 1..NumFiles + 1 /\ (Receiving => rcv.file \in 1..NumFiles)
      /\ NumFiles \in Nat /\ snd.next \in 1..MaxBatches + 1 /\ MaxBatches \in Nat
  BY FilesOK DEF IInv, Types, Receivers, Senders, ReceiverOK, Files
<1>2. Len(down) \in Nat
  BY LenProperties DEF IInv, Types
<1> QED BY <1>1, <1>2 DEF ToCome, Offered

\* Whatever the host does that leaves its folder as it is and takes up no new batch: the
\* only answer it gives ends the batch it has in hand.
LEMMA HostStep ==
  ASSUME IInv, UNCHANGED <<snd, disk>>, Types', ReceiverOK', AgreeOK', Ordered',
         Receiving' => Receiving /\ rcv'.file = rcv.file,
         rcv'.batch = rcv.batch \/ (~Receiving' /\ rcv'.batch = 0),
         \A m \in InUp' : m \in InUp \/ (m.type = "Chunk" /\ m.batch < snd.next),
         \/ Len(down') <= Len(down)
         \/ Receiving /\ ~Receiving' /\ Len(down') <= Len(down) + 1,
         \A k \in InDown' :
           \/ k \in InDown
           \/ Receiving /\ ~Receiving' /\ k.batch = rcv.batch /\ (k.type = "Ack" => ~k.ok)
  PROVE  IInv'
<1>1. SenderOK' /\ AckedOK' /\ FolderOK'
  BY DEF IInv, SenderOK, AckedOK, FolderOK, Past
<1>2. RecordsOK'
  <2> SUFFICES ASSUME NEW m \in InUp'
               PROVE  /\ m.batch < snd.next
                      /\ m.type = "Done" => m.crc = Content(m.file) /\ Past(m.batch, m.file)
                      /\ m.type = "Offer" =>
                           /\ rcv'.batch < m.batch
                           /\ \A k \in InDown' : k.batch < m.batch
                           /\ \A f \in Files : disk[m.batch][f] = Missing
    BY DEF RecordsOK, Past
  <2>1. CASE m \in InUp
    <3>1. /\ m.batch < snd.next
          /\ m.type = "Done" => m.crc = Content(m.file) /\ Past(m.batch, m.file)
          /\ m.type = "Offer" => /\ rcv.batch < m.batch
                                 /\ \A k \in InDown : k.batch < m.batch
                                 /\ \A f \in Files : disk[m.batch][f] = Missing
      BY <2>1 DEF IInv, RecordsOK
    <3>2. m.batch \in Batches /\ rcv.batch \in Int
      BY <2>1, RecordKinds DEF IInv, Types, InUp, Receivers
    <3>3. m.type = "Offer" => rcv'.batch < m.batch
      BY <3>1, <3>2 DEF Batches
    <3>4. m.type = "Offer" => \A k \in InDown' : k.batch < m.batch
      BY <3>1
    <3> QED BY <3>1, <3>3, <3>4
  <2>2. CASE m.type = "Chunk" /\ m.batch < snd.next
    BY <2>2
  <2> QED BY <2>1, <2>2
<1>3. AnswersOK'
  <2> SUFFICES ASSUME NEW k \in InDown'
               PROVE  /\ k.batch < snd.next
                      /\ k.type = "Ack" /\ k.ok => disk[k.batch][k.file] # Missing
                      /\ ~(k.type \in {"Accept", "Ack"} /\ k.ok) =>
                           ~(Receiving' /\ rcv'.batch = k.batch)
    BY DEF AnswersOK
  <2>1. CASE k \in InDown
    BY <2>1 DEF IInv, AnswersOK
  <2>2. CASE Receiving /\ ~Receiving' /\ k.batch = rcv.batch /\ (k.type = "Ack" => ~k.ok)
    BY <2>2 DEF IInv, ReceiverOK
  <2> QED BY <2>1, <2>2
<1>4. CountOK'
  <2> DEFINE have == Len(down) + ToCome
  <2>1. have \in Int /\ have' \in Int /\ have' <= have
    <3>1. Len(down') \in Nat
      BY LenProperties DEF Types
    <3>2. CASE ~Receiving'
      BY <3>1, <3>2, ToComeFacts DEF ToCome
    <3>3. CASE Receiving'
      <4>1. ToCome' = ToCome
        BY <3>3 DEF ToCome
      <4> QED BY <3>1, <3>3, <4>1, ToComeFacts
    <3> QED BY <3>2, <3>3
  <2>2. /\ have <= (NumFiles + 2) * Offered
        /\ \A m \in InUp : m.type = "Offer" => have <= (NumFiles + 2) * (m.batch - 1)
    BY DEF IInv, CountOK
  <2> HIDE DEF have
  <2>3. ASSUME NEW x \in Int, have <= x PROVE have' <= x
    BY <2>1, <2>3
  <2>4. NumFiles \in Nat /\ Offered' = Offered /\ (NumFiles + 2) * Offered \in Int
    BY ToComeFacts, FilesOK DEF Offered
  <2>5. \A m \in InUp' : m.type = "Offer" => m \in InUp /\ (NumFiles + 2) * (m.batch - 1) \in Int
    <3>1. \A m \in InUp : m.batch \in Int
      BY RecordKinds DEF IInv, Types, InUp, Batches
    <3> QED BY <2>4, <3>1
  <2> QED BY <2>2, <2>3, <2>4, <2>5 DEF CountOK, have
<1> QED BY <1>1, <1>2, <1>3, <1>4 DEF IInv

\* A record taken by the host was of no use to the agreement about another batch.
LEMMA AgreeTaken ==
  ASSUME IInv, UNCHANGED <<snd, link, torn>>, up # <<>>, up' = Tail(up),
         Receiving' =>
           \/ /\ Receiving /\ rcv'.batch = rcv.batch
              /\ ~(Head(up).type = "Cancel" /\ Head(up).batch = rcv.batch)
           \/ Head(up).type = "Offer" /\ rcv'.batch = Head(up).batch
  PROVE  AgreeOK'
<1> PICK h \in UpRecords : h = Head(up)
  BY UpTaken DEF IInv, Types
<1>1. /\ InUp = InUp' \cup {h} /\ h \in InUp
      /\ \A m \in InUp' : m.type = "Offer" => h.batch < m.batch
  BY UpTaken DEF IInv, Types, RecordsOK
<1>2. ASSUME NEW b, Known(b), ~(h.type = "Cancel" /\ h.batch = b) PROVE Known(b)'
  BY <1>1, <1>2 DEF Known, SndBusy
<1> SUFFICES ASSUME link = "up", torn = {}
             PROVE  /\ Receiving' => Known(rcv.batch)'
                    /\ \A m \in InUp' : m.type = "Offer" => Known(m.batch)'
  BY DEF AgreeOK
<1>3. /\ Receiving => Known(rcv.batch)
      /\ \A m \in InUp : m.type = "Offer" => Known(m.batch)
  BY DEF IInv, AgreeOK
<1>4. ASSUME Receiving' PROVE Known(rcv.batch)'
  <2>1. PICK b : b = rcv'.batch
    OBVIOUS
  <2>2. Known(b) /\ ~(h.type = "Cancel" /\ h.batch = b)
    BY <1>1, <1>3, <1>4, <2>1
  <2>3. Known(b)'
    BY <1>2, <2>2
  <2> QED BY <2>1, <2>3 DEF Known
<1>5. ASSUME NEW m \in InUp', m.type = "Offer" PROVE Known(m.batch)'
  <2>1. h.batch \in Int /\ h.batch < m.batch /\ Known(m.batch)
    BY <1>1, <1>3, <1>5, RecordKinds DEF Batches
  <2> QED BY <1>2, <2>1
<1> QED BY <1>4, <1>5

\* Nor are the host's own steps, when they leave the stream alone.
LEMMA AgreeLeft ==
  ASSUME IInv, UNCHANGED <<snd, link, torn>>, Receiving' => Receiving /\ rcv'.batch = rcv.batch,
         \A m \in InUp : m.type = "Cancel" => m \in InUp',
         \A m \in InUp' : m.type = "Offer" => m \in InUp
  PROVE  AgreeOK'
<1>1. ASSUME NEW b, Known(b) PROVE Known(b)'
  BY <1>1 DEF Known, SndBusy
<1> SUFFICES ASSUME link = "up", torn = {}
             PROVE  /\ Receiving' => Known(rcv.batch)'
                    /\ \A m \in InUp' : m.type = "Offer" => Known(m.batch)'
  BY DEF AgreeOK
<1>2. /\ Receiving => Known(rcv.batch)
      /\ \A m \in InUp : m.type = "Offer" => Known(m.batch)
  BY DEF IInv, AgreeOK
<1>3. ASSUME Receiving' PROVE Known(rcv.batch)'
  <2>1. PICK b : b = rcv'.batch
    OBVIOUS
  <2>2. Known(b)'
    BY <1>1, <1>2, <1>3, <2>1
  <2> QED BY <2>1, <2>2 DEF Known
<1>4. ASSUME NEW m \in InUp', m.type = "Offer" PROVE Known(m.batch)'
  BY <1>1, <1>2, <1>4
<1> QED BY <1>3, <1>4

\* The host has no batch in hand any more, and no part file.
LEMMA EndedStep ==
  ASSUME IInv, UNCHANGED <<snd, disk, torn>>, rcv' \in Receivers, ~Receiving',
         rcv'.batch \in {0, rcv.batch}, slot' = Closed, on' \in BOOLEAN, gone' \in BOOLEAN,
         AgreeOK', up' \in Seq(UpRecords), Len(up') <= Cap, Ordered', InUp' \subseteq InUp,
         down' \in Seq(DownRecords),
         Len(down') <= Len(down) \/ (Receiving /\ Len(down') <= Len(down) + 1),
         \A k \in InDown' :
           k \in InDown \/ (Receiving /\ k.batch = rcv.batch /\ (k.type = "Ack" => ~k.ok))
  PROVE  IInv'
<1>1. slot' \in Slots
  BY EmptySeq DEF Closed, Slots
<1>2. Types'
  BY <1>1 DEF IInv, Types
<1>3. ReceiverOK'
  <2>1. rcv'.batch < snd'.next
    <3>1. rcv.batch < snd.next /\ snd.next \in 1..MaxBatches + 1
      BY DEF IInv, Types, Senders, ReceiverOK
    <3> QED BY <3>1, FilesOK
  <2>2. /\ slot'.open = FALSE /\ slot'.written = 0 /\ Len(slot'.data) = 0 /\ DiskRoom \in Nat
    BY FilesOK DEF Closed
  <2> QED BY <2>1, <2>2 DEF ReceiverOK
<1> QED BY <1>2, <1>3, HostStep

\* The receiver gives its batch up.
LEMMA ReceiverAborts ==
  ASSUME IInv, Receiving, UNCHANGED <<snd, link, torn, gone, on>>, AgreeOK',
         NEW r \in Receivers, r.batch = rcv.batch,
         NEW msgs \in {<<>>, <<CancelRecord>>, <<AckRecord(FALSE)>>}, AbortReceiving(r, msgs),
         up' \in Seq(UpRecords), Len(up') <= Cap, Ordered', InUp' \subseteq InUp
  PROVE  IInv'
<1>1. rcv.batch \in Batches /\ rcv.file \in Files /\ down \in Seq(DownRecords)
  BY DEF IInv, Types, ReceiverOK
<1>2. /\ rcv' \in Receivers /\ ~Receiving' /\ rcv'.batch = rcv.batch
      /\ slot' = Closed /\ UNCHANGED disk /\ Answer(msgs)
  BY DEF AbortReceiving, Receivers, Receiving
<1>3. /\ CancelRecord \in DownRecords /\ CancelRecord.type = "Cancel"
      /\ CancelRecord.batch = rcv.batch
      /\ AckRecord(FALSE) \in DownRecords /\ ~AckRecord(FALSE).ok
      /\ AckRecord(FALSE).batch = rcv.batch
  BY <1>1 DEF CancelRecord, AckRecord, DownRecords, CancelRecords, AckRecords
<1>4. /\ down' \in Seq(DownRecords) /\ (Len(down') <= Len(down) \/ Len(down') <= Len(down) + 1)
      /\ \A k \in InDown' : k \in InDown \/ (k.batch = rcv.batch /\ (k.type = "Ack" => ~k.ok))
  <2>1. CASE msgs = <<>>
    BY <1>1, <1>2, <2>1, Unanswered, LenProperties DEF InDown
  <2>2. CASE msgs = <<CancelRecord>>
    BY <1>1, <1>2, <1>3, <2>2, Answered
  <2>3. CASE msgs = <<AckRecord(FALSE)>>
    BY <1>1, <1>2, <1>3, <2>3, Answered
  <2> QED BY <2>1, <2>2, <2>3
<1>5. on' \in BOOLEAN /\ gone' \in BOOLEAN
  BY DEF IInv, Types
<1> QED BY <1>2, <1>4, <1>5, EndedStep

\* The host answers an offer: with what it takes up, nothing of that batch is in the folder
\* yet, no earlier answer was about it, and no earlier offer is on its way.
LEMMA OfferStep ==
  ASSUME IInv, on, up # <<>>, up' = Tail(up), NEW m \in UpRecords, m = Head(up),
         m.type = "Offer", NEW fits \in BOOLEAN, OnOffer(m, fits),
         UNCHANGED <<snd, link, torn, gone, on>>
  PROVE  IInv'
<1> DEFINE ok == rcv.accepting /\ ~Receiving /\ fits
<1> PICK yes \in BOOLEAN : yes = ok
  BY DEF IInv, Types, Receivers
<1> DEFINE r == [type |-> "Accept", batch |-> m.batch, ok |-> yes]
<1>1. /\ UNCHANGED <<slot, disk>> /\ Answer(<<r>>)
      /\ yes => rcv' = [NewReceiver EXCEPT !.state = "Receiving", !.batch = m.batch]
      /\ ~yes => rcv' = rcv
  BY DEF OnOffer
<1>2. /\ up' \in Seq(UpRecords) /\ Len(up') <= Cap /\ InUp = InUp' \cup {m} /\ Ordered'
      /\ \A k \in InUp' : k.type = "Offer" => m.batch < k.batch
  BY UpTaken DEF IInv, Types, RecordsOK
<1>3. /\ m.batch \in Batches /\ m.batch < snd.next /\ rcv.batch < m.batch
      /\ m.batch \in Nat /\ snd.next \in Nat /\ rcv.batch \in Nat
      /\ \A k \in InDown : k.batch < m.batch
      /\ \A f \in Files : disk[m.batch][f] = Missing
  <2>1. m \in InUp /\ m.batch \in Batches
    BY <1>2, RecordKinds
  <2>2. m.batch \in Nat /\ snd.next \in Nat /\ rcv.batch \in Nat
    <3>1. snd \in Senders /\ rcv \in Receivers
      BY DEF IInv, Types
    <3>2. snd.next \in Nat
      BY <3>1 DEF Senders
    <3>3. rcv.batch \in Nat
      BY <3>1 DEF Receivers
    <3> QED BY <2>1, <3>2, <3>3 DEF Batches
  <2> QED BY <2>1, <2>2 DEF IInv, RecordsOK
<1>4. r \in DownRecords /\ r.type = "Accept" /\ r.batch = m.batch /\ r.ok = yes
  BY <1>3 DEF DownRecords, AcceptRecords
<1> HIDE DEF r
<1>5. /\ down' \in Seq(DownRecords) /\ Len(down') <= Len(down) + 1
      /\ InDown' \subseteq InDown \cup {r} /\ Len(down) \in Nat /\ Len(down') \in Nat
  BY <1>1, <1>4, Answered, LenProperties DEF IInv, Types
<1>6. yes => /\ rcv' \in Receivers /\ Receiving' /\ rcv'.batch = m.batch /\ rcv'.file = 1
             /\ rcv'.got = 0 /\ rcv'.crc = <<>> /\ ~Receiving
  <2>1. 1 \in 1..NumFiles + 1 /\ m.batch \in 0..MaxBatches /\ <<>> \in Seq(Data)
    BY <1>3, FilesOK, EmptySeq DEF Batches
  <2> DEFINE taken == [NewReceiver EXCEPT !.state = "Receiving", !.batch = m.batch]
  <2>2. /\ taken \in Receivers /\ taken.state = "Receiving" /\ taken.batch = m.batch
        /\ taken.file = 1 /\ taken.got = 0 /\ taken.crc = <<>>
    BY <2>1 DEF NewReceiver, Receivers
  <2>3. yes => rcv' = taken
    BY <1>1
  <2>4. yes => ~Receiving
    OBVIOUS
  <2> HIDE DEF taken
  <2> QED BY <2>2, <2>3, <2>4 DEF Receiving
<1>7. ~yes => Receiving' = Receiving /\ rcv' = rcv /\ ToCome' = ToCome
  BY <1>1 DEF Receiving, ToCome
<1>8. Types'
  BY <1>1, <1>2, <1>5, <1>6, <1>7 DEF IInv, Types
<1>9. SenderOK' /\ AckedOK' /\ FolderOK'
  BY <1>1 DEF IInv, SenderOK, AckedOK, FolderOK, Past
<1>10. ReceiverOK'
  <2>1. CASE yes
    <3>1. slot = Closed
      BY <1>6, <2>1 DEF IInv, ReceiverOK
    <3>2. /\ 1 \in Files /\ Size[1] \in Nat /\ DiskRoom \in Nat
          /\ \A f \in Files : ~(f < 1)
      BY FilesOK DEF Files
    <3>3. /\ slot.data = <<>> /\ slot.open = FALSE /\ slot.written = 0 /\ Len(slot.data) = 0
      BY <3>1 DEF Closed
    <3> QED BY <1>1, <1>3, <1>6, <2>1, <3>1, <3>2, <3>3 DEF ReceiverOK
  <2>2. CASE ~yes
    BY <1>1, <1>7, <2>2 DEF IInv, ReceiverOK
  <2> QED BY <2>1, <2>2
<1>11. RecordsOK'
  <2> SUFFICES ASSUME NEW k \in InUp'
               PROVE  /\ k.batch < snd.next
                      /\ k.type = "Done" => k.crc = Content(k.file) /\ Past(k.batch, k.file)
                      /\ k.type = "Offer" =>
                           /\ rcv'.batch < k.batch
                           /\ \A a \in InDown' : a.batch < k.batch
                           /\ \A f \in Files : disk[k.batch][f] = Missing
    BY <1>1, <1>2 DEF RecordsOK, Past
  <2>1. k \in InUp /\ (k.type = "Offer" => m.batch < k.batch)
    BY <1>2
  <2>2. /\ k.batch < snd.next
        /\ k.type = "Done" => k.crc = Content(k.file) /\ Past(k.batch, k.file)
        /\ k.type = "Offer" => /\ rcv.batch < k.batch
                               /\ \A a \in InDown : a.batch < k.batch
                               /\ \A f \in Files : disk[k.batch][f] = Missing
    BY <2>1 DEF IInv, RecordsOK
  <2>3. rcv'.batch \in {m.batch, rcv.batch}
    BY <1>6, <1>7
  <2> QED BY <1>4, <1>5, <2>1, <2>2, <2>3
<1>12. AnswersOK'
  <2> SUFFICES ASSUME NEW k \in InDown'
               PROVE  /\ k.batch < snd.next
                      /\ k.type = "Ack" /\ k.ok => disk[k.batch][k.file] # Missing
                      /\ ~(k.type \in {"Accept", "Ack"} /\ k.ok) =>
                           ~(Receiving' /\ rcv'.batch = k.batch)
    BY <1>1 DEF AnswersOK
  <2>1. CASE k \in InDown
    <3>1. /\ k.batch < snd.next
          /\ k.type = "Ack" /\ k.ok => disk[k.batch][k.file] # Missing
          /\ ~(k.type \in {"Accept", "Ack"} /\ k.ok) => ~(Receiving /\ rcv.batch = k.batch)
      BY <2>1 DEF IInv, AnswersOK
    <3>2. k.batch # m.batch
      BY <1>3, <2>1, RecordKinds DEF IInv, Types, InDown, Batches
    <3> QED BY <1>6, <1>7, <3>1, <3>2
  <2>2. CASE k = r
    BY <1>3, <1>4, <1>7, <2>2
  <2> QED BY <1>5, <2>1, <2>2
<1>13. AgreeOK'
  BY <1>6, <1>7, AgreeTaken
<1>14. CountOK'
  <2> DEFINE K == NumFiles + 2
             have == Len(down) + ToCome
  <2>1. /\ K \in Nat /\ have \in Nat /\ have <= K * (m.batch - 1)
        /\ Offered' = snd.next - 1 /\ 1 <= K
    <3>1. m \in InUp
      BY <1>2
    <3>2. have <= K * (m.batch - 1)
      BY <3>1 DEF IInv, CountOK
    <3>3. have \in Nat
      BY ToComeFacts
    <3>4. K \in Nat /\ 1 <= K
      BY FilesOK
    <3> QED BY <1>1, <3>2, <3>3, <3>4 DEF Offered
  <2>2. have' \in Nat /\ have' <= have + K
    <3>1. CASE yes
      <4>1. ToCome = 0 /\ ToCome' = K - 1
        BY <1>6, <3>1, FilesOK DEF ToCome
      <4> QED BY <1>5, <2>1, <4>1
    <3>2. CASE ~yes
      BY <1>5, <1>7, <2>1, <3>2, ToComeFacts
    <3> QED BY <3>1, <3>2
  <2> HIDE DEF K, have
  <2>3. have' <= K * m.batch
    <3>1. K * m.batch = K * (m.batch - 1) + K
      BY <1>3, <2>1
    <3>2. K * (m.batch - 1) \in Int /\ K * m.batch \in Int
      BY <1>3, <2>1
    <3> QED BY <2>1, <2>2, <3>1, <3>2
  <2>4. ASSUME NEW c \in Nat, m.batch < c PROVE K * m.batch <= K * (c - 1)
    <3>1. PICK d \in Nat : c - 1 = m.batch + d
      <4>1. (c - 1) - m.batch \in Nat /\ c - 1 = m.batch + ((c - 1) - m.batch)
        BY <1>3, <2>4
      <4> QED BY <4>1
    <3>2. K * (m.batch + d) = K * m.batch + K * d
      BY <1>3, <2>1
    <3>3. K * d \in Nat /\ K * m.batch \in Nat
      BY <1>3, <2>1
    <3> QED BY <3>1, <3>2, <3>3
  <2>5. have' <= K * Offered'
    <3>1. K * m.batch \in Int /\ K * Offered' \in Int /\ K * m.batch <= K * Offered'
      BY <1>3, <2>1, <2>4
    <3> QED BY <2>2, <2>3, <3>1
  <2>6. ASSUME NEW k \in InUp', k.type = "Offer" PROVE have' <= K * (k.batch - 1)
    <3>1. k.batch \in Nat /\ m.batch < k.batch
      BY <1>2, <2>6, RecordKinds DEF IInv, Types, InUp, Batches
    <3>2. K * m.batch \in Int /\ K * (k.batch - 1) \in Int
      BY <1>3, <2>1, <3>1
    <3> QED BY <2>2, <2>3, <2>4, <3>1, <3>2
  <2> QED BY <2>5, <2>6 DEF CountOK, K, have
<1> QED BY <1>8, <1>9, <1>10, <1>11, <1>12, <1>13, <1>14 DEF IInv

\* A record that is not of the host's batch is dropped.
LEMMA IgnoredStep ==
  ASSUME IInv, up # <<>>, up' = Tail(up), ~(Receiving /\ Head(up).batch = rcv.batch) \/ ~on,
         Ignored, UNCHANGED <<snd, link, torn, gone, on>>
  PROVE  IInv'
<1>1. /\ up' \in Seq(UpRecords) /\ Len(up') <= Cap /\ InUp' \subseteq InUp /\ Ordered'
  BY UpTaken DEF IInv, Types, RecordsOK
<1>2. UNCHANGED <<rcv, slot, disk, down>> /\ Receiving' = Receiving /\ InDown' = InDown
  BY DEF Ignored, Receiving, InDown
<1>3. Len(down) \in Nat
  BY LenProperties DEF IInv, Types
<1>4. Types' /\ ReceiverOK'
  BY <1>1, <1>2, <1>3 DEF IInv, Types, ReceiverOK
<1>5. AgreeOK'
  <2>1. Receiving => on
    BY DEF IInv, ReceiverOK
  <2> QED BY <1>2, <2>1, AgreeTaken
<1> QED BY <1>1, <1>2, <1>3, <1>4, <1>5, HostStep

\* The next chunk of the file in hand is taken, and waits for the disk.
LEMMA ChunkStep ==
  ASSUME IInv, on, KeepingUp, up # <<>>, up' = Tail(up), NEW m \in UpRecords, m = Head(up),
         m.type = "Chunk", NEW opens \in BOOLEAN, OnChunk(m, opens),
         UNCHANGED <<snd, link, torn, gone, on>>
  PROVE  IInv'
<1>1. /\ up' \in Seq(UpRecords) /\ Len(up') <= Cap /\ InUp' \subseteq InUp /\ Ordered'
  BY UpTaken DEF IInv, Types, RecordsOK
<1>2. CASE ~Current(m)
  BY <1>2, IgnoredStep DEF OnChunk, Current
<1>3. CASE Current(m) /\ AbortReceiving(rcv, <<CancelRecord>>)
  <2>1. Receiving /\ rcv \in Receivers /\ ~Receiving'
    BY <1>3 DEF Current, AbortReceiving, Receiving, IInv, Types, Receivers
  <2>2. AgreeOK'
    BY <2>1, AgreeTaken
  <2> QED BY <1>1, <1>3, <2>1, <2>2, ReceiverAborts
<1>4. CASE /\ Current(m) /\ ~(rcv.got >= Size[rcv.file])
           /\ rcv' = [rcv EXCEPT !.got = @ + 1, !.crc = Append(@, m.data)]
           /\ slot' = [slot EXCEPT !.open = TRUE, !.data = Append(@, m.data)]
           /\ UNCHANGED <<disk, down>>
  <2>1. /\ Receiving /\ m.data \in Data /\ rcv \in Receivers /\ slot \in Slots
        /\ rcv.batch \in Batches /\ rcv.file \in Files
        /\ slot.data = rcv.crc /\ rcv.got = Len(rcv.crc) /\ rcv.crc \in Seq(Data)
        /\ slot.written <= Len(slot.data) /\ slot.written \in Nat /\ Len(slot.data) \in Nat
        /\ rcv.got \in Nat /\ Size[rcv.file] \in Nat /\ DiskRoom \in Nat
    <3>1. Receiving /\ m.data \in Data
      BY <1>4, RecordKinds DEF Current, ChunkRecords
    <3>2. rcv \in Receivers /\ slot \in Slots
      BY DEF IInv, Types
    <3>3. /\ rcv.batch \in Batches /\ rcv.file \in Files
          /\ slot.data = rcv.crc /\ rcv.got = Len(rcv.crc) /\ slot.written <= Len(slot.data)
      BY <3>1 DEF IInv, ReceiverOK
    <3>4. /\ rcv.crc \in Seq(Data) /\ slot.written \in Nat /\ rcv.got \in Nat
          /\ Size[rcv.file] \in Nat /\ DiskRoom \in Nat
      BY <3>2, <3>3, FilesOK DEF Receivers, Slots, Files
    <3> QED BY <3>1, <3>2, <3>3, <3>4
  <2> DEFINE more == Append(rcv.crc, m.data)
  <2>2. more \in Seq(Data) /\ Len(more) = rcv.got + 1
    BY <2>1, AppendProperties
  <2> HIDE DEF more
  <2>3. /\ rcv' \in Receivers /\ rcv'.state = rcv.state /\ rcv'.batch = rcv.batch
        /\ rcv'.file = rcv.file /\ rcv'.got = rcv.got + 1 /\ rcv'.crc = more
    <3>1. rcv' = [rcv EXCEPT !.got = rcv.got + 1, !.crc = more]
      BY <1>4 DEF more
    <3>2. rcv.got + 1 \in Nat
      BY <2>1
    <3> QED BY <2>1, <2>2, <3>1, <3>2 DEF Receivers
  <2>4. /\ slot' \in Slots /\ slot'.open = TRUE /\ slot'.data = more
        /\ slot'.written = slot.written
    <3>1. slot' = [slot EXCEPT !.open = TRUE, !.data = more]
      BY <1>4, <2>1 DEF more
    <3> QED BY <2>1, <2>2, <3>1 DEF Slots
  <2>5. Receiving' /\ InDown' = InDown
    BY <1>4, <2>1, <2>3 DEF Receiving, InDown
  <2>6. Types'
    BY <1>1, <1>4, <2>3, <2>4 DEF IInv, Types
  <2>7. ReceiverOK'
    <3>1. /\ slot'.written <= Len(slot'.data) /\ Len(slot'.data) - slot'.written <= DiskRoom
          /\ rcv'.got <= Size[rcv'.file]
      BY <1>4, <2>1, <2>2, <2>3, <2>4 DEF KeepingUp
    <3>2. \A f \in Files : disk[rcv.batch][f] # Missing <=> f < rcv.file
      BY <2>1 DEF IInv, ReceiverOK
    <3>3. rcv'.batch < snd'.next
      BY <2>3 DEF IInv, ReceiverOK
    <3> QED BY <1>4, <2>1, <2>2, <2>3, <2>4, <2>5, <3>1, <3>2, <3>3 DEF ReceiverOK
  <2>8. AgreeOK'
    BY <2>1, <2>3, AgreeTaken
  <2>9. Len(down') <= Len(down)
    BY <1>4, LenProperties DEF IInv, Types
  <2> QED BY <1>1, <1>4, <2>1, <2>3, <2>5, <2>6, <2>7, <2>8, <2>9, HostStep
<1> QED BY <1>2, <1>3, <1>4 DEF OnChunk

\* A file is put in place once its checksum agrees with the one its end carried, which is
\* that of its content; so what is put in place is that content.
LEMMA PlacedStep ==
  ASSUME IInv, on, up # <<>>, up' = Tail(up), NEW m \in UpRecords, m = Head(up),
         m.type = "Done", Current(m), m.file = rcv.file, m.crc = rcv.crc, FilePlaced,
         UNCHANGED <<snd, link, torn, gone, on>>
  PROVE  /\ IInv'
         /\ disk' = [disk EXCEPT ![rcv.batch][rcv.file] = Content(rcv.file)]
         /\ rcv.batch \in Batches /\ rcv.file \in Files /\ disk[rcv.batch][rcv.file] = Missing
         /\ Past(rcv.batch, rcv.file)
<1> PICK b \in Batches, f \in Files : b = rcv.batch /\ f = rcv.file
  BY DEF Current, IInv, ReceiverOK
<1>1. /\ up' \in Seq(UpRecords) /\ Len(up') <= Cap /\ InUp = InUp' \cup {m} /\ Ordered'
  BY UpTaken DEF IInv, Types, RecordsOK
<1>2. /\ Receiving /\ slot.data = rcv.crc /\ m.batch = b
      /\ \A g \in Files : disk[b][g] # Missing <=> g < f
      /\ b < snd.next /\ rcv \in Receivers /\ NumFiles \in Nat /\ f \in Nat
  <2>1. Receiving /\ m.batch = b
    BY DEF Current
  <2>2. /\ slot.data = rcv.crc /\ rcv.batch < snd.next
        /\ \A g \in Files : disk[b][g] # Missing <=> g < f
    BY <2>1 DEF IInv, ReceiverOK
  <2>3. rcv \in Receivers /\ NumFiles \in Nat /\ f \in Nat
    BY FilesOK DEF IInv, Types, Files
  <2> QED BY <2>1, <2>2, <2>3
<1>3. m.crc = Content(f) /\ Past(b, f) /\ slot.data = Content(f)
  <2>1. m \in InUp
    BY <1>1
  <2> QED BY <1>2, <2>1 DEF IInv, RecordsOK
<1>4. disk \in [Batches -> [Files -> Seq(Data) \cup {Missing}]]
  BY DEF IInv, Types
<1>5. /\ Content(f) \in Seq(Data) /\ Content(f) # Missing
  BY ContentFacts
<1>6. /\ disk' = [disk EXCEPT ![b][f] = Content(f)] /\ slot' = Closed
      /\ rcv' = [rcv EXCEPT !.file = @ + 1, !.got = 0, !.crc = <<>>,
                            !.state = IF rcv.file >= NumFiles THEN "Done" ELSE @]
      /\ Answer(<<AckRecord(TRUE)>>)
  BY <1>3 DEF FilePlaced
<1>7. /\ disk' \in [Batches -> [Files -> Seq(Data) \cup {Missing}]]
      /\ disk'[b][f] = Content(f)
      /\ \A c \in Batches, g \in Files : c # b \/ g # f => disk'[c][g] = disk[c][g]
  BY <1>4, <1>5, <1>6
<1>8. \A c \in Batches, g \in Files : disk[c][g] # Missing => disk'[c][g] = disk[c][g]
  BY <1>2, <1>7
<1>9. /\ rcv' \in Receivers /\ rcv'.batch = b /\ rcv'.file = f + 1 /\ rcv'.got = 0
      /\ rcv'.crc = <<>> /\ (Receiving' <=> f < NumFiles)
  <2>1. f + 1 \in 1..NumFiles + 1 /\ <<>> \in Seq(Data) /\ 0 \in Nat
    BY <1>2, EmptySeq DEF Files
  <2>2. rcv.file = f /\ rcv.batch = b /\ rcv.state = "Receiving"
    BY <1>2 DEF Receiving
  <2>3. CASE f >= NumFiles
    <3>1. rcv' = [rcv EXCEPT !.file = f + 1, !.got = 0, !.crc = <<>>, !.state = "Done"]
      BY <1>6, <2>2, <2>3
    <3>2. /\ rcv' \in Receivers /\ rcv'.batch = b /\ rcv'.file = f + 1 /\ rcv'.got = 0
          /\ rcv'.crc = <<>> /\ rcv'.state = "Done"
      BY <1>2, <2>1, <2>2, <3>1 DEF Receivers
    <3> QED BY <1>2, <2>3, <3>2 DEF Receiving
  <2>4. CASE ~(f >= NumFiles)
    <3>1. rcv' = [rcv EXCEPT !.file = f + 1, !.got = 0, !.crc = <<>>, !.state = "Receiving"]
      BY <1>6, <2>2, <2>4
    <3>2. /\ rcv' \in Receivers /\ rcv'.batch = b /\ rcv'.file = f + 1 /\ rcv'.got = 0
          /\ rcv'.crc = <<>> /\ rcv'.state = "Receiving"
      BY <1>2, <2>1, <2>2, <3>1 DEF Receivers
    <3> QED BY <1>2, <2>4, <3>2 DEF Receiving
  <2> QED BY <2>3, <2>4
<1> DEFINE r == AckRecord(TRUE)
<1>10. r \in DownRecords /\ r.type = "Ack" /\ r.ok = TRUE /\ r.batch = b /\ r.file = f
  BY DEF AckRecord, DownRecords, AckRecords
<1>11. /\ down' \in Seq(DownRecords) /\ Len(down') <= Len(down) + 1
       /\ InDown' \subseteq InDown \cup {r} /\ Len(down) \in Nat /\ Len(down') \in Nat
  BY <1>6, <1>10, Answered, LenProperties DEF IInv, Types
<1> HIDE DEF r
<1>12. slot' \in Slots /\ slot'.open = FALSE /\ slot'.written = 0 /\ Len(slot'.data) = 0
       /\ slot'.data = <<>>
  BY <1>6, EmptySeq DEF Closed, Slots
<1>13. Types'
  BY <1>1, <1>7, <1>9, <1>11, <1>12 DEF IInv, Types
<1>14. SenderOK' /\ AckedOK'
  BY <1>8 DEF IInv, SenderOK, AckedOK
<1>15. ReceiverOK'
  <2>1. ASSUME Receiving'
        PROVE  /\ rcv'.file \in Files /\ Size[rcv'.file] \in Nat
               /\ \A g \in Files : disk'[b][g] # Missing <=> g < rcv'.file
    <3>1. rcv'.file \in Files /\ Size[rcv'.file] \in Nat
      BY <1>2, <1>9, <2>1, FilesOK DEF Files
    <3>2. ASSUME NEW g \in Files PROVE disk'[b][g] # Missing <=> g < f + 1
      <4>1. g < f + 1 <=> g < f \/ g = f
        BY <1>2 DEF Files
      <4> QED BY <1>2, <1>5, <1>7, <4>1
    <3> QED BY <1>9, <3>1, <3>2
  <2>2. DiskRoom \in Nat
    BY FilesOK
  <2> QED BY <1>2, <1>6, <1>9, <1>12, <2>1, <2>2 DEF ReceiverOK
<1>16. FolderOK'
  <2> SUFFICES ASSUME NEW c \in Batches, NEW g \in Files, disk'[c][g] # Missing
               PROVE  /\ disk'[c][g] = Content(g) /\ Past(c, g)
                      /\ \A e \in 1..g : disk'[c][e] # Missing
    BY DEF FolderOK, Past
  <2>1. CASE c = b /\ g = f
    <3>1. ASSUME NEW e \in 1..f PROVE disk'[b][e] # Missing
      <4>1. e \in Files /\ (e < f \/ e = f)
        BY <1>2 DEF Files
      <4> QED BY <1>2, <1>5, <1>7, <1>8, <4>1
    <3> QED BY <1>3, <1>7, <2>1, <3>1
  <2>2. CASE c # b \/ g # f
    <3>1. disk[c][g] # Missing /\ disk'[c][g] = disk[c][g]
      BY <1>7, <2>2
    <3>2. disk[c][g] = Content(g) /\ Past(c, g) /\ \A e \in 1..g : disk[c][e] # Missing
      BY <3>1 DEF IInv, FolderOK
    <3>3. \A e \in 1..g : e \in Files
      BY <1>2 DEF Files
    <3> QED BY <1>8, <3>1, <3>2, <3>3
  <2> QED BY <2>1, <2>2
<1>17. RecordsOK'
  <2> SUFFICES ASSUME NEW k \in InUp'
               PROVE  /\ k.batch < snd.next
                      /\ k.type = "Done" => k.crc = Content(k.file) /\ Past(k.batch, k.file)
                      /\ k.type = "Offer" =>
                           /\ rcv'.batch < k.batch
                           /\ \A a \in InDown' : a.batch < k.batch
                           /\ \A g \in Files : disk'[k.batch][g] = Missing
    BY <1>1 DEF RecordsOK, Past
  <2>1. k \in InUp /\ k.batch \in Batches /\ b \in Int /\ k.batch \in Int
    BY <1>1, RecordKinds DEF IInv, Types, InUp, Batches
  <2>2. /\ k.batch < snd.next
        /\ k.type = "Done" => k.crc = Content(k.file) /\ Past(k.batch, k.file)
        /\ k.type = "Offer" => /\ b < k.batch
                               /\ \A a \in InDown : a.batch < k.batch
                               /\ \A g \in Files : disk[k.batch][g] = Missing
    BY <2>1 DEF IInv, RecordsOK
  <2>3. k.type = "Offer" => k.batch # b
    BY <2>1, <2>2
  <2> QED BY <1>7, <1>9, <1>10, <1>11, <2>1, <2>2, <2>3
<1>18. AnswersOK'
  <2> SUFFICES ASSUME NEW k \in InDown'
               PROVE  /\ k.batch < snd.next
                      /\ k.type = "Ack" /\ k.ok => disk'[k.batch][k.file] # Missing
                      /\ ~(k.type \in {"Accept", "Ack"} /\ k.ok) =>
                           ~(Receiving' /\ rcv'.batch = k.batch)
    BY DEF AnswersOK
  <2>1. CASE k \in InDown
    <3>1. /\ k.batch < snd.next
          /\ k.type = "Ack" /\ k.ok => disk[k.batch][k.file] # Missing
          /\ ~(k.type \in {"Accept", "Ack"} /\ k.ok) => ~(Receiving /\ b = k.batch)
      BY <2>1 DEF IInv, AnswersOK
    <3>2. k.type = "Ack" => k.batch \in Batches /\ k.file \in Files
      BY <2>1, RecordKinds DEF IInv, Types, InDown
    <3> QED BY <1>2, <1>8, <1>9, <3>1, <3>2
  <2>2. CASE k = r
    BY <1>2, <1>5, <1>7, <1>10, <2>2
  <2> QED BY <1>11, <2>1, <2>2
<1>19. AgreeOK'
  BY <1>2, <1>9, AgreeTaken
<1>20. CountOK'
  <2> DEFINE K == NumFiles + 2
             have == Len(down) + ToCome
  <2>1. have \in Nat /\ have' \in Nat /\ have' <= have
    <3>1. ToCome = NumFiles + 2 - f
      BY <1>2 DEF ToCome
    <3>2. ToCome' \in Nat /\ ToCome' + 1 <= ToCome
      BY <1>2, <1>9, <3>1 DEF ToCome, Files
    <3> QED BY <1>11, <3>2, ToComeFacts
  <2>2. /\ have <= K * Offered
        /\ \A k \in InUp : k.type = "Offer" => have <= K * (k.batch - 1)
    BY DEF IInv, CountOK
  <2> HIDE DEF have
  <2>3. ASSUME NEW x \in Int, have <= x PROVE have' <= x
    BY <2>1, <2>3
  <2>4. NumFiles \in Nat /\ Offered' = Offered /\ K * Offered \in Int
    BY <1>2, ToComeFacts DEF Offered
  <2>5. \A k \in InUp' : k.type = "Offer" => k \in InUp /\ K * (k.batch - 1) \in Int
    <3>1. \A k \in InUp : k.batch \in Int
      BY RecordKinds DEF IInv, Types, InUp, Batches
    <3> QED BY <1>1, <2>4, <3>1
  <2> QED BY <2>2, <2>3, <2>4, <2>5 DEF CountOK, have
<1>21. IInv'
  BY <1>13, <1>14, <1>15, <1>16, <1>17, <1>18, <1>19, <1>20 DEF IInv
<1>22. disk[b][f] = Missing
  BY <1>2
<1> QED BY <1>3, <1>6, <1>21, <1>22

\* One more file is in place, one that its sender was done with.
Placing ==
  \E b \in Batches, f \in Files :
    /\ Past(b, f) /\ disk[b][f] = Missing
    /\ disk' = [disk EXCEPT ![b][f] = Content(f)]

\* The end of a file that cannot be placed ends its batch.
LEMMA DoneStep ==
  ASSUME IInv, on, up # <<>>, up' = Tail(up), NEW m \in UpRecords, m = Head(up),
         m.type = "Done", NEW opens \in BOOLEAN, NEW moves \in BOOLEAN, OnDone(m, opens, moves),
         UNCHANGED <<snd, link, torn, gone, on>>
  PROVE  IInv' /\ (UNCHANGED disk \/ Placing)
<1>1. /\ up' \in Seq(UpRecords) /\ Len(up') <= Cap /\ InUp' \subseteq InUp /\ Ordered'
  BY UpTaken DEF IInv, Types, RecordsOK
<1>2. CASE ~Current(m)
  BY <1>2, IgnoredStep DEF OnDone, Current, Ignored
<1>3. ASSUME NEW msgs \in {<<>>, <<CancelRecord>>, <<AckRecord(FALSE)>>},
             Current(m), AbortReceiving(rcv, msgs)
      PROVE  IInv' /\ UNCHANGED disk
  <2>1. Receiving /\ rcv \in Receivers /\ ~Receiving' /\ UNCHANGED disk
    BY <1>3 DEF Current, AbortReceiving, Receiving, IInv, Types, Receivers
  <2>2. AgreeOK'
    BY <2>1, AgreeTaken
  <2> QED BY <1>1, <1>3, <2>1, <2>2, ReceiverAborts
<1>4. CASE Current(m) /\ m.file = rcv.file /\ SumMatches(m) /\ FilePlaced
  BY <1>4, PlacedStep DEF SumMatches, Placing
<1> QED BY <1>2, <1>3, <1>4 DEF OnDone

\* The host takes one record off the stream.
LEMMA HostReceivesStep ==
  ASSUME IInv, HostReceives
  PROVE  IInv' /\ (UNCHANGED disk \/ Placing)
<1>1. /\ up # <<>> /\ up' = Tail(up) /\ KeepingUp
      /\ UNCHANGED <<snd, link, torn, gone, on>>
  BY DEF HostReceives
<1> PICK m \in UpRecords : m = Head(up)
  BY <1>1, UpTaken DEF IInv, Types
<1>2. CASE ~on
  <2>1. Ignored
    BY <1>2 DEF HostReceives
  <2> QED BY <1>1, <1>2, <2>1, IgnoredStep DEF Ignored
<1>3. CASE on
  <2> PICK ok \in BOOLEAN, opens \in BOOLEAN :
             CASE m.type = "Offer"  -> OnOffer(m, ok)
               [] m.type = "Chunk"  -> OnChunk(m, opens)
               [] m.type = "Done"   -> OnDone(m, opens, ok)
               [] m.type = "Cancel" -> OnCancel(m)
    BY <1>3 DEF HostReceives
  <2>1. CASE m.type = "Offer"
    BY <1>1, <1>3, <2>1, OfferStep DEF OnOffer
  <2>2. CASE m.type = "Chunk"
    <3>1. UNCHANGED disk
      BY <2>2 DEF OnChunk, Ignored, AbortReceiving
    <3> QED BY <1>1, <1>3, <2>2, <3>1, ChunkStep
  <2>3. CASE m.type = "Done"
    BY <1>1, <1>3, <2>3, DoneStep
  <2>4. CASE m.type = "Cancel"
    <3>1. OnCancel(m)
      BY <2>4
    <3>2. CASE ~Current(m)
      BY <1>1, <3>1, <3>2, IgnoredStep DEF OnCancel, Current, Ignored
    <3>3. CASE Current(m)
      <4>1. AbortReceiving(rcv, <<>>) /\ Receiving /\ rcv \in Receivers
        BY <3>1, <3>3 DEF OnCancel, Current, IInv, Types
      <4>2. ~Receiving' /\ UNCHANGED disk
        BY <4>1 DEF AbortReceiving, Receiving, Receivers
      <4>3. AgreeOK'
        BY <1>1, <4>2, AgreeTaken
      <4>4. /\ up' \in Seq(UpRecords) /\ Len(up') <= Cap /\ InUp' \subseteq InUp /\ Ordered'
        BY <1>1, UpTaken DEF IInv, Types, RecordsOK
      <4> QED BY <1>1, <4>1, <4>2, <4>3, <4>4, ReceiverAborts
    <3> QED BY <3>2, <3>3
  <2> QED BY <2>1, <2>2, <2>3, <2>4, RecordKinds
<1> QED BY <1>2, <1>3 DEF IInv, Types

\* The writer thread writes the next chunk, or fails.
LEMMA WriterStep == ASSUME IInv, WriterThread PROVE IInv' /\ UNCHANGED disk
<1>1. /\ UNCHANGED <<snd, rcv, disk, up, down, link, torn, gone, on>>
      /\ slot.written # Len(slot.data)
  BY DEF WriterThread, Written
<1> PICK sound \in {slot.sound, FALSE} :
           slot' = [slot EXCEPT !.written = @ + 1, !.sound = sound]
  BY DEF WriterThread
<1>2. /\ slot \in Slots /\ slot.written \in Nat /\ Len(slot.data) \in Nat /\ slot.sound \in BOOLEAN
      /\ slot.written <= Len(slot.data) /\ Len(slot.data) - slot.written <= DiskRoom
      /\ DiskRoom \in Nat
  <2>1. slot \in Slots
    BY DEF IInv, Types
  <2>2. slot.written \in Nat /\ Len(slot.data) \in Nat /\ slot.sound \in BOOLEAN
    BY <2>1, LenProperties DEF Slots
  <2> QED BY <2>1, <2>2, FilesOK DEF IInv, ReceiverOK
<1>3. /\ slot' \in Slots /\ slot'.open = slot.open /\ slot'.data = slot.data
      /\ slot'.written = slot.written + 1
  <2>1. sound \in BOOLEAN
    BY <1>2
  <2>2. slot.written + 1 \in Nat
    BY <1>2
  <2> QED BY <1>2, <2>1, <2>2 DEF Slots
<1>4. slot'.written <= Len(slot'.data) /\ Len(slot'.data) - slot'.written <= DiskRoom
  BY <1>1, <1>2, <1>3
<1>5. Receiving' = Receiving /\ InUp' = InUp /\ InDown' = InDown
  BY <1>1 DEF Receiving, InUp, InDown
<1>6. Types' /\ Ordered'
  BY <1>1, <1>3 DEF IInv, Types, RecordsOK, Ordered
<1>7. ReceiverOK'
  <2>1. slot.open
    <3> SUFFICES ASSUME ~slot.open PROVE FALSE
      OBVIOUS
    <3>1. slot = Closed
      BY DEF IInv, ReceiverOK
    <3> QED BY <1>1, <3>1 DEF Closed
  <2> QED BY <1>1, <1>3, <1>4, <1>5, <2>1 DEF IInv, ReceiverOK
<1>8. AgreeOK'
  BY <1>1, <1>5, AgreeLeft
<1>9. Len(down') <= Len(down)
  BY <1>1, LenProperties DEF IInv, Types
<1> QED BY <1>1, <1>5, <1>6, <1>7, <1>8, <1>9, HostStep

\* File transfer is switched off or on, for this peer.
LEMMA SetAcceptingStep ==
  ASSUME IInv, NEW yes \in BOOLEAN, SetAccepting(yes)
  PROVE  IInv' /\ UNCHANGED disk
<1> DEFINE r == [rcv EXCEPT !.accepting = yes]
<1>1. /\ UNCHANGED <<snd, up, link, torn, gone, on>>
      /\ up \in Seq(UpRecords) /\ Len(up) <= Cap /\ InUp' = InUp /\ Ordered'
  BY DEF SetAccepting, InUp, IInv, Types, RecordsOK, Ordered
<1>2. /\ r \in Receivers /\ r.state = rcv.state /\ r.batch = rcv.batch /\ r.file = rcv.file
      /\ r.got = rcv.got /\ r.crc = rcv.crc
  BY DEF IInv, Types, Receivers
<1>3. \/ Receiving /\ AbortReceiving(r, <<CancelRecord>>)
      \/ rcv' = r /\ UNCHANGED <<slot, disk, down>>
  BY DEF SetAccepting
<1> HIDE DEF r
<1>4. CASE Receiving /\ AbortReceiving(r, <<CancelRecord>>)
  <2>1. ~Receiving' /\ UNCHANGED disk
    BY <1>2, <1>4 DEF AbortReceiving, Receiving, Receivers
  <2>2. AgreeOK'
    BY <1>1, <2>1, AgreeLeft
  <2> QED BY <1>1, <1>2, <1>4, <2>1, <2>2, ReceiverAborts
<1>5. CASE rcv' = r /\ UNCHANGED <<slot, disk, down>>
  <2>1. Receiving' = Receiving /\ InDown' = InDown /\ Len(down') <= Len(down)
    BY <1>2, <1>5, LenProperties DEF Receiving, InDown, IInv, Types
  <2>2. Types' /\ ReceiverOK'
    BY <1>1, <1>2, <1>5, <2>1 DEF IInv, Types, ReceiverOK
  <2>3. AgreeOK'
    BY <1>1, <1>2, <1>5, <2>1, AgreeLeft
  <2> QED BY <1>1, <1>2, <1>5, <2>1, <2>2, <2>3, HostStep
<1> QED BY <1>3, <1>4, <1>5

\* The host is stopped, or drops the peer: what it had in hand of it is forgotten.
LEMMA ForgetStep ==
  ASSUME IInv, StopFileHost \/ DropPeer
  PROVE  IInv' /\ UNCHANGED disk
<1>1. /\ UNCHANGED <<snd, disk, up, link, torn>>
      /\ up \in Seq(UpRecords) /\ Len(up) <= Cap /\ InUp' = InUp /\ Ordered'
      /\ on' \in BOOLEAN /\ gone' \in BOOLEAN /\ slot' = Closed
  BY DEF StopFileHost, DropPeer, InUp, IInv, Types, RecordsOK, Ordered
<1>2. rcv' \in Receivers /\ rcv'.batch = 0 /\ ~Receiving'
  <2>1. 0 \in 0..MaxBatches /\ 1 \in 1..NumFiles + 1 /\ <<>> \in Seq(Data)
    BY FilesOK, EmptySeq
  <2>2. rcv.accepting \in BOOLEAN
    BY DEF IInv, Types, Receivers
  <2>3. CASE rcv' = NewReceiver
    BY <2>1, <2>3 DEF NewReceiver, Receivers, Receiving
  <2>4. CASE rcv' = [NewReceiver EXCEPT !.accepting = rcv.accepting]
    BY <2>1, <2>2, <2>4 DEF NewReceiver, Receivers, Receiving
  <2> QED BY <2>3, <2>4 DEF StopFileHost, DropPeer
<1>3. AgreeOK'
  BY <1>1, <1>2, AgreeLeft
<1>4. /\ down' \in Seq(DownRecords)
      /\ Len(down') <= Len(down) \/ (Receiving /\ Len(down') <= Len(down) + 1)
      /\ \A k \in InDown' :
           k \in InDown \/ (Receiving /\ k.batch = rcv.batch /\ (k.type = "Ack" => ~k.ok))
  <2>1. CASE DropPeer \/ ~Receiving
    <3>1. down' = down /\ down \in Seq(DownRecords)
      BY <2>1, Unanswered DEF StopFileHost, DropPeer, IInv, Types
    <3> QED BY <3>1, LenProperties DEF InDown
  <2>2. CASE StopFileHost /\ Receiving
    <3>1. Answer(<<CancelRecord>>) /\ down \in Seq(DownRecords)
      BY <2>2 DEF StopFileHost, IInv, Types
    <3>2. rcv.batch \in Batches
      BY <2>2 DEF IInv, ReceiverOK
    <3>3. /\ CancelRecord \in DownRecords /\ CancelRecord.type = "Cancel"
          /\ CancelRecord.batch = rcv.batch
      BY <3>2 DEF CancelRecord, DownRecords, CancelRecords
    <3> QED BY <2>2, <3>1, <3>3, Answered
  <2> QED BY <2>1, <2>2
<1> QED BY <1>1, <1>2, <1>3, <1>4, EndedStep

-----------------------------------------------------------------------------
(* The stream.                                                             *)

\* A stream that ends or breaks loses the end of what is on its way; a damaged chunk is
\* still one, in its place.
LEMMA StreamStep ==
  ASSUME IInv, LoseLink \/ (\E end \in {"client", "host"} : BreakStream(end)) \/ Damage
               \/ StartFileHost
  PROVE  IInv' /\ UNCHANGED <<snd, disk>>
<1>1. UNCHANGED <<snd, rcv, slot, disk>> /\ on' \in BOOLEAN /\ (Receiving => on' = on)
      /\ gone' \in BOOLEAN /\ torn' \subseteq {"client", "host"}
  <2>1. CASE StartFileHost
    <3>1. Receiving => on
      BY DEF IInv, ReceiverOK
    <3> QED BY <2>1, <3>1 DEF StartFileHost, IInv, Types
  <2>2. CASE LoseLink \/ (\E end \in {"client", "host"} : BreakStream(end)) \/ Damage
    BY <2>2 DEF LoseLink, BreakStream, Damage, IInv, Types
  <2> QED BY <2>1, <2>2
<1>2. /\ down' \in Seq(DownRecords) /\ Len(down') <= Len(down) /\ InDown' \subseteq InDown
  <2>1. down \in Seq(DownRecords)
    BY DEF IInv, Types
  <2>2. CASE UNCHANGED down
    BY <2>1, <2>2, LenProperties DEF InDown
  <2>3. CASE \E n \in 0..Len(down) : down' = SubSeq(down, 1, n)
    BY <2>1, <2>3, DownCut
  <2> QED BY <2>2, <2>3 DEF LoseLink, BreakStream, Damage, StartFileHost
<1>3. /\ up' \in Seq(UpRecords) /\ Len(up') <= Cap /\ Ordered'
      /\ \A m \in InUp' : m \in InUp \/ (m.type = "Chunk" /\ m.batch < snd.next)
      /\ AgreeOK'
  <2>1. up \in Seq(UpRecords) /\ Len(up) <= Cap /\ Ordered /\ Len(up) \in Nat /\ Cap \in Nat
    BY FilesOK, LenProperties DEF IInv, Types, RecordsOK
  <2>2. CASE UNCHANGED <<up, link, torn>>
    <3>1. InUp' = InUp /\ Ordered' /\ (Receiving' => Receiving /\ rcv'.batch = rcv.batch)
      BY <1>1, <2>1, <2>2 DEF InUp, Ordered, Receiving
    <3> QED BY <1>1, <2>1, <2>2, <3>1, AgreeLeft
  <2>3. CASE link' = "lost" /\ up' = <<>>
    BY <2>1, <2>3, EmptySeq DEF InUp, Ordered, AgreeOK
  <2>4. CASE (\E n \in 0..Len(up) : up' = SubSeq(up, 1, n)) /\ torn' # {}
    <3>1. /\ up' \in Seq(UpRecords) /\ Len(up') <= Len(up) /\ InUp' \subseteq InUp /\ Ordered'
      BY <2>1, <2>4, UpCut
    <3>2. Len(up') <= Cap
      BY <2>1, <3>1, LenProperties
    <3> QED BY <2>4, <3>1, <3>2 DEF AgreeOK
  <2>5. CASE Damage
    <3> PICK i \in DOMAIN up : up[i].type = "Chunk" /\ up' = [up EXCEPT ![i].data = Altered]
      BY <2>5 DEF Damage
    <3>1. /\ up' \in Seq(UpRecords) /\ Len(up') = Len(up)
          /\ \A m \in InUp' : m \in InUp \/ (m.type = "Chunk" /\ m.batch = up[i].batch)
          /\ \A m \in InUp : m.type # "Chunk" => m \in InUp'
          /\ up[i] \in InUp /\ Ordered'
      BY <2>1, UpDamaged
    <3>2. up[i].batch < snd.next
      BY <3>1 DEF IInv, RecordsOK
    <3>3. UNCHANGED <<snd, rcv, link, torn>> /\ Receiving' = Receiving
      BY <2>5 DEF Damage, Receiving
    <3>4. AgreeOK'
      BY <3>1, <3>3, AgreeLeft
    <3> QED BY <2>1, <3>1, <3>2, <3>4
  <2>6. CASE UNCHANGED up /\ torn' # {}
    <3>1. InUp' = InUp /\ Ordered'
      BY <2>1, <2>6 DEF InUp, Ordered
    <3> QED BY <2>1, <2>6, <3>1 DEF AgreeOK
  <2>7. CASE LoseLink
    BY <2>3, <2>7 DEF LoseLink
  <2>8. CASE \E end \in {"client", "host"} : BreakStream(end)
    BY <2>4, <2>6, <2>8 DEF BreakStream
  <2>9. CASE StartFileHost
    BY <2>2, <2>9 DEF StartFileHost
  <2> QED BY <2>5, <2>7, <2>8, <2>9
<1>4. Receiving' = Receiving
  BY <1>1 DEF Receiving
<1>5. Types'
  BY <1>1, <1>2, <1>3 DEF IInv, Types
<1>6. ReceiverOK'
  BY <1>1, <1>4 DEF IInv, ReceiverOK
<1> QED BY <1>1, <1>2, <1>3, <1>4, <1>5, <1>6, HostStep

-----------------------------------------------------------------------------
(* The invariant.                                                          *)

\* Apart from a new offer, a step of the client leaves the batch, and changes only the
\* verdict on one that had none yet.
LEMMA SenderMoves ==
  ASSUME IInv, ClientReceives \/ ReaderThread \/ SendOneChunk \/ Cancel \/ OfferTimeout
               \/ ClientLinkLost
  PROVE  /\ IInv' /\ UNCHANGED disk
         /\ \/ snd' = snd
            \/ SndBusy /\ snd'.next = snd.next /\ snd'.state # "Idle"
<1>1. IInv'
  BY ClientReceivesStep, ReaderStep, SendStep, CancelStep, ClientLinkLostStep
<1>2. UNCHANGED disk
  BY DEF ClientReceives, ReaderThread, SendOneChunk, Cancel, OfferTimeout, ClientLinkLost
<1>3. snd \in Senders /\ snd' \in Senders
  BY <1>1 DEF IInv, Types
<1> SUFFICES ASSUME snd' # snd
             PROVE  SndBusy /\ snd'.next = snd.next /\ snd'.state # "Idle"
  BY <1>1, <1>2
<1>4. ASSUME NEW s \in Senders, s.next = snd.next, NEW o \in {"Done", "Refused", "Failed"},
             snd' = Settled(s, o)
      PROVE  snd'.next = snd.next /\ snd'.state # "Idle"
  BY <1>4, SettledFacts
<1>5. ASSUME NEW s \in Senders, s.next = snd.next, AbortSending(s)
      PROVE  snd'.next = snd.next /\ snd'.state # "Idle"
  <2>1. CASE snd' = Settled(s, "Failed")
    BY <1>4, <1>5, <2>1
  <2>2. CASE snd' = Settled([s EXCEPT !.untold = @ \cup {s.batch}], "Failed")
    <3> DEFINE t == [s EXCEPT !.untold = @ \cup {s.batch}]
    <3>1. t.next = s.next
      BY DEF Senders
    <3>2. snd' = [[t EXCEPT !.all = 0, !.read = 0, !.popped = 0, !.failed = FALSE]
                     EXCEPT !.state = "Failed"]
      BY <2>2 DEF Settled
    <3>3. snd'.next = t.next /\ snd'.state = "Failed"
      BY <3>2 DEF Senders
    <3> QED BY <1>5, <3>1, <3>3
  <2> QED BY <1>5, <2>1, <2>2 DEF AbortSending
<1>6. CASE ClientReceives
  <2> PICK m \in InDown : m = Head(down)
    BY <1>6, DownTaken DEF IInv, Types, ClientReceives
  <2>1. OnAccept(m) \/ OnAck(m) \/ OnHostCancel(m)
    <3>1. m \in DownRecords
      BY DEF IInv, Types, InDown
    <3>2. m.type \in {"Accept", "Ack", "Cancel"}
      BY <3>1, RecordKinds
    <3> QED BY <1>6, <3>2 DEF ClientReceives
  <2>2. CASE OnAccept(m)
    <3>1. CASE snd' = [snd EXCEPT !.state = "Sending"] /\ snd.state = "Offering"
      BY <1>3, <3>1 DEF Senders, SndBusy
    <3>2. CASE snd' = Settled(snd, "Refused") /\ snd.state = "Offering"
      BY <1>3, <1>4, <3>2 DEF SndBusy
    <3> QED BY <2>2, <3>1, <3>2 DEF OnAccept
  <2>3. CASE OnAck(m)
    <3> DEFINE counted == [snd EXCEPT !.acked = @ + 1]
    <3>1. snd.state = "Sending" /\ SndBusy
      BY <2>3 DEF OnAck, SndBusy
    <3>2. \/ AbortSending(snd)
          \/ snd' = Settled(snd, "Failed")
          \/ snd' = counted \/ (snd' = Settled(counted, "Done") /\ counted.acked >= NumFiles)
      BY <2>3 DEF OnAck
    <3>3. counted.next = snd.next /\ counted.state = "Sending"
      BY <1>3, <3>1 DEF Senders
    <3>4. Settled(counted, "Done").next = snd.next /\ Settled(counted, "Done").state = "Done"
      <4> HIDE DEF counted
      <4>1. counted = [snd EXCEPT !.acked = snd.acked + 1]
        BY DEF counted
      <4> QED BY <1>3, <3>3, <4>1 DEF Settled, Senders
    <3> HIDE DEF counted
    <3> QED BY <1>3, <1>4, <1>5, <3>1, <3>2, <3>3, <3>4
  <2>4. CASE OnHostCancel(m)
    BY <1>3, <1>4, <2>4 DEF OnHostCancel
  <2> QED BY <2>1, <2>2, <2>3, <2>4
<1>7. CASE ReaderThread
  <2>1. CASE snd' = [snd EXCEPT !.read = @ + 1]
    BY <1>3, <1>7, <2>1 DEF ReaderThread, Senders, SndBusy
  <2>2. CASE snd' = [snd EXCEPT !.failed = TRUE]
    BY <1>3, <1>7, <2>2 DEF ReaderThread, Senders, SndBusy
  <2> QED BY <1>7, <2>1, <2>2 DEF ReaderThread
<1>8. CASE SendOneChunk
  <2> DEFINE data == Chunk(snd.file, snd.sent + 1)
             look == ReadAt(snd)
             fed  == [look EXCEPT !.crc = Append(@, data), !.sent = @ + 1, !.all = @ + 1]
  <2>1. SndBusy /\ snd.state = "Sending"
    BY <1>8 DEF SendOneChunk, SndBusy
  <2>2. \/ snd' \in {FileFinished(snd), FileFinished(fed), fed, look}
        \/ AbortSending(snd)
    BY <1>8 DEF SendOneChunk
  <2>3. look = [snd EXCEPT !.popped = snd.all]
    BY DEF ReadAt
  <2>4. look.next = snd.next /\ look.state = "Sending"
    BY <1>3, <2>1, <2>3 DEF Senders
  <2>5. fed.next = snd.next /\ fed.state = "Sending"
    BY <1>3, <2>1, <2>3 DEF Senders
  <2>6. /\ FileFinished(snd).next = snd.next /\ FileFinished(snd).state = "Sending"
        /\ FileFinished(fed).next = snd.next /\ FileFinished(fed).state = "Sending"
    BY <1>3, <2>1, <2>3 DEF FileFinished, Senders
  <2> HIDE DEF look, fed, data
  <2> QED BY <1>3, <1>5, <2>1, <2>2, <2>4, <2>5, <2>6
<1>9. CASE Cancel
  BY <1>3, <1>5, <1>9 DEF Cancel
<1>10. CASE OfferTimeout
  <2> DEFINE s == [snd EXCEPT !.unanswered = TRUE]
  <2>1. s \in Senders /\ s.next = snd.next
    BY <1>3 DEF Senders
  <2>2. AbortSending(s) /\ SndBusy
    BY <1>10 DEF OfferTimeout, SndBusy
  <2> HIDE DEF s
  <2> QED BY <1>5, <2>1, <2>2
<1>11. CASE ClientLinkLost
  BY <1>3, <1>4, <1>11 DEF ClientLinkLost
<1> QED BY <1>6, <1>7, <1>8, <1>9, <1>10, <1>11

\* A step offers the next batch, moves the sender, places a file, or leaves both alone.
LEMMA StepKinds ==
  ASSUME IInv, [Next]_vars
  PROVE  /\ IInv'
         /\ \/ Begin
            \/ UNCHANGED disk /\ SndBusy /\ snd'.next = snd.next /\ snd'.state # "Idle"
            \/ UNCHANGED snd /\ Placing
            \/ UNCHANGED <<snd, disk>>
<1>1. CASE Begin
  BY <1>1, BeginStep
<1>2. CASE ClientReceives \/ ReaderThread \/ SendOneChunk \/ Cancel \/ OfferTimeout
           \/ ClientLinkLost
  BY <1>2, SenderMoves
<1>3. CASE HostReceives
  <2>1. UNCHANGED snd
    BY <1>3 DEF HostReceives
  <2> QED BY <1>3, <2>1, HostReceivesStep
<1>4. CASE WriterThread \/ (\E yes \in BOOLEAN : SetAccepting(yes)) \/ StopFileHost \/ DropPeer
  <2>1. UNCHANGED snd
    BY <1>4 DEF WriterThread, SetAccepting, StopFileHost, DropPeer
  <2> QED BY <1>4, <2>1, WriterStep, SetAcceptingStep, ForgetStep
<1>5. CASE LoseLink \/ (\E end \in {"client", "host"} : BreakStream(end)) \/ Damage
           \/ StartFileHost
  BY <1>5, StreamStep
<1>6. CASE UNCHANGED vars
  <2>1. UNCHANGED <<rcv, slot, disk, link, torn, gone, on, snd, up>>
        /\ down' \in Seq(DownRecords) /\ Len(down') <= Len(down) /\ InDown' \subseteq InDown
    BY <1>6, LenProperties DEF vars, IInv, Types, InDown
  <2> QED BY <2>1, UnheededStep
<1> QED BY <1>1, <1>2, <1>3, <1>4, <1>5, <1>6 DEF Next, Upload, Host

\* Every reachable state keeps the invariant.
THEOREM Invariant == Spec => []IInv
<1>1. IInv /\ [Next]_vars => IInv'
  BY StepKinds
<1> QED BY <1>1, InitInv, PTL DEF Spec

\* Sender, receiver and part file keep their ranges, the outbox its capacity; the writer
\* never has more to write than DiskRoom, and a batch has an answer for each of its
\* files, and one to its offer and one that ends it, at most.
THEOREM TypeCorrect == Spec => []TypeOK
<1>1. IInv => TypeOK
  <2> SUFFICES ASSUME IInv PROVE TypeOK
    OBVIOUS
  <2>1. snd \in Senders /\ rcv \in Receivers /\ slot \in Slots
    BY DEF IInv, Types
  <2>2. /\ snd.file <= NumFiles => snd.sent \in 0..Size[snd.file]
        /\ snd.all \in 0..snd.read /\ snd.popped \in 0..snd.all
    <3>1. snd.all \in Nat /\ snd.read \in Nat /\ snd.popped \in Nat /\ snd.sent \in Nat
          /\ (snd.file <= NumFiles => Size[snd.file] \in Nat)
      <4>1. snd.file <= NumFiles => snd.file \in 1..NumFiles
        BY <2>1, FilesOK DEF Senders
      <4> QED BY <2>1, <4>1, TotalIsNat, FilesOK DEF Senders
    <3>2. /\ snd.file <= NumFiles => snd.sent <= Size[snd.file]
          /\ snd.popped <= snd.all /\ snd.all <= snd.read
      BY DEF IInv, SenderOK
    <3> QED BY <3>1, <3>2
  <2>3. /\ Receiving => rcv.got \in 0..Size[rcv.file]
        /\ slot.written \in 0..Len(slot.data) /\ Len(slot.data) - slot.written <= DiskRoom
    <3>1. slot.written \in Nat /\ Len(slot.data) \in Nat /\ rcv.got \in Nat
          /\ (rcv.file \in Files => Size[rcv.file] \in Nat)
      BY <2>1, FilesOK, LenProperties DEF Slots, Receivers, Files
    <3> QED BY <3>1 DEF IInv, ReceiverOK
  <2>4. Len(down) <= (NumFiles + 2) * MaxBatches
    <3> DEFINE K == NumFiles + 2
    <3>1. K \in Nat /\ Offered \in Nat /\ MaxBatches \in Nat /\ Offered <= MaxBatches
      BY <2>1, ToComeFacts, FilesOK DEF Offered, Senders
    <3>2. Len(down) \in Nat /\ Len(down) <= K * Offered
      <4>1. Len(down) + ToCome <= K * Offered /\ K * Offered \in Int
        BY <3>1 DEF IInv, CountOK
      <4> QED BY <4>1, ToComeFacts
    <3> HIDE DEF K
    <3>3. PICK d \in Nat : MaxBatches = Offered + d
      <4>1. MaxBatches - Offered \in Nat /\ MaxBatches = Offered + (MaxBatches - Offered)
        BY <3>1
      <4> QED BY <4>1
    <3>4. K * (Offered + d) = K * Offered + K * d /\ K * d \in Nat /\ K * Offered \in Nat
      BY <3>1
    <3>5. Len(down) <= K * MaxBatches
      BY <3>2, <3>3, <3>4
    <3> QED BY <3>5 DEF K
  <2> QED BY <2>1, <2>2, <2>3, <2>4 DEF TypeOK, IInv, Types, Senders, Receivers
<1> QED BY <1>1, Invariant, PTL

\* Whatever is damaged, cut short or cancelled leaves the folder without it: what is in
\* place is whole, and in the batch's order.
THEOREM OnlyWholeFiles == Spec => []OnlyWholeFilesPlaced
<1>1. IInv => OnlyWholeFilesPlaced
  BY DEF IInv, FolderOK, ReceiverOK, OnlyWholeFilesPlaced
<1> QED BY <1>1, Invariant, PTL

\* With nothing under way between them, the host has no batch the sender is done with,
\* save one whose cancel found no room.
THEOREM EndsAgree == Spec => []BothEndsAgree
<1>1. IInv => BothEndsAgree
  <2> SUFFICES ASSUME IInv, link = "up", torn = {}, up = <<>>, ~SndBusy, Receiving
               PROVE  rcv.batch \in snd.untold
    BY DEF BothEndsAgree
  <2>1. Known(rcv.batch) /\ InUp = {}
    BY DEF IInv, AgreeOK, InUp
  <2> QED BY <2>1 DEF Known
<1> QED BY <1>1, Invariant, PTL

-----------------------------------------------------------------------------
(* The promise of FileBatch.                                               *)

\* The files of the latest batch that are in place, and how many they are.
InPlace == {f \in Files : disk[Offered][f] # Missing}
Placed == IF Offered = 0 THEN 0 ELSE Cardinality(InPlace)

LEMMA PlacedFacts ==
  ASSUME IInv
  PROVE  /\ IsFiniteSet(Files) /\ Cardinality(Files) = NumFiles
         /\ IsFiniteSet(InPlace) /\ Cardinality(InPlace) \in 0..NumFiles
         /\ Cardinality(InPlace) = NumFiles => InPlace = Files
         /\ Offered \in Nat /\ (Offered # 0 => Offered \in Batches)
<1>1. IsFiniteSet(Files) /\ Cardinality(Files) = NumFiles /\ NumFiles \in Nat
  <2>1. NumFiles \in Nat /\ 1 \in Int /\ (1 <= NumFiles)
    BY FilesOK
  <2>2. IsFiniteSet(1..NumFiles) /\ Cardinality(1..NumFiles) = NumFiles - 1 + 1
    BY <2>1, FS_Interval
  <2> QED BY <2>1, <2>2 DEF Files
<1>2. InPlace \subseteq Files
  BY DEF InPlace
<1>3. /\ IsFiniteSet(InPlace) /\ Cardinality(InPlace) <= Cardinality(Files)
      /\ Cardinality(InPlace) = Cardinality(Files) => InPlace = Files
  BY <1>1, <1>2, FS_Subset
<1>4. Cardinality(InPlace) \in Nat
  BY <1>3, FS_CardinalityType
<1>5. Offered \in Nat /\ (Offered # 0 => Offered \in Batches)
  <2>1. snd.next \in 1..MaxBatches + 1 /\ MaxBatches \in Nat
    BY FilesOK DEF IInv, Types, Senders
  <2> QED BY <2>1 DEF Offered, Batches
<1> QED BY <1>1, <1>3, <1>4, <1>5

\* The verdict, state by state.
LEMMA VerdictCases ==
  ASSUME IInv
  PROVE  /\ snd.state \in {"Idle", "Offering", "Sending", "Done", "Refused", "Failed"}
         /\ SndBusy => Verdict = "Pending"
         /\ snd.state = "Idle" => Verdict = "None"
         /\ snd.state \in {"Done", "Refused", "Failed"} =>
              Verdict = IF snd.unanswered THEN "Refused" ELSE snd.state
<1>1. /\ snd.state \in {"Idle", "Offering", "Sending", "Done", "Refused", "Failed"}
      /\ snd.unanswered => snd.state = "Failed"
  BY DEF IInv, Types, Senders, SenderOK
<1>2. CASE snd.state \in {"Offering", "Sending"}
  <2>1. snd.state # "Idle" /\ ~snd.unanswered
    BY <1>1, <1>2
  <2> QED BY <1>2, <2>1 DEF Verdict, SndBusy
<1>3. CASE snd.state = "Idle"
  BY <1>1, <1>3 DEF Verdict, SndBusy
<1>4. CASE snd.state \in {"Done", "Refused", "Failed"}
  <2>1. CASE snd.unanswered
    BY <1>4, <2>1 DEF Verdict, SndBusy
  <2>2. CASE ~snd.unanswered
    BY <1>4, <2>2 DEF Verdict, SndBusy
  <2> QED BY <1>4, <2>1, <2>2 DEF SndBusy
<1> QED BY <1>1, <1>2, <1>3, <1>4 DEF SndBusy

\* A verdict tells what is in the folder.
VerdictTrue ==
  /\ Verdict \in {"Pending", "None", "Refused", "Done", "Failed"}
  /\ Verdict = "Pending" <=> SndBusy
  /\ Verdict = "None" <=> snd.state = "Idle"
  /\ Verdict = "Done" => Placed = NumFiles
  /\ Verdict = "Refused" => Placed = 0

LEMMA VerdictHolds == IInv => VerdictTrue
<1> SUFFICES ASSUME IInv PROVE VerdictTrue
  OBVIOUS
<1>1. /\ Verdict \in {"Pending", "None", "Refused", "Done", "Failed"}
      /\ Verdict = "Pending" <=> SndBusy
      /\ Verdict = "None" <=> snd.state = "Idle"
  BY VerdictCases DEF SndBusy
<1>2. snd \in Senders /\ NumFiles \in Nat
  BY FilesOK DEF IInv, Types
<1>3. ASSUME ~SndBusy, snd.state # "Idle" PROVE snd.batch = Offered /\ Offered # 0
  BY <1>3 DEF IInv, SenderOK, Offered, Batches
<1>4. ASSUME Verdict = "Done" PROVE Placed = NumFiles
  <2>1. ~SndBusy /\ snd.state = "Done"
    BY <1>4, VerdictCases DEF SndBusy
  <2>2. snd.acked = NumFiles
    BY <2>1 DEF IInv, SenderOK
  <2>3. \A f \in Files : f <= snd.acked
    BY <1>2, <2>2 DEF Files
  <2>4. \A f \in Files : disk[Offered][f] # Missing
    BY <1>3, <2>1, <2>3 DEF IInv, AckedOK
  <2>5. InPlace = Files
    BY <2>4 DEF InPlace
  <2> QED BY <1>3, <2>1, <2>5, PlacedFacts DEF Placed
<1>5. ASSUME Verdict = "Refused" PROVE Placed = 0
  <2>1. ~SndBusy /\ snd.state # "Idle" /\ (snd.unanswered \/ snd.state = "Refused")
    BY <1>5, VerdictCases DEF SndBusy
  <2>2. snd.file = 1
    BY <2>1 DEF IInv, SenderOK
  <2>3. \A f \in Files : disk[Offered][f] = Missing
    <3> SUFFICES ASSUME NEW f \in Files, disk[Offered][f] # Missing PROVE FALSE
      OBVIOUS
    <3>1. Offered \in Batches /\ Offered = snd.batch
      BY <1>3, <2>1, PlacedFacts
    <3>2. Past(snd.batch, f)
      BY <3>1 DEF IInv, FolderOK
    <3> QED BY <1>2, <2>2, <3>1, <3>2 DEF Past, Files, Batches
  <2>4. InPlace = {}
    BY <2>3 DEF InPlace
  <2> QED BY <2>4, FS_EmptySet DEF Placed
<1> QED BY <1>1, <1>4, <1>5 DEF VerdictTrue

\* The next batch has none of its files in place when it is offered.
LEMMA BeginKeeps ==
  ASSUME IInv, Begin, VerdictTrue, VerdictTrue'
  PROVE  Batch!Start \/ Batch!Withdraw
<1>1. ~SndBusy /\ UNCHANGED disk
  BY DEF Begin
<1>2. snd.next \in Nat /\ (snd.next \in Batches)
  <2>1. snd \in Senders /\ snd.next <= MaxBatches
    BY DEF IInv, Types, Begin
  <2> QED BY <2>1, FilesOK DEF Senders, Batches
<1>3. Verdict # "Pending"
  BY <1>1 DEF VerdictTrue
<1>4. \/ snd'.next = snd.next + 1 /\ snd'.state = "Offering"
      \/ snd'.next = snd.next /\ snd'.state = "Idle"
  BY DEF Begin, NewSender
<1>5. CASE snd'.next = snd.next + 1 /\ snd'.state = "Offering"
  <2>1. Offered' = Offered + 1 /\ Offered' = snd.next /\ Offered' # 0
    BY <1>2, <1>5 DEF Offered, Batches
  <2>2. \A f \in Files : disk[snd.next][f] = Missing
    <3> SUFFICES ASSUME NEW f \in Files, disk[snd.next][f] # Missing PROVE FALSE
      OBVIOUS
    <3>1. Past(snd.next, f)
      BY <1>2 DEF IInv, FolderOK
    <3>2. snd.batch \in Int /\ snd.batch <= snd.next /\ (snd.batch = snd.next => snd.file = 1)
      <4>1. snd \in Senders /\ snd.batch \in Int
        BY DEF IInv, Types, Senders
      <4> QED BY <1>1, <1>2, <4>1 DEF Senders, IInv, SenderOK, SndBusy
    <3> QED BY <1>2, <3>1, <3>2 DEF Past, Files
  <2>3. InPlace' = {}
    BY <1>1, <2>1, <2>2 DEF InPlace
  <2>4. Placed' = 0
    BY <2>3, FS_EmptySet DEF Placed
  <2>5. Verdict' = "Pending"
    BY <1>5 DEF VerdictTrue, SndBusy
  <2> QED BY <1>3, <2>1, <2>4, <2>5 DEF Batch!Start, Placed, InPlace
<1>6. CASE snd'.next = snd.next /\ snd'.state = "Idle"
  <2>1. Offered' = Offered /\ Placed' = Placed /\ Verdict' = "None"
    BY <1>1, <1>6 DEF Offered, Placed, InPlace, VerdictTrue
  <2> QED BY <1>3, <2>1 DEF Batch!Withdraw, Placed, InPlace
<1> QED BY <1>4, <1>5, <1>6

\* A file placed is one more of the latest batch, or one of an earlier batch.
LEMMA PlacingKeeps ==
  ASSUME IInv, UNCHANGED snd, Placing, VerdictTrue, VerdictTrue'
  PROVE  Batch!Place \/ UNCHANGED Batch!bvars
<1> PICK b \in Batches, f \in Files : /\ disk[b][f] = Missing
                                      /\ disk' = [disk EXCEPT ![b][f] = Content(f)]
  BY DEF Placing
<1>1. /\ Offered' = Offered /\ Verdict' = Verdict
      /\ Offered \in Nat /\ NumFiles \in Nat /\ b # 0
  BY PlacedFacts, FilesOK DEF Offered, Verdict, SndBusy, Batches
<1>2. disk \in [Batches -> [Files -> Seq(Data) \cup {Missing}]] /\ Content(f) # Missing
  BY ContentFacts DEF IInv, Types
<1>3. CASE b = Offered
  <2>1. InPlace' = InPlace \cup {f} /\ f \notin InPlace
    BY <1>1, <1>2, <1>3 DEF InPlace
  <2>2. Cardinality(InPlace') = Cardinality(InPlace) + 1
    BY <2>1, PlacedFacts, FS_AddElement
  <2>3. Placed' = Placed + 1 /\ Placed \in Nat /\ Placed < NumFiles
    <3>1. Placed' = Cardinality(InPlace') /\ Placed = Cardinality(InPlace)
      BY <1>1, <1>3 DEF Placed
    <3>2. Cardinality(InPlace) \in 0..NumFiles /\ Cardinality(InPlace) # NumFiles
      BY <2>1, PlacedFacts
    <3> QED BY <1>1, <2>2, <3>1, <3>2
  <2>4. Verdict \in {"Pending", "Failed", "None"}
    <3>1. Verdict # "Done"
      BY <1>1, <2>3 DEF VerdictTrue
    <3>2. Verdict' = "Refused" => Placed' = 0
      BY DEF VerdictTrue
    <3>3. Verdict # "Refused"
      BY <1>1, <2>3, <3>2
    <3> QED BY <3>1, <3>3 DEF VerdictTrue
  <2> QED BY <1>1, <2>3, <2>4 DEF Batch!Place, Placed, InPlace
<1>4. CASE b # Offered
  <2>1. Offered # 0 => InPlace' = InPlace
    <3> SUFFICES ASSUME Offered # 0 PROVE InPlace' = InPlace
      OBVIOUS
    <3>1. Offered \in Batches
      BY PlacedFacts
    <3>2. disk'[Offered] = disk[Offered]
      BY <1>2, <1>4, <3>1
    <3> QED BY <1>1, <3>2 DEF InPlace
  <2>2. Placed' = Placed
    BY <1>1, <2>1 DEF Placed
  <2> QED BY <1>1, <2>2 DEF Batch!bvars, Placed, InPlace
<1> QED BY <1>3, <1>4

\* The verdict comes once, and tells the truth.
LEMMA SettlingKeeps ==
  ASSUME IInv, UNCHANGED disk, SndBusy, snd'.next = snd.next, snd'.state # "Idle",
         VerdictTrue, VerdictTrue'
  PROVE  Batch!Settle \/ UNCHANGED Batch!bvars
<1>1. Offered' = Offered /\ Placed' = Placed
  BY DEF Offered, Placed, InPlace
<1>2. Verdict = "Pending"
  BY DEF VerdictTrue
<1>3. /\ Verdict' \in {"Pending", "None", "Refused", "Done", "Failed"}
      /\ Verdict' = "None" <=> snd'.state = "Idle"
  BY DEF VerdictTrue
<1>4. /\ Verdict' = "Done" => Placed' = NumFiles
      /\ Verdict' = "Refused" => Placed' = 0
  BY DEF VerdictTrue
<1>5. CASE Verdict' = "Pending"
  BY <1>1, <1>2, <1>5 DEF Batch!bvars, Placed, InPlace
<1>6. CASE Verdict' # "Pending"
  <2>1. Verdict' \in {"Done", "Refused", "Failed"}
    BY <1>3, <1>6
  <2> QED BY <1>1, <1>2, <1>4, <2>1 DEF Batch!Settle, Placed, InPlace
<1> QED BY <1>5, <1>6

\* Done only with all files in place, Refused only with none: each step of the two ends
\* is a step of the batch's promise, or none.
THEOREM Promise == Spec => KeepsThePromise
<1>1. Init => Batch!BatchInit
  BY DEF Init, NewSender, Batch!BatchInit, Offered, Verdict, SndBusy
<1>2. (IInv => VerdictTrue)'
  BY VerdictHolds, PTL
<1>3. IInv /\ [Next]_vars => [Batch!BatchNext]_Batch!bvars
  <2> SUFFICES ASSUME IInv, [Next]_vars
               PROVE  Batch!BatchNext \/ UNCHANGED Batch!bvars
    OBVIOUS
  <2>1. VerdictTrue /\ VerdictTrue'
    BY <1>2, StepKinds, VerdictHolds
  <2>2. CASE Begin
    BY <2>1, <2>2, BeginKeeps DEF Batch!BatchNext
  <2>3. CASE UNCHANGED disk /\ SndBusy /\ snd'.next = snd.next /\ snd'.state # "Idle"
    BY <2>1, <2>3, SettlingKeeps DEF Batch!BatchNext
  <2>4. CASE UNCHANGED snd /\ Placing
    BY <2>1, <2>4, PlacingKeeps DEF Batch!BatchNext
  <2>5. CASE UNCHANGED <<snd, disk>>
    BY <2>5 DEF Batch!bvars, Offered, Verdict, SndBusy
  <2> QED BY <2>2, <2>3, <2>4, <2>5, StepKinds
<1> QED BY <1>1, <1>3, Invariant, PTL DEF Spec, KeepsThePromise, Batch!BatchSpec
=============================================================================
