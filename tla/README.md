# Deskhub in TLA+

Deskhub shares a machine's screen, sound, input, terminal and files with other
machines over one QUIC connection per viewer.  This directory models the parts of it
that keep state, checks them with TLC on small instances and proves every safety
property it checks, for instances of any size, with TLAPS.  Paths below are relative to `src/`;
`core/` is the portable library (no I/O), `platform/` the library that owns threads,
sockets and files, `client/` the user interfaces.

## 1. The system

### Components

| Component | State it keeps | Operations | Talks to |
|---|---|---|---|
| **Host transport** `platform/src/net/SessionTransport.cpp` | per peer address: QUIC connection, `HostAuth`, deadline, session id, inbound lanes | accept, auth records, poll for expiry and revoked keys, receive, send, close | sessions and hosts on the receive thread; the lists of keys |
| **Admission** `platform/src/auth/AuthNegotiation.cpp`, `core/src/auth/*` | phase of each handshake, deadlines, failure counts | `Begin`, `Respond`, `RecordFailure`, `Expired` | transport, lists |
| **Lists** `core/src/net/AccessRequests.cpp`, `AuthorizedKeys.cpp`, `core/src/auth/PairingTokens.cpp` with their files in `platform/src/system/` | requests, keys let in, tokens; each a file with a lock file | file, approve, deny, forget, issue, redeem, revoke | host, app windows and command lines of one user, at once |
| **Viewers of a source** `core/src/session/host/ScreenHostSession.cpp`, `ViewerTable.cpp` | table of seats, who drives, keys held, published snapshot; a seat budget shared by all sources of the host | hello, bye, input, focus, disconnect, tick | receive thread; sender threads read the snapshot |
| **Host engine** `platform/src/host/HostEngine.cpp`, `HostNetLoop.cpp` | sources, pipelines, threads | start, stop, stop one source, kick | all host components |
| **Shells** `platform/src/host/TerminalHost.cpp`, `core/src/session/TerminalSession.cpp` | id → shell, its peer, its state; lists of lost connections and kicks | open, resume, close, take over, kick, tick of the pump thread | transport callbacks, pump thread, user interface |
| **Terminal window** `platform/src/client/TerminalViewer.cpp`, `core/src/session/client/TerminalClient.cpp` | what it waits for, its shell, an outbox | link ready, link lost, messages, the user's commands | its `HostLink` thread |
| **Files, sender** `core/src/session/client/FileSender.cpp`, `platform/src/client/FileUpload.cpp`, `FileTransferClient.cpp` | the batch, what is read ahead, sent and acknowledged | offer, chunk, end, cancel, answers, timeouts | the reliable stream |
| **Files, host** `core/src/session/host/FileReceiver.cpp`, `platform/src/host/FileHost.cpp`, `platform/src/system/FileStore.cpp` | one receiver per peer, an open part file, a writer thread with a backlog | offer, chunk, end, cancel, peer gone, stop | the stream, the disk |
| **Client connection** `platform/src/client/HostLink.cpp`, `core/src/session/LinkPulse.cpp`, `LinkRecovery.cpp` | dial state, backoff, trust prompt, ping clock | dial, authenticate, pump, redial, cancel | transport of the client, user interface |
| **Client session** `core/src/session/client/ScreenClientSession.cpp` | hello retries, focus, input window | start, poll, messages | its connection |
| **Media path** `core/src/transport/*`, `core/src/control/*` | frames being reassembled, retransmit cache, jitter buffer, quality and rate | packets in and out, feedback | datagrams |
| **Unattended access** `platform/src/host/UnattendedDaemon.cpp`, `core/src/session/host/UnattendedControl.cpp` | who hosts before sign-in | acquire, yield, settings | the app |
| **User interfaces, capture, codecs, parsers** `client/`, `platform/src/media`, `audio`, `core/src/terminal`, `cli`, `qr` | — | — | — |

### What is hard, and what makes each component correct

* **Addresses are not clients.**  A viewer changes address as it roams, and an address
  is used again by another viewer.  Seats, control and held keys must follow the viewer;
  frames must follow the address it has now; seats must be counted once for the whole
  host.
* **Two threads learn of a loss at different times.**  The transport reports a lost
  connection; the pump thread detaches its shells later; the client may have redialled
  and asked for its shell before either.  No shell may be lost, given to the wrong
  window, or stay attached to a connection that is no more.
* **Acknowledged is not stored.**  The host takes chunks on one thread and writes them
  on another, which may fail long after; nothing may be acknowledged, or given its name
  in the folder, before it is stored whole.
* **Half-open connections.**  A connection that is not let in costs one of eight places
  and has a deadline; a key is blocked after failures and may be taken off the list
  while connected.
* **Silence is not absence.**  A machine that slept did not watch; the host is given
  up only for silence that was watched.
* **A picture made of what arrives.**  Datagrams are lost, late and repeated, frames are
  dropped in four places on three threads, and each drop must lead to a keyframe; the
  user interface takes away the surface a decoder draws on, and must get it back.
* **Two clocks of one connection.**  The session in a window goes silent by its own clock
  and asks a link thread, which may be anywhere, to dial again; neither may end the
  window for what the other is about to mend.
* **More output than the line takes.**  A shell that prints faster than its window reads has
  output dropped and its screen repainted, over connections that come and go.
* **Files written by several processes.**  The app, a command line and the host's
  receive thread change the same lists.

The full list is `hazards` in `PROJECT.json`, each at its line with the properties that
cover it or the reason none does.

## 2. Modules

| Module | Models | Extends or refines |
|---|---|---|
| `ViewerSession` | viewers of all sources of one host | — |
| `FileBatch` | what a file transfer promises its user | — |
| `FileTransfer` | sender, stream, receiver, writer thread, folder | implements `FileBatch` |
| `HostAdmission` | the host's half of the handshake for all connections | — |
| `LinkPulse` | the client's watch on its host | — |
| `TerminalShells` | shells, terminal windows and the connections between | — |
| `AccessStores` | lists of requests, keys and tokens, and who writes them | — |
| `VideoStream` | one viewer's picture, from the encoder to the decoder | — |
| `HostLink` | the link thread of a client: dial, admission, approval, redial | — |
| `ScreenViewing` | a window that watches a screen: its link and its session | extends `HostLink` |
| `TerminalOutput` | what a shell prints, on its way to its window's screen | — |
| `MC…` | an instance of the module for TLC: values of function constants, symmetry | the module |
| `…_proofs` | theorems about the module; `Links_proofs` about `LinkPulse` and `ScreenViewing` | the module and `TLAPS` |

Definitions named `…Unlocked`, `…Early` and the like, introduced by a comment "Faulty
variant of", are used by no specification: each is a mistake the code might make, kept
beside the definition it would replace, and breaks at least one property.

### ViewerSession

State: `ses` (a `ScreenHostSession` with its `ViewerTable` per source), `taken` (the
`ViewerBudget` of the engine), `stopped` (sources that `ShutdownSource` ended),
`running`, `gone` (clients that will not send again).  Every handler runs on the host's
receive thread and is one action: `HandleHello` (seat, rebind on roaming, takeover of an
address, rejection), `HandleBye`, input and focus, kicks, the `Tick` that drops the
silent and hands control on, `ShutdownSource`, stop and restart.  Time stamps are ages
that saturate just past the limit they are compared with.

Left out: feedback reports, clipboard, the audio flag, names, and a sender that reads the
published addresses while they are being written: a change of the table and its publication
are one step.

### FileTransfer and FileBatch

`snd` is the `FileSender`, `rcv` the `FileReceiver` the host has for the connection,
`slot` the part file of the `FileStore` with how far its writer thread got, `disk` the
folder, `up` and `down` the reliable stream with the client's bounded outbox, `torn` the
ends whose half of it broke, `link` and `on` the connection and the host's file sharing.
`ReaderThread` fills the client's ring as far as there is room, `SendOneChunk` runs when
`Pumpable` has something for it and lets go of what was sent before; `WriterThread` empties
the host's queue, the host takes nothing off the stream unless `KeepingUp`, and whatever
closes a part file waits until it is `Written`.  The content of a file is the sequence of its chunks and a checksum the
sequence it has been fed, so a damaged or missing chunk is told from a sound one.
`FileBatch` is what the user is told: one batch at a time, its files placed in order,
`Done` only with all of them placed, `Refused` only with none.  `FileTransfer` maps to it
the latest batch, the number of its files placed and the sender's verdict, and
`KeepsThePromise` is that every step is a step of `FileBatch` or none.

Environment: a chunk altered on its way (`MaxDamage`), a file that cannot be read or
written, the user switching file sharing, a cancel, a stream broken at either end
(`MaxTears`), a lost link, the sender's answer timeout.  Left out: limits and names of an
offer, choosing a free name, a write that waits for room in a full queue (the stream is
paused at half of it), progress.  The host's few bytes of answers are taken to fit its own
outbox.

### HostAdmission

`conn` is what the host knows of each connection (its QUIC phase, `HostAuth` state, key,
and whether it was let in), `left` its entry in `AuthDeadlines`, `allowed` the keys on the
list, `failures` the `AuthFailureLimiter` of one address, `inbox` the messages delivered to
the sessions.  A connection the host closes lingers until QUIC says it is closed, and
what came before is still handled, which is where most of the order-dependent
behaviour lies.  Left out: the limiter of pairing guesses, the limiter's own
capacity, unreadable records, lanes.

### LinkPulse

`now`, the last tick, ping and pong, the ring of pings sent, and the history variables
`wire`, `heard`, `watched`, `steady` that say what really happened.  `Turn` is one turn of
`HostLink::PumpReady` with `LinkPulse::Tick`; a turn may come as late as it likes.

### TerminalShells

`shells`, `nextId`, `gone` and `kicks` are `TerminalHost`'s, `viewer` is each window's
`TerminalClient` with the commands its link thread posted and its outbox, `up`, `toHost`
and `toViewer` the connections.  A redial comes from a new port, so a connection is
named by the viewer and the number of the dial.  The receive thread (messages,
`OnPeerGone`) and the pump thread (`Turn`) are separate actions; a lost connection is
reported by the one and acted on by the other.  Scheduling the code fixes: a window
serves its queue every 10 ms and redials after 500 ms at the earliest, and gives up
after 120 s, when the host has noticed the loss (30 s) long since.  Left out: the bytes
of a shell and its repaints, sizes, lists of shells, a restart of terminal sharing, an
outbox of 4 MiB that is full, ids that wrap after 2^32 shells, a shell named when the
window is opened (`resumeId`).  The list a user picks from is shown when it is asked for
and hidden by a pick; a list asked for earlier that comes later is left out.  That no
connection has the address of the host itself is the assumption `NoPeerOK`.

### AccessStores

`requests`, `allowed` and `tokens` are the three files, `lock` and `copy` the lock of
`access_requests` and what its holder loaded, `knock` how far `HostAuth::SettleProvenKey`
got with a device, `owner` the approval or denial being carried out at each place.
`ChangeRequests` is a load and a save, as `ApproveAccessRequest` writes
`authorized_keys` in between; a change of the keys or of the tokens asks for no other
lock and is one step.  A write may fail, and a process may die at any step.  When no token
is left, `SaveLocked` removes the file instead of writing it and takes a removal that
fails for one that did not (`PairingTokenFile.cpp:29-33`, `AppDataFile.h:144`): `Consume`
and `RevokePairingTokens` have both outcomes, and `knock.stuck` marks a device whose token
stayed in force so, for `letIn` not to count it.  The rows
are a set: their order decides only which of several oldest rows a full list drops,
and that is left open.  Left out: files edited by hand or unreadable, a clock set
back, a client's list of trusted hosts.

### VideoStream

`sent`, `forceIdr`, `serving` are the host's encoder and session; `pending`, `barrier`,
`waitingForIdr`, `lossEvent` the viewer's `Reassembler`; `keyframeWanted` and `decQueue`
`ScreenClient`'s and `ScreenViewer`'s, with the flags by which the decode thread tells the
net thread of a full queue, a failed or a new decoder; `surfaceGen` and `surfaceAckGen` the
handshake of `SetSurface`.  A datagram of any frame sent on this connection may come at any
time, again or never, which is loss, delay, reordering, duplication and the answer to a
NACK in one; of a frame's datagrams only how many different ones came counts, as parity
makes any so many of them enough.  The net thread's turn is a message (`Receive`), the
frames it completes or gives up (`PopReady`, `DropPreIdr`, `DropLost`) and its end (`Tick`,
or `Restart` on a link dialled anew).  The decode thread lets the lock go between seeing a
surface swapped and closing the decoder, and between taking a surface and opening on it;
these are steps of their own.  `missed`, `shown` and `lacks` are history: what the viewer saw
itself lose, what the decoder was given last, what its picture lacks.

Left out: which datagrams a NACK names and how long the host keeps them, parity
arithmetic, pacing, audio, the keyframe asked for when the display falls behind
(`displayCongested_`), other viewers of the source, quitting while a surface is swapped.

### HostLink and ScreenViewing

`HostLink` is the thread of `HostLink::Loop` as screen and terminal viewers set it up:
`at` says where in `Loop` and `DialAndAdmit` it is, `state` is what it last said, `lossAge`
and `askAge` the times it counts against the grace for a redial and the wait for approval.
What a dial meets — no answer, no trust, let in, to be approved, refused — is a choice.
`ScreenViewing` adds the net thread of `ScreenViewer` with its `ScreenClientSession`, which
share two flags with the callbacks of the link (`reattaching`, `relink`) and one the other
way (`redial`); messages of a lost connection are still read after it (`unread`).

Left out: the backoff between dials, a link that does not recover, the user's choice to
trust a new key, keepalives, focus and input, the phase shown.

### TerminalOutput

`mirror` is how much the shell has printed, which is what the host's emulator of it shows;
`shell` has the bytes pending for its peer, whether it is behind, its peer and size; `wire`
is everything between `SendToPeer` and the window, in order and bounded; `viewer` is the
window: `TerminalClient`'s state, its screen, what its link thread posted, its outbox.  A
piece of output is right only on the screen it was printed on, and a repaint only whole and
in order, so `Shown` tells a screen that missed or repeated anything from one that did not.
`doubled` is history: whether the window asked again on this connection before an earlier
request was answered.
`Pump` is a whole turn of the pump thread for the shell: detach if its connection is lost,
flush, repaint, read, flush again, each flush taking what the outbox has room for.

Left out: what is typed, the answers of the emulator, how lines wrap while a change of
size is on its way, and a window that opens another shell after its own ended.

## 3. What is checked

| Run | Instance | Shows |
|---|---|---|
| `viewer_home` | 2 sources, 2 viewers that keep their addresses, 2 seats, fair | `HeldByTheDriver`: what is held down belongs to the viewer in control; `SeatsAccounted`: seats are counted once through stops and restarts; `VanishedLoseTheirSeats`: a viewer that vanishes loses its seats |
| `viewer_roaming` | 3 viewers, any of 2 addresses, 2 seats | table, snapshot and session state agree; the earlier viewer keeps control; coming back keeps one's rank |
| `file_batches` | 2 batches of 3 files, outbox of 3, 2 chunks read ahead, 2 to be written, one broken end, fair | nothing acknowledged unstored, only whole files placed, no part left; both ends agree when a batch is over; `KeepsThePromise` (the refinement); every upload reaches a verdict, unless the host's end of its stream broke |
| `admission_connections` | 2 connections, 1 place, 1 key, fair | who is not let in runs against a deadline, who is let in does not; places are given back; a blocked key gets in on no connection; each is let in or closed; a device taken off the list ends with no connection and no message |
| `pulse_watch` | 14 time units, ring of 2 pings | given up for watched silence, always, and for nothing else |
| `terminal_drops` | 2 windows, 1 shell, one of them redials | `WindowsMatchShells`: a window that shows a shell has it, and no shell runs unseen on a first connection; a takeover is for good |
| `terminal_output` | 1 shell, 4 pieces of output, 2 connections, a resize, fair | `NothingIsMissed`: whatever is dropped the window never shows a wrong screen, nor believes it has caught up when it has not; `SizesAgree`; `CatchesUp`: it comes to show what the shell shows |
| `access_stores` | 3 devices, 2 addresses, 2 rows, 2 tokens, 2 owners and the host | one row of each; an approval rests on a request still there; nothing settled comes back unasked; a token lets in one device, if the file it was in could be removed |
| `video_stream` | 3 frames of 1 or 2 datagrams, 2 in assembly, 1 queued, one upset, fair | the decoder gets each frame once and in order; a picture that lacks a frame is being repaired; a surface taken away is let go, and the call that takes it returns |
| `viewer_window` | a link and a session with all timeouts apart, fair | a link that is up has no clock of a loss or of a wait for approval left running (`ClocksMatch`, in `TypeOK`); a session that went silent is redialled wherever the link thread was; the link comes to an answer; a window whose link is over ends |

Two runs end in a counterexample on purpose; each is a finding:

* `viewer_roamed_driver`: a viewer that drives, changes address and leaves while others
  watch is not recognised as the driver, and what it held stays down
  (`core/src/session/host/ScreenHostSession.cpp:201`).
* `access_late_knock`: `RememberAccessRequest` reads the clock before it waits for the
  lock, and then drops rows newer than that; a denial saved meanwhile is dropped and the
  device listed anew (`platform/src/system/AccessRequestsFile.cpp:115`).

### Bounds

Two of everything that competes, and a third where one waits while another is replaced:
three roaming viewers for two seats, three devices for two rows.  The addresses of
`viewer_home` are fixed, so there the hazards of roaming are left to `viewer_roaming`, and
in exchange two sources share one budget.  `admission_connections` has two connections of
one device for one place: the competition is for the place and for the device's failures.
With a second device the state space is too large for its liveness properties, and the
other devices are what the theorems of `HostAdmission_proofs` are for.

Timeouts are one to four ticks, enough for "just before", "at" and "after"; ages saturate
past the limit, so no behaviour is cut off by time, except in `LinkPulse` and
`AccessStores`, which count it: in the first `MaxNow` leaves room for three whole
timeouts, in the second for a row to run out and another, newer by a tick, to do so after
it.  `MaxJoins`, `MaxBatches`, `MaxDials`, `MaxPicks`, `MaxInbox`, `MaxDamage` and
`MaxToggles` bound what the environment does; two dials are one loss and one return.  In `terminal_drops` the window that redials picks
once and the other, with one connection, twice.  The outbox of `file_batches` holds three
records, fewer than a batch needs, so back-pressure happens at every record; the batch has
three chunks, the reader's ring two, so it is full before the last is read; the host's
queue two, so both chunks of the first file wait while the record that ends it does.

`video_stream` has three frames: one shown, one lost, one that must not be taken for its
repair; two in assembly, so that a third pushes one out; a queue of one, so that every
second frame overflows it; frames of one datagram, whole at once, and of two.  One upset is
a new dial, a changed offer or a swapped surface.  In `viewer_window` every timeout of the
code has its own length and their order is the code's (silence 1 < HELLO 2 < approval 3 <
grace 4), so each can be the one that strikes first.  In `terminal_output` the buffer at
the host, the line and a repaint are two pieces each and the pump reads two at a time, so
four pieces overflow the buffer twice, and a repaint is cut by a full line or by a lost
connection.  What a third connection can do is left to the theorems, which hold for any number.

Some properties say less than one might hope, because the code does less.  `BothEndsAgree`
leaves out the batches in `snd.untold`, whose `FileCancel` a full outbox refused:
`FileSender` ignores that, and the two ends disagree until the link ends.  It also leaves
out a stream broken at one end, and `UploadSettles` one broken at the host's (section 6).
`HolderIsOwner` leaves out a
window that picked again on a later connection (`AskedOnce`, section 6).  `LiveIsSeen`, the
other part of `WindowsMatchShells`, speaks of the first connection of a window: after a redial,
what the outbox kept from the connection before may open a shell that its window has
stopped waiting for.  `LinkComesToAnAnswer` leaves out a client that lost its connection and
is then to be approved, and `DamageIsBeingRepaired` the frames behind one of which no
datagram arrived.  `SizesAgree` and `CatchesUp` leave out a window that asks for its shell
while an earlier request of its own is unanswered (`viewer.doubled`), which takes a link
lost twice in a row.  `OneKeyPerToken` counts the devices a token let in after it was taken
off the file, not one let in while the emptied file could not be removed.  Section 6 has all four.

`CHECK_DEADLOCK FALSE` is set for file transfers, terminals and windows only: a transfer may
be over, a window closed, a shell ended, and dials and picks run out.

### Fairness

Weak fairness, of threads that loop for ever: the receive thread with its 100 ms
poll (`ViewerSession`'s tick; `PassTime`, `ExpirePendingAuth`, `RevokeForgottenPeers` and
each `RecvFrom` of `HostAdmission`), the upload, reader and writer threads of
`FileTransfer` (each waits on a condition variable only until there is work), the
decode thread of `VideoStream`, the link thread and the net thread of `ScreenViewing` and
the passing of time between their steps, and in `TerminalOutput` each thing the viewer's
thread serves, the redial, the delivery of messages, the report of a lost connection
(QUIC's idle timeout) and the pump thread's turn, whether or not the shell prints.  The
link thread's dial is fair as a whole: it comes to some answer, never to a particular
one.  Nothing a user does is fair, nor is any loss, damage or failure, nor any frame.

Scheduling the modules rely on without fairness: no time passes while the link thread
goes from saying that it is ready to telling the viewer so; a viewer's channel, polled
every few milliseconds, is drained within the 500 ms before a redial at the earliest.

## 4. What is proved

For every value of the constants, from the modules' named assumptions alone
(`ConstantsOK`, `FilesOK`, `AdmissionOK`, `PulseOK`, `ShellsOK`, `NoPeerOK`, `StoresOK`,
`StreamOK`, `LinkOK`, `ViewingOK`, `OutputOK`):

* **`ViewerSession_proofs`** — `TypeCorrect`, `ViewersStayDistinct`, `SnapshotIsCurrent`,
  `SeatsStayAccounted`, `HeldOnlyByTheDriver`, `EarlierViewerComesFirst`,
  `ComingBackKeepsPriority`.
  The invariant `Inv` says of each session that it is `WellFormed`: its
  viewers are distinct, each is a client's and joined before the next order is given out,
  and the snapshot is that of the table.  One lemma per operation of the table
  (`FreeSeats`, `DropViewers`, `Rebind`, `Admit`, …) shows that it keeps a session so;
  `AfterEvictionLeavesOne` is the one `Hello` turns on: after the eviction nobody but its
  own client is at its address, so neither moving nor admitting it doubles an address.
  The budget is counted with cardinalities, a seat taken for each one admitted.
  `HeldOnlyByTheDriver` is under the assumption that no client ever changes its address
  (`OneAddressEach`): without it the run `viewer_roamed_driver` refutes the property.
  The last two are about steps: every step changes every session in an `Orderly` way, in
  which who is seated keeps its place and only a viewer with nobody driving before it takes
  the controls.  They need the count of the seats to be right: a HELLO that evicts ends the
  session, with every seat of it, when the count comes to zero, and would seat its client
  anew with a later place if the count were wrong.
* **`FileTransfer_proofs`** — `TypeCorrect`, `OnlyWholeFiles`, `EndsAgree` and `Promise`, the
  refinement of `FileBatch`.  The invariant puts what is on the stream in order: the records
  behind an offer belong to its batch or to a later one, and what the host has in hand, has
  been asked to do or has answered belongs to an earlier one or this.  With it `AckedOK` says
  that an answer on its way tells of what is in the folder, `FolderOK` that what is there is
  whole, and `AgreeOK` that with nothing under way the two ends are in the same batch.  For
  the refinement a new batch is a `Start` (or a `Withdraw` of the one it replaces), a file
  placed a `Place`, and a verdict a `Settle`, which `VerdictTrue` shows to be true; a file
  placed for an older batch is no step of the latest.
* **`HostAdmission_proofs`** — `TypeCorrect`, `DeadlineUntilLetIn`,
  `BlockedKeysAreKeptOut`, `PlacesStayBounded`.  The invariant is `TypeOK` and, for each
  peer, `PeerOK`: which combinations of phase, handshake, admission and deadline occur.
  `TimedUntilLetIn`
  is not inductive alone: that a connection let in has none follows from
  the handshake having settled, and that one in handshake has one from its being alive.
* **`Links_proofs`** — of `LinkPulse`: `PulseTypeCorrect`, `GivenUpForWatchedSilence`,
  `QuietHostIsNoticed`.  The invariant relates the pong clock to the time really watched
  since the last pong: credit for an unwatched gap moves the clock by no more than that gap.
  Of `ScreenViewing`: `TypeCorrect`, with the clocks of the link, and
  `SilentSessionsAreRedialled`.  The invariant has one
  part for each of the actors: `LinkInv` (over is over, and a link that is ready was let in),
  `SessionInv` (a session was started by a link that was ready, so a later dial is one that
  is resumed), `QuitInv` (why the window is to close).  The second is what makes a redial
  forgotten by `BecomeReady` harmless: the link was resumed, and the viewer is told so.
* **`TerminalShells_proofs`** — `TypeCorrect`, `GoneIsNeverForgotten`, `TakenOverForGood`,
  `WindowsAgree`.  For the host alone it is enough that shells have ids below `nextId` and
  that messages wait only on connections the host has, so no shell can be resumed for one it
  lost.  `WindowsAgree` needs both ends and the mail between them, in `WindowsInv`:
  `NetworkOK` (nothing is there of a connection not yet dialled, a lost one is not up, a
  shell whose `Exit` was sent is no client's again) and four parts for each window.
  `FirstOK` is the life of a first connection: nothing asked, then one `Open` at the end of the line to
  the host, then its answer at the head of the line back, then a shell that is shown or
  none.  `PicksOK` says what a window that has picked once at most can have sent,
  `BetweenLinks` that once a lost link was served nothing granted on it is still to come,
  and `HeldOK` that a shell shown, or granted in a message on its way, is the host's for this
  connection or has its `Exit` behind it.  A step of one window leaves the parts of the
  others alone (`Frame`) and sends at most messages of the types its moment allows
  (`OwnStep`).  A step of the host only adds to the lines back (`HostStep`); for each window
  it either gives no shell and tells of those it takes (`Loses`), or answers its `Open`.
* **`AccessStores_proofs`** — `OneRowOfEach`, `ApprovalsAreCurrent`, `SettledStaysSettled`,
  `TokensLetInOnce`, `ListsStayBounded`.  The invariant `Held` says that only who works on the requests has the
  lock and only who has the lock has a copy, which is part of the file; with it a save
  is a change of what is on file.  `AddedDistinct` is the lemma about `AccessRequests::Add`.
  For tokens, `TokenInv`: a token that let a key in, or is about to, is out of force, and
  a token out of force is never issued again.  A device whose token could not be removed is
  not counted, so `TokensLetInOnce` is as much as the code gives: one device for which the
  token was used up.
* **`VideoStream_proofs`** — `TypeCorrect`, `DecodedInOrder`, `DamageIsRepaired`,
  `SurfacesAreLetGo`.  `OrderInv` puts the frames in the order decoder, hands of the decode
  thread, queue, barrier, assembly; `DecodeInv` ties the decoder, the surface and the place
  of the decode thread together; `RepairInv` follows a frame the viewer missed until a
  keyframe after it is in the queue, through each place it can be lost again.  One lemma for
  each action keeps them.

* **`TerminalOutput_proofs`** — `TypeCorrect`, `NothingMissed`, `SizesAgreed`.
  `NothingIsMissed` speaks of the output piece by piece: each piece on its way finds the
  screen that the piece before it leaves (`Continues`), and the last leaves the one the shell
  has now (`EndsAs`).  That is first-order, so it needs no induction over what is on its way,
  and the first lemmas say how it fares when a piece is taken from the front, when the rest
  is lost, and when pieces are added (`TailGoesOn`, `PrefixGoesOn`, `PiecesGoOn`).  The
  invariant `OutputOnItsWay` says it of a window that shows its shell, and of one that is
  about to: its answer is on the line, and then it must hold of any screen the window may
  have kept from before.  That works since nothing is printed to a window before it is let
  in (`AdmissionOK`) and the first pieces after that are those of a repaint; it is also why
  what waited for the old connection must go with it, or a piece of it would find the wrong
  screen.  `LinkOK` and `NetworkOK` are what makes one connection follow the other, and
  `SizeOK` follows the size of the window from the request that carries it, through the
  answer, to the shell.  For a turn of the pump thread, which flushes, repaints, reads and
  flushes again, `InOrder` is kept by each of its four parts.

With these, every invariant and every action property of the runs that pass is proved, and
the refinement; `HeldByTheDriver` where no client changes its address, as in its run.
Only model-checked: liveness, which the prover cannot do
(`VanishedLoseTheirSeats`, `UploadSettles`, `EachIsSettled`, `ForgottenLeavesNothing`,
`CatchesUp`, `SurfaceCallReturns`, `LinkComesToAnAnswer`, `WindowEnds`), and the two
properties that are refuted.

## 5. Plan

The project is kept to a dozen runs and some forty properties, so that all of it is
checked in minutes: what a run can ask of one instance is asked there, and a new module's
properties replace shallower ones.

1. Done: the eleven modules above, in the order of the table.
2. `TransportLanes`: which of three inbound lanes is served, and when the file stream is
   paused; no lane starves.
3. `Reassembler`, `RetransmitCache` and `AudioJitter` with sequence numbers of their width;
   `QualityLadder`.
4. `HostEngine` life: pipelines, threads and stop; `HostLocks`: the order of the hosts'
   locks and the transport's.  `ClipboardSync`, `UnattendedControl`.
5. Proofs: none is left of what is modelled so far but the liveness; each new module is to
   come with the theorems of its own.

## 6. Known limits of the code

What the code was seen to do while it was modelled, beside the two findings, and which the
properties therefore leave out:

* A source stopped alone keeps its viewers' seats in the host's budget until the host stops
  (`platform/src/host/HostEngine.cpp:134`); `SeatsAccounted` counts them as taken.
* With a link lost twice in a row, a request left in a terminal window's outbox wins the
  shell for a window that no longer waits for the answer, and then refuses it as its own
  (`core/src/session/client/TerminalClient.cpp:89`, `platform/src/client/TerminalViewer.cpp:320`).
  A window may so not be let back into its own shell on that connection; or it is let in by
  the older of two requests, and, when it was resized between them, takes the size it sent
  with the newer for told: the shell keeps the old one (`TerminalClient.cpp:106-110`), while
  `docs/ARCHITECTURE.md:402-404` has a resize made while the request was under way follow
  the answer.
* A `TERM_OPEN_ACK` names no request.  A window that asked for a shell on one connection and
  for another on a later one may take the answer to the first for that to the second, and
  show a shell that it closed or that another connection holds
  (`core/src/session/client/TerminalClient.cpp:86-113`).
* A frame of which no datagram arrived raises no loss event: the frames behind it go to the
  decoder and no keyframe is asked for (`core/src/transport/Reassembler.cpp:114`;
  `docs/ARCHITECTURE.md:938-945` leaves the picture to the decoder to conceal).
* When a frame's slot is taken from the oldest frame and the new frame is older than it,
  handing that on moves the barrier back (`Reassembler.cpp:13-16`, `128`).
* A client that lost its connection and is then to be approved by the owner dials an
  unreachable host for ever: neither the grace nor the 120 s of the wait is looked at
  (`platform/src/client/HostLink.cpp:233-257`; `docs/ARCHITECTURE.md:236-241`).  A client that
  does not recover, on the other hand, ends its wait with the first failed dial.
* A HELLO unanswered for 10 s ends the window, also within the 60 s of grace
  (`core/src/session/client/ScreenClientSession.cpp:124`).
* A window may flip back from reattaching to streaming until its session times out
  (`deskhubp/client/ScreenViewer.h:420`).
* A BYE that came behind another message as the connection closed is not read; the window
  redials a host that said goodbye (`HostLink.cpp:403`).
* A shell that ends while its window is behind takes with it the rest of its output, the
  repaint it owed and, if the outbox is full, its TERM_EXIT
  (`platform/src/host/TerminalHost.cpp:333-360`; `docs/ARCHITECTURE.md:1173-1177` has a burst
  leave the right screen behind).
* A `FileCancel` refused by a full outbox is not sent again
  (`core/src/session/client/FileSender.cpp:168`).
* A pairing token that was the last one in force stays in force when its file cannot be
  removed: `RemoveAppDataFile` ignores the error and `SaveLocked` reports success
  (`platform/src/system/PairingTokenFile.cpp:29-33`, `AppDataFile.h:144`), so the device is
  let in and another may be by the same token until it runs out, while
  `docs/SPECIFICATION.md:164` has a token work once
  (`platform/tests/system/PairingTokenFileTests.cpp:27` tests it with a file that can be
  removed).  With `letIn` counting every device TLC finds the second one in ten states.
  Tokens revoked stay in force in the same case, though `RevokePairingTokens` returns true.
* A full list of requests drops its oldest row for a new one, a denial among them
  (`core/src/net/AccessRequests.cpp:69`); `DenialHolds` excuses that.
* Where the host's end of a file stream breaks, the host drops the batch and cannot say so:
  an upload that was sending stays in that state until its link ends or the user stops it
  (`platform/src/net/QuicEndpoint.cpp:416`, `platform/src/host/HostEngine.cpp:261`;
  `docs/ARCHITECTURE.md:1511` has transfers told of the end of their connection).  Where
  the client's end breaks, it is the host that goes on receiving until the link ends.

## 7. What is not modelled

The components listed with `not_modelled` in `PROJECT.json`.  The user interfaces, capture
and codecs call the operating system and have nothing to check here; the wire formats,
command lines, QR codes and the terminal emulator are functions of their input with
unit tests of their own; the QUIC library is used through what its callers rely on,
stated in the modules: reliable streams in order, bounded outboxes, a closing reported
after what came before it.
