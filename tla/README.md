# DROP in TLA+

A verification project for DROP (this repository's file transfer: the relay in
`internal/relay` and `cmd/relay`, the transfer library in `internal/transfer`
and `internal/p2p`, the command line in `cmd/drop`). It holds TLA+ modules of
the parts whose correctness depends on the order of steps, the TLC
configurations that check them, and proofs for TLAPS.

## The system

**Components, their state and their operations**

| component | state | operations |
|---|---|---|
| relay rooms (`rooms.go`, `handleWebSocket`) | token → Room map under `rm.mu`; per room a client list and last activity under `room.mu`; one goroutine per connection | join, refuse, broadcast, leave, kick the peer, delete the room, idle cleanup, shutdown |
| mailbox store (`store.go`, upload and raw handlers) | token → blob index under `fs.mu`, a temporary directory | store, get, expire, shut down |
| mailbox client (`client.go`, `sendMailbox*`, `cmdDownload`) | one request, the files it has written | upload; probe, fetch, decrypt, save |
| streaming transfer (`sender.go`, `receiver.go`) | sender: file, offset, pending resume; receiver: partial file, finished paths of the batch, resume request; the destination directory | metadata, chunk, complete, session end; new file or resume, append, rename, report |
| transport negotiation (`signaling.go`, `negotiateOrReuse`, `openReceiveSession`) | two peers, two timers, a candidate goroutine on each side, a reader goroutine on the receiver | offer, answer, candidates, P2PReady, P2PFail, fall back to the WebSocket |
| WebRTC peer (`peer.go`) | open and closed channels, an incoming queue | open, deliver, send with back-pressure, drain, close |
| version handshake (`Connect`, `WaitForPeer`, `reHandshake`) | – | Version/Ready, PeerJoin with a version byte, restart of a sender |
| `drop send`, `download`, `receive`, `discover`, `update` | the process | choose a mode, run a session, stay open for batches |
| browser pages | one state machine per page | the browser's half of the same protocol |
| codecs, crypto, passphrases, archives, limiter | none, or one counter | pure functions; a rate limit |

**How they interact.** Two clients of one passphrase connect to
`/ws/{token}`; the relay puts both in one room and broadcasts each one's
frames to the other. Over it they exchange a handshake and the WebRTC
signals. If the data channel opens on both sides the files go over it,
otherwise the same connection carries them. A mailbox transfer is two
independent HTTP clients and the store. `drop download` asks the mailbox first
and joins the room when it gets 404.

**What is hard.** Handlers that take two locks one after the other, or look
under one and act under the other; writes with a lock held; goroutines nobody
waits for; two timers of equal length started at different times; messages of
an old session behind a restart; connections that break between two files;
partial files of earlier sessions; check-then-act on the index; exit during an
upload. `PROJECT.json` lists each at its line.

## The modules

| module | models | proved in |
|---|---|---|
| `Handshake` | two programs of one passphrase from their start to the first message of a session, with the relay's room and its clock between them | `HandshakeProofs` |
| `Negotiation` | the agreement on a transport | `NegotiationProofs` |
| `Peer` | the open data channel: back-pressure, delivery, draining, closing | `PeerProofs` |
| `Delivery` | what a receiver promises about its directory (abstract) | `TransferProofs` |
| `Transfer` | the streaming part of a session, and several sessions over one directory; implements `Delivery` | `TransferProofs` |
| `RelayRooms` | rooms, handlers, cleanup loop | `RelayRoomsProofs` |
| `Payload` | what a mailbox blob contains: packing and unpacking, as operators | `PayloadProofs` |
| `Mailbox` | store, handlers, cleanup loop, exit, clients; uses `Payload` | `MailboxProofs` |
| `SelfUpdate` | `drop update` | `SelfUpdateProofs` |
| `MC…` | the instances TLC checks | |

The modules cut a session in four along the code's own seams. `Handshake` ends
where `Negotiation` begins, at the sender's offer. `Negotiation` ends with a
transport: the data channel, which `Peer` has in detail, or the WebSocket.
`Transfer` begins there, and its connection is either of the two. The WebSocket
is an ordered sequence of messages of which a suffix can be lost, as
`RelayRooms`' `NoGaps` says. The data channel is that only while the receiver's
`Peer` is open: once it closes, `Peer`'s `InOrder` promises the order and no
more, and in `Transfer` single messages can be dropped from then on while later
ones arrive. `Handshake` has a room of its own, coarser than that of
`RelayRooms`, because what decides there is which programs are started and what
time passes, and not how two handlers interleave.

### Transfer and Delivery

A file is a name and a sequence of chunk contents of which only the last may be
short; a path is a base name, a copy number and the count of `.part` suffixes,
which is all that `uniquePath` and `FindResumeCandidate` look at. The connection
is the list `wire` of what the sender wrote and the number `arrives` of those
that can still reach the receiver: breaking it cuts that number down to any
value not below what has been read. `chan` says which of the two connections it
is, and whether the receiver's `Peer` is still open. `PeerCloses` is
`OnConnectionStateChange`, after a failure or the sender's own `Close`:
`p.closed` is closed at once, `p.incoming` only behind the last message, and
`peerReader` reads on. In between `deliver` may choose to give a message up
(`Dropped`), and `gaps` remembers which. What then comes out of turn is what the
code makes of it: a chunk after a missing one is appended, a Metadata in the
middle of a file begins the next one, a Complete renames whatever is there, and
the rest is an error (`ReadMisplaced`). So a file with a hole in it can be
finished and reported, and a file can be missing from a batch reported at its
SessionEnd; nothing in the code compares sizes. The properties say how far that
goes: only the files of which a message was dropped are exempt (`Cut`), not the
session.

A partial file with a hole may have a short chunk in the middle; cut to whole
chunks, what follows is off the boundaries, and `Blend` stands for such a chunk.
A message carries the index of the chunk its bytes were read from, so a wrong
offset shows as wrong content.

The sender is `SendBatch` and `streamFile`: `SendOpen` (the transport is agreed
on), `SendMetadata` (resume or not), `SendChunk`, `SendComplete`,
`SendSessionEnd`, then `NextBatch` or `Finish`. The receiver's `rpc` is the
place in `openReceiveSession` ("first"), `recvFile` ("recv" before the
metadata, "body" after), `receiveBatch` after a file ("peek") and
`ReceiveBatches` between batches ("idle"). `stay` tells `ReceiveBatches` from
`ReceiveFiles`; a new session chooses. `Reload` is a sender that starts again on
the connection (Version, wait for Ready, its batch from the start), as
`p2p_fallback_test.go` does. Over the relay of this repository a restarted
sender comes on a new connection and its receiver is kicked by `RemoveClient`,
so there the case is a connection kept open by something between the two;
`recvFile` and `receiveBatch` have code for it and the model has that code.

A batch has at least one file (`SendBatch` refuses an empty one), so `receiveBatch`
and `recvFile` meet a SessionEnd before a file only when messages before it were
dropped; that case is in `ReadMisplaced`.

The prefix hash stands for the prefix itself (equal hashes, equal prefixes),
the file being sent does not change during a session, and the failure of a
local write at the receiver is one of the ways in which it may end
(`ReceiverDies`). One session runs at a time on a directory.

`Delivery` keeps only the finished files, those offered, those delivered, those
reported and those the connection has damaged. The mapping drops partial
files, messages and positions; a `ReadComplete` is a `Deliver`, a `Dropped` a
`Damage`, a batch end a `Report`, and a restart that `ReceiveFiles` survives is
a `Forget` (it does not report the finished files of the interrupted batch).

### Negotiation

`pc` is where each side's main goroutine is; the candidate goroutines are
`trickle`, the receiver's reader goroutines `reader`, `out` and `stopped`, one
per offer it has answered. All three arms of each `select` are separate
actions. pion is external: a channel may open on each side once the answer is
applied, a peer may fail at any time. The stream is one file's Metadata,
Complete and SessionEnd, because `recvFile` and `receiveBatch` treat a stray
signal differently: the first ignores it, the second gives up.

A receiver may still answer an offer from before a reload. The sender applies
that answer as any other, but no channel opens with it, since it has the
credentials of a peer that is gone ("OldAnswer"; `OfferIsCurrent` tells the two
apart). Once the sender is reloaded twice, the goroutine that the first Version
has stopped may be the one to read the second and drop it, because it looks at
`stopCh` only after its read; `NoLeftovers` excepts that (`VersionTaken`).

On failure nobody waits for the candidate goroutine. It may write a candidate
between any two messages of the stream, or write while the main goroutine writes
P2PFail, a message of the stream, or the receiver's answer to a Version or an
Offer. gorilla allows one writer: either it notices, and the program panics
(`ConcurrentWrite`), or the message on the wire is not one that decrypts ("Torn",
`Sent`). `FallbackArrives` names what then keeps the stream from arriving: the
connection that ends with the program, a torn message, and a candidate between the
last Complete and the SessionEnd, which `receiveBatch` takes for an error.

Not in it: candidates change nothing at the other side (losing them is one of
the reasons why a channel never opens); the receiver never writes P2PFail, so
the sender's branch for it is dead; the receiver ends at SessionEnd, as
`ReceiveFiles` does; a `Ready` whose write fails is a `Ready` followed by the
loss of the connection.

### Handshake

`mode` says how the two meet: "live" (`drop send`, or live-send.html, with `drop
download`, `drop discover` or download.html: `WaitForPeer`, `ConnectLive`) or
"announced" (`drop receive` with sender.html or `Sender.Connect`: Version, Ready).
`kind` tells Go programs from pages, which differ in the versions they send,
in what they check and in what they do when their connection goes. A program may be started
again on the same passphrase; each start is a connection of its own, and its
frames carry its number. `waited` and `quiet` count minutes; what takes seconds
is over before `Minute` can happen (`Brief`). `RemoveClient`, `Cleanup` and
`RelayRestarts` empty the room; a program notices behind what it had been sent
before. A frame that outlives its client's place in the room is marked "late": nothing
in the relay holds it back from whoever is in the room by then.

Reading the four pages beside the Go programs showed, and the module has, that
sender.html announces version 3, which `drop receive` always refuses; that
download.html sends a PeerJoin without a version byte, so that `drop send`
refuses every browser receiver; that live-send.html checks nothing; that the 30 minutes
of `WaitForPeer` never come, because the relay closes a room after ten quiet
ones; and that download.html does not look at its connection while it waits
for an offer (`Heeds`).

### Peer

A message is in one of five places, from the buffer of the sender's channel to
what the receiver's program has read; `hand` is the message that `deliver` holds
between its look at `incClosed` and its `select`, where it no longer has
`incomingMu`. `stage` is how far each `Close` has come: `p.closed` closed, then
the channel, the connection, `p.incoming`. pion is external: a read loop that
calls `OnMessage` one message at a time and `OnClose` after the last, and a
state change to Failed some time after the other side is gone. `deliver` may
give a message up once `p.closed` is closed, and put a later one in the channel,
so after the receiver's own `Close` only the order is left of what `InOrder`
says; and it may find the channel closed and panic, at the end of a `Close`. Who
began that `Close` is in `rPc` and in what the connection has been through: a
program that has stopped reading of its own ("leaving", "left"; "ended" and
"done" are those that came to the end of the channel), or Failed. The latter
also comes after the sender's own `Close`, with nothing broken: `WaitDrain` is
over when the bytes have left the sender, and what `deliver` then still holds
may be given up. `DrainedArrives` excepts exactly that (`CutOff`) and a receiver
that stops by itself (`LeftItself`). `IsOpen` never turns false again: a next
batch begins on a channel that may be gone, and `Send` has to come back with an
error.

### RelayRooms

`mu` and `rmMu` are explicit where another goroutine can step in. A critical
section without such a step is one action. `Broadcast` is three actions, with
`room.mu` held: the list is read, each write is a step, and a write may
succeed, vanish with a client that has left, or fail and close the connection.
`handleWebSocket` is the sequence adding, reading, checking, deleting,
removing, kicking, done; the order in which the room is looked at
(`CheckEmpty`), deleted (`DeleteRoom`) and left (`RemoveClient`, deferred) is
the code's. A frame that is already buffered may be read after the connection
was closed. `GrowIdle` is the passage of ten quiet minutes; it does not happen
while a handler is between two steps, which take seconds.
`RoomManager.Shutdown` is not modelled: it runs while the process ends.

### Mailbox

An upload and a download are processes; the phases of `FileStore.Store` are what
happens between two releases of `fs.mu`. A blob is named by its upload, as
`os.CreateTemp` does. Blobs become old in the order in which they were indexed.
A form of more than 32 MB is in a file of its own, outside the store's
directory, until net/http is through with the request (`Spill`, `Finish`; `Big`
says which selections make one). The relay goes from running to draining (the
signal has stopped the cleanup loop, no new request), to removing, to removed,
to exited; handlers that outlive the 30 seconds run on through all of them.
`FileStore.Shutdown` holds `fs.mu` from `RemoveFiles` to `RemoveDir`, so nobody
looks at the index or changes it there, but `os.CreateTemp` takes no lock: a
file it makes between the two keeps the directory from going (`there`), and
stays. `atRemoval` remembers how far each upload was when the files were
removed. `ExitClean` says what may be left by that: the blob of an upload that
had made no file yet, and the form of a request that was not over. Two uploads
have the same token when a passphrase is used twice (`--resume-passphrase`, a
retry); a token the relay itself generates is one no other upload has.

A blob's contents are `Payload`'s: the fields of the two formats in their order,
with every check of `EncodeAMB2`, `decodeAMB2` and `decodeLegacyV1`. Names and
contents are sequences of bytes; the fields of four and eight bytes are one
element each, which is enough for what could be wrong: counts, limits, the ends of
entries, and taking one format for the other. A download decodes what the upload
encoded and writes the entries one by one, each under a name that is free;
a name that `SafeFilename` refuses stops it after the earlier ones.

### SelfUpdate

A name stands for a file and a process that runs or writes a file keeps it when
the name goes. The steps are those of `cmdUpdate`, with `os.WriteFile` in two
halves and `copyFile` in three, and every one may fail or be the last. What
Windows refuses (removing or replacing a running binary, touching an open file)
is external. Elsewhere the binary is removed before the new one is in its
place: if the copy across file systems then fails, the temporary file is removed
as well and nothing is left. `GapIsBridged` excepts a machine on which an update
has failed, and nothing else: at any other moment an update may be killed.

## The runs

| run | instance | shows |
|---|---|---|
| `transfer` | two starts of sessions or senders, or one and two dropped messages, one base name, two full chunks and a short one, two batches, five directories, both versions; 1.2 million states | files reported stay, whole unless a message of that very file was dropped (`SavedIntact`), partial files are prefixes (`PartIsPrefix`), nothing of a restarted batch is taken over (`NothingLeftBehind`), the user's files stay (`KeepsFiles`), batches are reported whole but for such files (`BatchWhole`), `Delivery` is implemented, the receiver ends |
| `rooms` | three clients of one token, one of which sends three frames; 880 thousand states | well-formed rooms, one writer per connection, no gaps, everything settles |
| `negotiation` | a candidate, or a restart of the sender, a reader channel of 2; 560 thousand states | no split (`NoSplit`), nothing of an old session counts (`NoLeftovers`), one reader of the connection until a sender restarts (`OneReader`), negotiating ends, a stream over the fallback arrives but for the exceptions it names |
| `mailbox` | two uploads, two tokens, one download, four selections of files, one of them a large form; 2.2 million states | whole blobs (`ServedWhole`), what is saved is what was selected (`SavedIsSent`), tokens stay served, an exit leaves only what `ExitClean` names, blobs go |
| `peer` | two batches of two messages, buffers of one message each; 240 thousand states | order and, until the receiver's peer closes, completeness of what is read, panics only at the end of a `Close`, `Send` comes back, the receiver ends, what was drained arrives unless the receiver stops or Failed comes first |
| `handshake` | two starts of the sender, three of the receiver, programs and pages, both ways to meet; 210 thousand states | a resume request is the peer's (`ResumeIsPeers`), version checks fail closed, the relay ends the wait before `WaitForPeer` does, nobody waits for ever |
| `self_update` | two processes, three updates, Windows and others; 230 thousand states | on Windows a whole binary is always left (`OneIsKept`), elsewhere the temporary file bridges the gap (`GapIsBridged`), a reported success is the new binary |

and, each with one property that a comment, a test or the README states and the
code does not keep:

| run | statement | what happens |
|---|---|---|
| `transfer_part_names` | a `*.part` is left over from an interrupted receive | a user's file named `a.part` is received, counted, and removed when `a` is received |
| `rooms_same_token` | a room pairs two clients | four clients, and no quiet minutes for the cleanup loop: a leaving handler deletes, by token, a room somebody was just given, and two clients of one token wait in two rooms |
| `mailbox_acked` | the relay holds the file for ten minutes | two uploads of one token are both acknowledged; the first one's blob is replaced |
| `peer_drain` | `WaitDrain` before `Close`, so that Complete is not dropped | its ten seconds end, nobody looks at how, and `Close` drops the last messages of a batch reported as sent |
| `handshake_versions` | mixed versions fail closed on the PeerJoin check | live-send.html takes any PeerJoin: a page of version 3 and a program of version 4 begin a session |

**Bounds.** Every bound is a constant. Transfer: `MaxStarts` = 2 is one
interrupted session and the one that resumes it, or one session whose sender
restarts; `MaxEvents` = 3 adds a second batch; the batches share a name, a first
chunk and a length in whole chunks, so that an honest resume, a resume of an
edited file and a stale partial file all occur; `MaxCopy` = 9 exceeds the number
of files a run can finish, so that `uniquePath` always finds a number;
`MaxDrops` = 2 is two messages of one file or one of each of two. The session
with the drops is the first one and the last; what a later one makes of a
partial file with a hole is covered by a directory that has one from the start,
and by the proofs. Rooms: three clients are a pair, its end and a newcomer
between two steps of a leaving handler; three frames leave room for one lost
between two delivered; `MaxRooms` = 3 is one room per client, so no client is
ever held back by it. A fourth client is what `rooms_same_token` needs: a pair
that has come and gone, and two who wait in two rooms. There no ten quiet
minutes pass (`Quiet`), since the cleanup loop can break the same property with
fewer clients, which would hide what the leaving handler does. Negotiation:
`Buffer` = 2 instead of 16 makes the reader goroutine block at all; one restart
gives two generations of reader goroutines; `MaxExtras` = 1 is a candidate or a
restart. The two together, which let the receiver's candidate goroutine write
while it answers a Version, are beyond TLC here and covered by the proofs of the
safety properties only. Mailbox: two uploads of one token, or of two, and a
download between them; one selection counts as large (`Big`), so that uploads
with and without a form on disk meet; a limit of two files and three bytes is
exceeded by one of the selections and met by the others. Peer: with `HighMark` =
0 and `Window` = `Capacity` = 1 every queue fills, and a message can be in each
of the five places at once; two batches, so that a batch begins on a dead
channel. Handshake: `IdleLimit` = 1 minute and `PeerWait` = 5 keep the order of
ten and thirty (the wait is longer than two idle limits, each with the minute of
the ticker); three receivers are one that vanishes, one that comes after it, and
one that is refused. SelfUpdate: three updates are two at one time and one after
another.

**Fairness.** `Transfer`: the loops of the two programs run while they can;
users, deadlines, crashes and the network owe nothing (`ReceiverEnds` holds
without the read deadline). `Negotiation`: goroutines run while they can and
timers fire. `RelayRooms`: handlers are strongly fair, since a Go mutex does
not starve a waiter (after a millisecond of waiting it is handed over), and
the cleanup ticker fires; clients owe nothing. `Mailbox`: time passes, the
cleanup ticker fires, a shutdown that began goes on; clients owe nothing.
`Peer`: goroutines run, an unbroken link delivers, a side that lost the
other is told Failed; the read timeout and the user owe nothing. `Handshake`:
programs run, the relay passes frames on, time passes, the ticker fires; users
owe nothing, and nothing tells the relay that a client has vanished.

**Deadlock** is checked for the rooms, where the cleanup loop always has a next
step and two locks are taken in nested order. In the other modules a session, a
request, an update or the relay ends, and nothing need follow.

## Proofs

`RelayRoomsProofs` proves, for any set of connections and tokens and any bounds
(from `BoundAssumption`: the bounds are numbers), four theorems:

- `TypeCorrect`: `Spec => []TypeOK`. The invariant needs `InRoom` beside it: a
  handler past `GetOrCreateRoom` is in a room that has been made.
- `RoomsStayWellFormed`: `Spec => []RoomsWellFormed`.
- `OneWriterPerConnection`: `Spec => []OneWriter`.
- `NoGapsEver`: `Spec => []NoGaps`.

Well-formedness and `OneWriter` share the inductive invariant `IInv`. `OneWriter`
alone is not inductive: nothing in it says why a broadcast that has started and a kick
that follows cannot meet. `LockInv` says that who broadcasts holds `room.mu`,
`TargetInv` that its targets are other clients which are still listed in the
room it holds (so nobody could have been dropped meanwhile), and `KickInv` that
whoever is to be kicked is in no list any more, is still in its reading loop or
on its way out, and is kicked by one handler only. From those, two writers of
one connection would be two holders of one lock, a listed and an unlisted
client, or two kickers.

`NoGaps` adds `GapInv` to it: a connection that is listed with a sender and still
open has everything from the sender's last frame it has, up to the one that is
being broadcast (`LastInv`). It is kept because a failed write closes the
connection, a closed one never opens again, and nobody is listed twice, so
someone who missed a frame never again is listed and open.

Each step lemma treats one action; actions that move a handler without touching
lists, targets or kicks share `MoveStep` and `QuietStep`.

`MailboxProofs` proves, for any sets of uploads, downloads and tokens and any
selections of files (from `BlobAssumption`: "no blob" is not an upload, and
`SelectionsAssumption`: a selection has at least one file, a single file has a
name, of at most `MaxFilenameLen` bytes because no file system allows a longer
one, and a directory holds finitely many files before), five theorems, the first
four from one inductive invariant:

- `TypeCorrect`: `Spec => []TypeOK`.
- `DownloadsAreWhole`: `Spec => []ServedWhole`. A handler's entry is an upload
  that was indexed (`RefInv`), the ones that were are past their copying
  (`IndexedInv`), and only a copy in progress leaves a part of a file
  (`DiskInv`): so what `os.Open` finds after the lock is released is whole, or
  gone.
- `AckedTokenServed`: `Spec => []TokenStaysServed`. By itself the property does
  not say why an upload that took the token over cannot expire first.
  `OrderInv` does: what the index holds for a token came no earlier than any
  upload of that token, and the index holds nothing for it only if all of them
  are past their expiry.
- `ExitLeavesOnlyLate`: `Spec => []ExitClean`. `RemovalInv` says, from the removal of the
  files on, that an upload that was over has nothing on disk and can have nothing,
  and that one which had its file by then has lost it and makes no other.
- `DownloadsSaveWhatWasSent`: `Spec => []SavedIsSent`. `PackInv` says that
  what is in a handler or in the index could be packed, so `RoundTrip` (below)
  makes what is unpacked the selection itself; `SaveAt` counts what a download has
  written of it. That no file is truncated is `FreeNumber`: the files of one name
  are finitely many, so one of the numbers that `mailboxUniqueSavePath` tries is
  free.

`PayloadProofs` proves `RoundTrip`, for any files: whatever `CanPack` lets through,
`Decode` gives back. `Written` and `DecodeAMB2` are recursive functions, and the
proof shows first that they are functions of the expected shape (`ChainExists`,
`ChainWritten`: the buffers after each entry form a chain), then that every entry
lies in the final buffer where the one before it ends (`Layout`), then that a round
of the decoder takes exactly one entry (`Taken`). The inductions are over sets of
numbers (`Inductive`, from the well-foundedness of `<` on the naturals), which
needs no operator as a parameter. A legacy payload is told from a bundle because its
first field, the length of a name, is below the magic (`LimitsAssumption`).

`PeerProofs` proves, for batches of any size and number and buffers of any
capacity (from `SizeAssumption`), three theorems:

- `TypeCorrect`: `Spec => []TypeOK`, which includes that no queue holds more than it
  can. `TypeInv` adds that the sender sends only inside a batch, which is what
  bounds the numbers.
- `NoPanicBeforeClose`: `Spec => []PanicsOnlyInClose`. `PanicInv` says why it takes
  a `Close` of the receiver's own peer: when the read loop has ended `deliver` holds
  nothing, and while it has not, only that `Close` closes `p.incoming`. `CauseInv`
  says who began it: whenever the receiver's `p.closed` is closed and the link is
  not broken and the sender's connection not closed, the program has stopped
  reading.
- `FlowInOrder`: `Spec => []InOrder`. The argument is one sequence, `Flow`, from the
  program that has read to the buffer of the one that sent: a step appends to its
  end, moves a message from one part to the next (which leaves the concatenation as
  it is), or cuts one out of the middle once the receiver is closing (which leaves
  the order).

`HandshakeProofs` proves, for any numbers of starts, any versions and any limits
(from `TimesAssumption`: `WaitForPeer`'s limit exceeds two idle limits with the
minute of the ticker, and from `ProgramsAssumption`: the ways to meet and the
programs are those of the code, and no protocol version is 0), four theorems:

- `TypeCorrect`: `Spec => []TypeOK`, with the two places of a room.
- `RelayEnds`: `Spec => []RelayEndsTheWait`. `WaitInv` relates the two clocks: a
  sender alone in its room has waited no longer than the room has been quiet,
  because whatever starts the room's clock anew is a client that joins, which
  fills the room, or a frame, which only such a client can have written. So one
  newcomer can add one idle limit, and no second newcomer can come.
- `ResumeRequestIsPeers`: `Spec => []ResumeIsPeers`. `ResumeInv` says that while
  the sender is in the room, all it knows or has still to read of receivers
  that were in the room comes from the one that is there; a room only fills
  up or empties as a whole.
- `VersionChecksFailClosed`: `Spec => []ChecksFailClosed`. `VersionInv` says that
  a frame tells the version of its sender as long as that has not been started
  again, wherever the frame is, and that whoever checks got to its session by one.

Steps are summed up first (`Steps`): a program ends, skips a frame, or
reads the frame that lets it begin, whichever action it was.

`TransferProofs` proves, for any names, contents, batches and directories and any
number of sessions, reloads and batches (from `DataAssumption` and
`BoundAssumption`), seven theorems:

- `TypeCorrect`: `Spec => []TypeOK`.
- `PartsArePrefixes`: `Spec => []PartIsPrefix`, `FilesAreKept`: `Spec => KeepsFiles`
  and `NothingIsLeftBehind`: `Spec => []NothingLeftBehind`.
- `SavedStaysIntact`: `Spec => []SavedIntact` (the files in `Cut` may hold other bytes, all
  others may not), and
  `TransferImplementsDelivery`: `Spec => ImplementsDelivery`, both if no file of a
  batch has a name that ends in `.part` (`PlainNames`). The run
  `transfer_part_names` shows that they need this.
- `BatchesAreWhole`: `Spec => BatchWhole`.

The inductive invariant `IInv` says, besides types, that the chunks on the wire
follow each other (`WireInv`), where the sender's own position in them is
(`SenderInv`), that only the first Metadata of a session can skip chunks
(`ResumeInv`), that the partial file it resumes is as it was until that Metadata
is read (`LeftoverInv`), that dropped messages are of the stream (`GapsInv`),
and that the open partial file holds the sender's file up to the last message
read, if none of this file's was dropped, with its final name still free
(`BodyInv`). For the refinement each action is mapped once (`AbstractStep`): the
start of a session is `NewSession`, a new batch or a reload an `Offer`,
`Dropped` a `Damage`, `ReadComplete` a `Deliver`, the end of a batch a `Report`
or a `Forget`, and the rest stutters.

For `BatchesAreWhole` the invariant `BInv` follows a batch from one side to the other.
On the wire (`WireBatches`) each Metadata follows the opening of a session, the end of
a batch or the Complete of the file before, and a SessionEnd counts the files from the
Metadata at which its batch begins. The sender, reloaded or not, begins a batch with
its first file and goes on file by file (`SenderBatches`), and the receiver's list
begins with the file at which the batch on the wire begins, with no file left out but for
those of which a message was dropped (`ReceiverBatches`): what a restart cut off is never
joined to what came after it.

`NegotiationProofs` proves, for any capacity of the reader's channel and any
number of candidates and reloads (from `BoundAssumption`), four theorems:

- `TypeCorrect`: `Spec => []TypeOK`. What bounds the number of reader goroutines is
  `Counted`: with those already started, the offers under way and the one the sender
  may still write come to at most one more than the reloads.
- `NeverApart`: `Spec => []NoSplit`. What the receiver has yet to hear lies on the
  WebSocket, with its reader goroutine, or in that one's channel; `Flow` says that
  in this sequence no announcement of a session (Version or Offer) comes before a
  P2PReady. When the answer was written none was under way, and the sender makes no
  other until it is reloaded (`AnswerMeans`); `OpenMeans` ties the open channel to
  the answer. So while a P2PReady is under way or acted on, the receiver does not
  return to its first message, hence writes no Ready, and a reloaded sender, which
  waits for one, does not get to the WebSocket (`ReadyMeans`).
- `ReadsAlone`: `Spec => []OneReader`. Without a reload there is no Version
  anywhere, and without a Version the receiver never comes back to a first message.
- `NothingLeft`: `Spec => []NoLeftovers`. All that is on its way to the receiver is
  one sequence, the pipe: what the reader goroutine has passed on, what it holds,
  and the WebSocket. `Sound` says of it that a message of the stream which the
  sender, in its present session, has not sent yet is followed by a Version, so the
  receiver cannot get ahead of the sender without a Version still to be read.
  `StopInv` says which readers are stopped: one that is may take a Version out of
  the pipe, which takes a second reload (`Known` leaves that case out, as
  `NoLeftovers` does).

`SelfUpdateProofs` proves, for any finite set of updates and any number of starts (from
`UpdatesAssumption`), four theorems from one inductive invariant:

- `TypeCorrect`: `Spec => []TypeOK`. `FreshFile` shows that the model has files enough
  for any number of updates: each names, runs and writes few of them.
- `WindowsKeepsOne`: `Spec => []OneIsKept`. `KeptInv` says that what a running update
  is run from is whole and is the binary or the one moved aside. Only one update at a
  time is between the two renames, because Windows does not let the second one replace
  an `.old` that is running.
- `KilledLeavesWhole`: `Spec => []GapIsBridged` and `SuccessInstalls`:
  `Spec => []SuccessIsNew`. `AloneInv` says, for updates that run one after the other,
  which name has a whole binary at which stage.

Only model-checked: all liveness (temporal reasoning under fairness is out of the
prover's reach). Every invariant and action property of a passing run is proved.

## Not modelled

LAN discovery, archives, progress and QR output, static pages and metrics:
sequential I/O or formatting. Encryption and passphrases: functions of library
primitives; a frame that decrypts is taken to be one the other side encrypted.
The rate limiter: token buckets of `golang.org/x/time/rate`, in a map that is
emptied as a whole every ten minutes; what it lets through is the library's
arithmetic on clock readings. Of the browser pages only the way to a session, and
what a browser sender writes, are modelled. `RoomManager.Shutdown` runs while
the process ends. A killed relay leaves its temporary directory behind; there
is no recovery to model. Hazards of these kinds, and those nothing in the code
promises anything about, are listed in `PROJECT.json` with a note.
