------------------------------ MODULE Transfer ------------------------------
(***************************************************************************)
(* The streaming part of a DROP transfer: Sender.SendBatch and streamFile   *)
(* on one side, Receiver.ReceiveFiles / ReceiveBatches / receiveBatch /     *)
(* recvFile on the other, the directory the receiver writes to, and the     *)
(* ordered connection between them, which may be closed, be lost, or see    *)
(* the sender's page reloaded.  Several sessions run one after the other    *)
(* over the same directory, so an interrupted session leaves a partial file *)
(* that a later one may resume.                                             *)
(*                                                                          *)
(* How the two sides agree on the connection (WebRTC or the relay) is the   *)
(* business of signaling.go; here it is the single message "Open".  The     *)
(* WebSocket loses what was sent last or nothing.  The data channel does    *)
(* not promise that much: once the receiver's Peer is closing, deliver may  *)
(* drop a message and pass a later one, which recvFile still reads.         *)
(***************************************************************************)
EXTENDS Integers, Sequences, FiniteSets

CONSTANTS
    Base,         \* file names without copy number and ".part" suffix
    Chunk,        \* contents of a full chunk (ChunkSize bytes)
    Tail_,        \* contents shorter than a chunk: last or torn chunks
    Blend,        \* a full chunk cut out of a short one and what follows it
    Batches,      \* the batches of files a user may ask to send
    Disks,        \* what may already lie in the destination directory
    Versions,     \* protocol versions a reloaded sender may announce
    ProtocolVersion,
    MaxStarts,    \* bound: sessions, plus reloads and drops of the last one
    MaxEvents,    \* bound: those, plus batches of the last session
    MaxDrops,     \* bound: messages deliver drops in a session
    MaxCopy       \* bound: copy numbers uniquePath may reach

(* "name(n).part.part": base, copy number n and how many ".part" end it.    *)
Path == [base : Base, n : Nat, part : Nat]

PartPath(p) == [p EXCEPT !.part = @ + 1]

(* What a directory may hold: the chunks in the order they were written.    *)
Bytes == Seq(Chunk \cup Tail_)

(* A file that is sent is full chunks, then at most one short one.          *)
Content == {c \in Seq(Chunk \cup Tail_) : \A i \in 1 .. Len(c) - 1 : c[i] \in Chunk}

File == [name : Path, data : Content]

IsDisk(d) ==
    /\ d = [p \in DOMAIN d |-> d[p]]
    /\ \A p \in DOMAIN d : p \in Path /\ d[p] \in Bytes

ASSUME DataAssumption ==
    /\ Chunk \cap Tail_ = {} /\ Blend \in Chunk
    /\ \A b \in Batches :
          /\ b \in Seq(File) /\ b # << >>
          /\ \A i \in 1 .. Len(b) : b[i].name.n = 0
    /\ \A d \in Disks : IsDisk(d)

ASSUME BoundAssumption ==
    /\ MaxStarts \in Nat /\ MaxEvents \in Nat /\ MaxDrops \in Nat
    /\ MaxCopy \in Nat /\ ProtocolVersion \in Nat
    /\ Versions \subseteq Nat

NoResume == [name |-> "none"]
NoFile == [dest |-> "none"]

VARIABLES
    fs,            \* the destination directory: paths to contents
    session,       \* how many sessions have been started
    offered,       \* the files this session's SendBatch calls were given
    batchSize,     \* how many of them the current batch has
    batches,       \* SendBatch calls of this session
    spc,           \* where the sender is
    sIdx,          \* the file of "offered" being streamed
    sPos,          \* how many of its chunks are sent (or skipped)
    pendingResume, \* Sender.pendingResume
    reloads,       \* reloads of the sender in this session
    wire,          \* every message the sender wrote in this session
    arrives,       \* how many of them can still reach the receiver
    link,          \* "up", "closed" by the sender, or "lost"
    chan,          \* "socket", or a data channel whose receiving Peer is "open" or "closed"
    gaps,          \* the messages (by place) that a closed Peer has dropped
    ready,         \* a Ready is waiting for the sender
    rpc,           \* where the receiver is
    rd,            \* how many messages it has read
    stay,          \* ReceiveBatches (TRUE) or ReceiveFiles (FALSE)
    batchIdx,      \* batches it has reported
    resumeReq,     \* Receiver.resumeReq
    cur,           \* recvFile's destPath and the file it receives
    paths,         \* receiveBatch's paths: the batch's finished files
    claimed        \* the finished files it has reported to the user

senderVars == <<offered, batchSize, batches, spc, sIdx, sPos, pendingResume, reloads, chan>>
linkVars   == <<wire, arrives, link, gaps>>
recvVars   == <<fs, rpc, rd, stay, batchIdx, resumeReq, cur, paths, claimed>>
vars == <<session, senderVars, linkVars, ready, recvVars>>

(* A message names the file and chunk its payload was read from: "k" is the *)
(* resume offset of a Metadata, the chunk of a Chunk, the length of the     *)
(* batch of a SessionEnd and the version of a Version.                      *)
Message == [type : {"Open", "Metadata", "Chunk", "Complete", "SessionEnd", "Version"},
            of : Nat, k : Nat]

Msg(t, f, n) == [type |-> t, of |-> f, k |-> n]

SenderDone   == spc \in {"off", "done", "failed"}
ReceiverDone == rpc \in {"off", "ok", "err"}

Data(f) == offered[f].data

Put(p, c) == [q \in DOMAIN fs \cup {p} |-> IF q = p THEN c ELSE fs[q]]
Without(p) == [q \in DOMAIN fs \ {p} |-> fs[q]]

(***************************************************************************)
(* FindResumeCandidate: the single "*.part" of the directory, cut down to   *)
(* whole chunks (short ones come to less than one together).  The hash of   *)
(* the prefix stands for the prefix itself.                                 *)
(***************************************************************************)
WholeChunksTorn(c) == c  \* mutant: the torn tail is kept

(* A short chunk in the middle moves what follows it off the boundaries.    *)
WholeChunks(c) ==
    LET short == {i \in 1 .. Len(c) : c[i] \in Tail_}
    IN  [i \in 1 .. Len(c) - Cardinality(short) |->
            IF short \cap 1 .. i = {} THEN c[i] ELSE Blend]

Leftovers == {p \in DOMAIN fs : p.part > 0}

ResumeCandidates ==
    {p \in Leftovers : Leftovers = {p} /\ Len(WholeChunks(fs[p])) > 0}

TruncatedNot(p) == fs  \* mutant: os.Truncate forgotten

Truncated(p) == Put(p, WholeChunks(fs[p]))

ResumeRequest(p) ==
    [name |-> [p EXCEPT !.part = @ - 1], prefix |-> WholeChunks(fs[p])]

(***************************************************************************)
(* A session starts: the receiver runs `drop download`, with --resume or    *)
(* not, and announces itself; the sender has its batch and the resume       *)
(* request.  openReceiveSession also takes a sender that streams at once,   *)
(* without negotiating.                                                     *)
(***************************************************************************)
Init ==
    /\ fs \in Disks
    /\ session = 0 /\ offered = << >> /\ batchSize = 0 /\ batches = 0
    /\ spc = "off" /\ sIdx = 0 /\ sPos = 0 /\ pendingResume = NoResume
    /\ reloads = 0 /\ wire = << >> /\ arrives = 0 /\ link = "lost"
    /\ chan = "socket" /\ gaps = {}
    /\ ready = FALSE
    /\ rpc = "off" /\ rd = 0 /\ stay = FALSE /\ batchIdx = 0
    /\ resumeReq = NoResume /\ cur = NoFile /\ paths = << >> /\ claimed = {}

StartSession ==
    /\ SenderDone /\ ReceiverDone /\ session + reloads + Cardinality(gaps) < MaxStarts
    /\ session' = session + 1
    /\ \E b \in Batches, negotiates \in BOOLEAN :
          /\ offered' = b /\ batchSize' = Len(b)
          /\ spc' = IF negotiates THEN "open" ELSE "meta"
    /\ \/ resumeReq' = NoResume /\ UNCHANGED fs
       \/ \E p \in ResumeCandidates :
             /\ resumeReq' = ResumeRequest(p)
             /\ fs' = Truncated(p)
    /\ pendingResume' = resumeReq'
    /\ stay' \in BOOLEAN
    /\ batches' = 1 /\ sIdx' = 1 /\ sPos' = 0 /\ reloads' = 0
    /\ wire' = << >> /\ arrives' = 0 /\ link' = "up" /\ ready' = FALSE
    /\ chan' = "socket" /\ gaps' = {}
    /\ rpc' = "first" /\ rd' = 0 /\ batchIdx' = 0 /\ cur' = NoFile
    /\ paths' = << >> /\ claimed' = {}

-----------------------------------------------------------------------------
(* The sender.  A write on a connection that is already lost succeeds (the  *)
(* bytes go nowhere) or fails (SenderFails).                                *)

Write(m) ==
    /\ wire' = Append(wire, m)
    /\ arrives' = IF link = "up" THEN Len(wire) + 1 ELSE arrives
    /\ UNCHANGED <<link, gaps>>

(* negotiateOrReuse has settled on one of the two transports.               *)
SendOpen ==
    /\ spc = "open"
    /\ Write(Msg("Open", 0, 0))
    /\ chan' \in {"socket", "open"}
    /\ chan' = "open" => session + reloads < MaxStarts
    /\ spc' = "meta"
    /\ UNCHANGED <<session, offered, batchSize, batches, sIdx, sPos, pendingResume,
                   reloads, ready, recvVars>>

(* streamFile up to its Metadata.  Only the first file of a session can     *)
(* find a pending resume, and only its own name, length and prefix make it  *)
(* skip chunks.                                                             *)
ResumeAcceptedUnseen(r, f) ==  \* mutant: the prefix hash is not compared
    r # NoResume /\ r.name = f.name /\ Len(r.prefix) <= Len(f.data)

ResumeAccepted(r, f) ==
    /\ r # NoResume
    /\ r.name = f.name
    /\ Len(r.prefix) <= Len(f.data)
    /\ SubSeq(f.data, 1, Len(r.prefix)) = r.prefix

SendMetadata ==
    /\ spc = "meta"
    /\ sPos' = IF ResumeAccepted(pendingResume, offered[sIdx])
               THEN Len(pendingResume.prefix) ELSE 0
    /\ Write(Msg("Metadata", sIdx, sPos'))
    /\ pendingResume' = NoResume
    /\ spc' = "chunks"
    /\ UNCHANGED <<session, offered, batchSize, batches, sIdx, reloads, chan, ready, recvVars>>

SendChunk ==
    /\ spc = "chunks" /\ sPos < Len(Data(sIdx))
    /\ sPos' = sPos + 1
    /\ Write(Msg("Chunk", sIdx, sPos'))
    /\ UNCHANGED <<session, offered, batchSize, batches, spc, sIdx, pendingResume,
                   reloads, chan, ready, recvVars>>

SendComplete ==
    /\ spc = "chunks" /\ sPos = Len(Data(sIdx))
    /\ Write(Msg("Complete", sIdx, sPos))
    /\ sIdx' = sIdx + 1
    /\ spc' = IF sIdx = Len(offered) THEN "end" ELSE "meta"
    /\ UNCHANGED <<session, offered, batchSize, batches, sPos, pendingResume,
                   reloads, chan, ready, recvVars>>

SendSessionEnd ==
    /\ spc = "end"
    /\ Write(Msg("SessionEnd", Len(offered), batchSize))
    /\ spc' = "between"
    /\ UNCHANGED <<session, offered, batchSize, batches, sIdx, sPos, pendingResume,
                   reloads, chan, ready, recvVars>>

(* The stay-open prompt: another batch on the same transport ...            *)
NextBatch ==
    /\ spc = "between" /\ session + reloads + batches < MaxEvents
    /\ \E b \in Batches : offered' = offered \o b /\ batchSize' = Len(b)
    /\ batches' = batches + 1
    /\ spc' = "meta"
    /\ UNCHANGED <<session, sIdx, sPos, pendingResume, reloads, chan, linkVars, ready,
                   recvVars>>

(* ... or CloseTransport and Close: what is written still drains.           *)
CloseLink ==
    /\ link' = IF link = "up" THEN "closed" ELSE link
    /\ UNCHANGED <<wire, arrives, gaps>>

Finish ==
    /\ spc = "between"
    /\ spc' = "done"
    /\ CloseLink
    /\ UNCHANGED <<session, offered, batchSize, batches, sIdx, sPos, pendingResume,
                   reloads, chan, ready, recvVars>>

(* A file that cannot be opened or read, a failed write, the wait for Ready *)
(* running out, Ctrl-C: the sender ends, and tells the receiver nothing.    *)
SenderFails ==
    /\ ~SenderDone
    /\ spc' = "failed"
    /\ CloseLink
    /\ UNCHANGED <<session, offered, batchSize, batches, sIdx, sPos, pendingResume,
                   reloads, chan, ready, recvVars>>

(* The sender's page is reloaded while the receiver stays connected: it     *)
(* announces its version and, once the receiver answers, sends its batch    *)
(* from the start.  peerReader never reads the WebSocket: a receiver that   *)
(* is on the data channel only sees its Peer fail.                          *)
Reload ==
    /\ ~SenderDone /\ link = "up"
    /\ session + reloads < MaxStarts /\ session + reloads + batches < MaxEvents
    /\ chan = "socket"
    /\ \E v \in Versions : Write(Msg("Version", 0, v))
    /\ \E b \in Batches : offered' = offered \o b /\ batchSize' = Len(b)
    /\ sIdx' = Len(offered) + 1 /\ sPos' = 0
    /\ pendingResume' = NoResume
    /\ reloads' = reloads + 1 /\ ready' = FALSE
    /\ spc' = "ready"
    /\ UNCHANGED <<session, batches, chan, recvVars>>

WaitForReceiver ==
    /\ spc = "ready" /\ ready
    /\ ready' = FALSE
    /\ spc' = "open"
    /\ UNCHANGED <<session, offered, batchSize, batches, sIdx, sPos, pendingResume,
                   reloads, chan, linkVars, recvVars>>

(* The connection breaks: a suffix of what is in flight never arrives.  (A  *)
(* data channel ends with PeerCloses, which can lose as much and more.)     *)
LinkLost ==
    /\ chan = "socket" /\ link \in {"up", "closed"} /\ ~ReceiverDone
    /\ link' = "lost"
    /\ arrives' \in rd .. arrives
    /\ UNCHANGED <<session, wire, gaps, senderVars, ready, recvVars>>

(* OnConnectionStateChange (Failed, or Closed after the sender's Close) has *)
(* the receiver's Peer closed: p.closed is at once, p.incoming is after the *)
(* last message that comes through.  (One that the sender writes meanwhile  *)
(* counts as written before: on the data channel it waits for no answer.)   *)
PeerCloses ==
    /\ chan = "open" /\ link \in {"up", "closed"} /\ ~ReceiverDone
    /\ chan' = "closed" /\ link' = "lost"
    /\ arrives' \in rd .. arrives
    /\ UNCHANGED <<session, offered, batchSize, batches, spc, sIdx, sPos, pendingResume,
                   reloads, wire, gaps, ready, recvVars>>

(* In the select of deliver p.closed is ready beside p.incoming: a message  *)
(* of the data channel that comes now may be dropped and a later one not.   *)
(* (Open and Version travel on the WebSocket.)                              *)
OnChannel == \A i \in rd + 1 .. Len(wire) : wire[i].type \notin {"Open", "Version"}

Dropped ==
    /\ chan = "closed" /\ ~ReceiverDone
    /\ rd < arrives /\ OnChannel /\ Cardinality(gaps) < MaxDrops
    /\ rd' = rd + 1
    /\ gaps' = gaps \cup {rd'}
    /\ UNCHANGED <<session, senderVars, wire, arrives, link, ready, fs, rpc, stay,
                   batchIdx, resumeReq, cur, paths, claimed>>

-----------------------------------------------------------------------------
(* The receiver.                                                            *)

Read(types) ==
    /\ rd < arrives
    /\ wire[rd + 1].type \in types
    /\ rd' = rd + 1

Next_ == wire[rd + 1]

(* The receiver's process ends and its connection with it.                  *)
Leave(outcome) ==
    /\ rpc' = outcome
    /\ link' = "lost" /\ arrives' = rd' /\ UNCHANGED <<wire, gaps>>

(* openReceiveSession: the transport is agreed on.                          *)
ReadOpen ==
    /\ rpc = "first" /\ Read({"Open"})
    /\ rpc' = IF batchIdx > 0 THEN "idle" ELSE "recv"
    /\ UNCHANGED <<session, senderVars, linkVars, ready, fs, stay, batchIdx, resumeReq,
                   cur, paths, claimed>>

UniquePathTaken(p, q) == q = p  \* mutant: an existing file is not avoided

(* uniquePath: the name itself or its first free copy.                      *)
UniquePath(p, q) ==
    /\ \E n \in 0 .. MaxCopy : q = [p EXCEPT !.n = n]
    /\ q \notin DOMAIN fs
    /\ \A n \in 0 .. MaxCopy : n < q.n => [p EXCEPT !.n = n] \in DOMAIN fs

Resuming(m) ==
    /\ m.k > 0
    /\ resumeReq # NoResume
    /\ resumeReq.name = offered[m.of].name
    /\ Len(resumeReq.prefix) = m.k

FreshPartAppended(p) ==  \* mutant: an old partial file is appended to
    IF p \in DOMAIN fs THEN fs ELSE Put(p, << >>)

(* os.Remove, os.Create: nothing of an old partial file survives.           *)
FreshPart(p) == Put(p, << >>)

(* recvFile on a Metadata, as first message, after a file or between        *)
(* batches: a fresh partial file, or the one the resume request described,  *)
(* reopened; it is an error if uniquePath has moved on and it is not there. *)
(* In the middle of a file (its Complete was dropped) it is taken as well:  *)
(* the partial file so far stays where it is.                               *)
ReadMetadata ==
    /\ rpc \in {"first", "recv", "body", "peek", "idle"} /\ Read({"Metadata"})
    /\ \E n \in 0 .. MaxCopy :
          LET p == [offered[Next_.of].name EXCEPT !.n = n]
          IN  /\ UniquePath(offered[Next_.of].name, p)
              /\ cur' = [dest |-> p, of |-> Next_.of]
              /\ \/ /\ Resuming(Next_) /\ PartPath(p) \in DOMAIN fs
                    /\ rpc' = "body"
                    /\ UNCHANGED <<fs, linkVars>>
                 \/ /\ Resuming(Next_) /\ PartPath(p) \notin DOMAIN fs
                    /\ Leave("err")
                    /\ UNCHANGED fs
                 \/ /\ ~Resuming(Next_)
                    /\ rpc' = "body"
                    /\ fs' = FreshPart(PartPath(p))
                    /\ UNCHANGED linkVars
    /\ UNCHANGED <<session, senderVars, ready, stay, batchIdx, resumeReq, paths, claimed>>

ReadChunk ==
    /\ rpc = "body" /\ Read({"Chunk"})
    /\ fs' = Put(PartPath(cur.dest), Append(fs[PartPath(cur.dest)], Data(Next_.of)[Next_.k]))
    /\ UNCHANGED <<session, senderVars, linkVars, ready, rpc, stay, batchIdx, resumeReq,
                   cur, paths, claimed>>

(* Complete: rename the partial file to its name, whatever its size.        *)
Renamed ==
    [q \in (DOMAIN fs \ {PartPath(cur.dest)}) \cup {cur.dest} |->
        IF q = cur.dest THEN fs[PartPath(cur.dest)] ELSE fs[q]]

Saved == [path |-> cur.dest, of |-> cur.of]

ReadComplete ==
    /\ rpc = "body" /\ Read({"Complete"})
    /\ fs' = Renamed
    /\ paths' = Append(paths, Saved)
    /\ rpc' = "peek"
    /\ UNCHANGED <<session, senderVars, linkVars, ready, stay, batchIdx, resumeReq, cur,
                   claimed>>

(* SessionEnd after a file: the batch is reported; ReceiveFiles returns,    *)
(* ReceiveBatches waits for another.                                        *)
Report ==
    /\ claimed' = claimed \cup {paths[i] : i \in 1 .. Len(paths)}
    /\ paths' = << >>
    /\ batchIdx' = batchIdx + 1

ReadSessionEnd ==
    /\ rpc = "peek" /\ Read({"SessionEnd"})
    /\ Report
    /\ IF stay THEN rpc' = "idle" /\ UNCHANGED linkVars ELSE Leave("ok")
    /\ UNCHANGED <<session, senderVars, ready, fs, stay, resumeReq, cur>>

(* What comes out of turn because something before it was dropped is an     *)
(* error, but for a SessionEnd between batches: ReceiveBatches returns nil. *)
ReadMisplaced ==
    /\ \/ rpc \in {"recv", "idle"} /\ Read({"Chunk", "Complete", "SessionEnd"})
       \/ rpc = "body" /\ Read({"SessionEnd"})
       \/ rpc = "peek" /\ Read({"Chunk", "Complete"})
    /\ Leave(IF rpc = "idle" /\ Next_.type = "SessionEnd" THEN "ok" ELSE "err")
    /\ UNCHANGED <<session, senderVars, ready, fs, stay, batchIdx, resumeReq, cur, paths,
                   claimed>>

EndBatchNot == UNCHANGED <<paths, claimed, batchIdx>>  \* mutant: paths survive

EndBatch ==
    IF stay /\ paths # << >>
    THEN Report
    ELSE paths' = << >> /\ UNCHANGED <<batchIdx, claimed>>

(* A Version: the partial file goes, and either the versions differ or the  *)
(* receiver answers Ready and opens a new session.  ReceiveBatches reports  *)
(* the files it already has, ReceiveFiles forgets them.                     *)
DiscardPartNot == UNCHANGED fs  \* mutant: the partial file stays

DiscardPart == fs' = IF rpc = "body" THEN Without(PartPath(cur.dest)) ELSE fs

ReadVersion ==
    /\ ~ReceiverDone /\ Read({"Version"})
    /\ DiscardPart
    /\ IF Next_.k = ProtocolVersion
       THEN /\ ready' = TRUE /\ rpc' = "first"
            /\ EndBatch
            /\ UNCHANGED linkVars
       ELSE Leave("err") /\ UNCHANGED <<ready, paths, batchIdx, claimed>>
    /\ UNCHANGED <<session, senderVars, stay, resumeReq, cur>>

AtEndClosed == link = "closed" /\ rd = arrives  \* mutant: a lost link goes unnoticed

AtEnd == link # "up" /\ rd = arrives

(* The connection ends (isSessionEndReadErr: EOF, any close code) with      *)
(* nothing left to read: after a file or between batches that is the end of *)
(* the batch, elsewhere an error.                                           *)
ReadEnd ==
    /\ ~ReceiverDone /\ AtEnd
    /\ UNCHANGED rd
    /\ IF rpc = "peek" THEN Report ELSE UNCHANGED <<claimed, paths, batchIdx>>
    /\ Leave(IF rpc \in {"peek", "idle"} THEN "ok" ELSE "err")
    /\ UNCHANGED <<session, senderVars, ready, fs, stay, resumeReq, cur>>

(* A read deadline (30 s for the first message, 5 min later) runs out.      *)
ReadTimeout ==
    /\ ~ReceiverDone /\ rd = arrives
    /\ UNCHANGED rd
    /\ Leave("err")
    /\ UNCHANGED <<session, senderVars, ready, fs, stay, batchIdx, resumeReq, cur, paths,
                   claimed>>

(* The receiver is killed, perhaps in the middle of writing a chunk.        *)
ReceiverDies ==
    /\ ~ReceiverDone
    /\ UNCHANGED rd
    /\ Leave("err")
    /\ \/ UNCHANGED fs
       \/ /\ rpc = "body" /\ rd < arrives /\ Next_.type = "Chunk"
          /\ \E t \in Tail_ : fs' = Put(PartPath(cur.dest), Append(fs[PartPath(cur.dest)], t))
    /\ UNCHANGED <<session, senderVars, ready, stay, batchIdx, resumeReq, cur, paths, claimed>>

-----------------------------------------------------------------------------
SenderStep ==
    \/ SendOpen \/ SendMetadata \/ SendChunk \/ SendComplete \/ SendSessionEnd
    \/ WaitForReceiver

ReceiverStep ==
    \/ ReadOpen \/ ReadMetadata \/ ReadChunk \/ ReadComplete
    \/ ReadSessionEnd \/ ReadMisplaced \/ ReadVersion \/ ReadEnd

Environment ==
    \/ StartSession \/ NextBatch \/ Finish \/ SenderFails \/ Reload
    \/ LinkLost \/ PeerCloses \/ Dropped \/ ReadTimeout \/ ReceiverDies

Next == SenderStep \/ ReceiverStep \/ Environment

Spec == Init /\ [][Next]_vars

(* Each program's loop runs on while it has something to do; users, read     *)
(* deadlines, crashes and the network owe nothing.                          *)
Fairness == WF_vars(SenderStep) /\ WF_vars(ReceiverStep)

FairSpec == Spec /\ Fairness

-----------------------------------------------------------------------------
(* Properties.                                                              *)

ResumeRequests == [name : Path, prefix : Seq(Chunk)]

Entry == [path : Path, of : Nat]

(* Every variable keeps its shape, and indices stay inside the lists they   *)
(* index.                                                                   *)
TypeOK ==
    /\ IsDisk(fs)
    /\ session \in Nat /\ batches \in Nat /\ reloads \in Nat /\ batchIdx \in Nat
    /\ offered \in Seq(File) /\ batchSize \in Nat
    /\ spc \in {"off", "ready", "open", "meta", "chunks", "end", "between", "done", "failed"}
    /\ sIdx \in Nat /\ sPos \in Nat
    /\ pendingResume \in ResumeRequests \cup {NoResume}
    /\ resumeReq \in ResumeRequests \cup {NoResume}
    /\ wire \in Seq(Message) /\ arrives \in 0 .. Len(wire) /\ rd \in 0 .. arrives
    /\ link \in {"up", "closed", "lost"} /\ chan \in {"socket", "open", "closed"}
    /\ gaps \in SUBSET (1 .. rd)
    /\ ready \in BOOLEAN /\ stay \in BOOLEAN
    /\ rpc \in {"off", "first", "recv", "body", "peek", "idle", "ok", "err"}
    /\ cur \in [dest : Path, of : Nat] \cup {NoFile}
    /\ paths \in Seq(Entry)
    /\ claimed \in SUBSET Entry

Finished == claimed \cup {paths[i] : i \in 1 .. Len(paths)}

(* The files of which deliver has dropped a message: a Metadata, a Chunk or *)
(* the Complete.                                                            *)
Cut == {wire[i].of : i \in {j \in gaps : wire[j].type # "SessionEnd"}}

(* Every file the receiver has finished, reported to the user or about to   *)
(* be, is on disk under a path of its own, a copy of the name it was sent   *)
(* with, and holds exactly the bytes the sender was given: nothing lost,    *)
(* torn, mixed with a stale partial file, or overwritten by a later file of *)
(* the session.  Only a file of which a closing Peer dropped a message may  *)
(* hold other bytes (recvFile renames on Complete without looking at the    *)
(* size, and reports it); the files around it may not.                      *)
SavedIntact ==
    \A e \in Finished :
       /\ e.path \in DOMAIN fs
       /\ e.of \notin Cut => fs[e.path] = Data(e.of)
       /\ e.path = [offered[e.of].name EXCEPT !.n = e.path.n]
       /\ \A g \in Finished : g.path = e.path => g = e

(* While a file is being received its ".part" is there, and holds a prefix  *)
(* of the file being sent, the resumed chunks included, unless a closing    *)
(* Peer dropped a message of this very file: streamFile's offset and the    *)
(* receiver's reopened file never disagree.                                 *)
PartIsPrefix ==
    rpc = "body" =>
       /\ PartPath(cur.dest) \in DOMAIN fs
       /\ cur.of \notin Cut =>
             LET c == fs[PartPath(cur.dest)]
             IN  Len(c) <= Len(Data(cur.of)) /\ c = SubSeq(Data(cur.of), 1, Len(c))

(* A receiver that goes on, or ends well, does not leave behind the partial *)
(* file it was writing to last: a restarted sender's is discarded, a        *)
(* finished one renamed away.  (An earlier one whose Complete a closing     *)
(* Peer dropped, and which the next Metadata replaced, does stay.)          *)
NothingLeftBehind ==
    rpc \in {"first", "recv", "peek", "idle", "ok"} /\ cur # NoFile =>
        PartPath(cur.dest) \notin DOMAIN fs

(* No step changes or removes a file of the directory that is not a partial *)
(* file: uniquePath and the partial files keep transfers away from what the *)
(* user already has.                                                        *)
KeepsFiles ==
    [][\A p \in DOMAIN fs : p.part = 0 => p \in DOMAIN fs' /\ fs'[p] = fs[p]]_vars

(* A batch that is reported has its files in the sender's order, each once. *)
(* At a SessionEnd it lacks no file of the sender's batch, and one that     *)
(* ends with the connection (receiver.go says "or until the sender          *)
(* disconnects cleanly"; isSessionEndReadErr takes a lost connection for    *)
(* that as well) lacks files at its end only: in both cases but for the     *)
(* files of which a closing Peer dropped a message, which are missing       *)
(* without a word.  Where nothing was dropped no file of another batch, or  *)
(* from before a reload, is among them.                                     *)
BatchWhole ==
    [][rpc = "peek" /\ claimed' # claimed =>
         LET got  == {paths[i].of : i \in 1 .. Len(paths)}
             sent == IF rd' = rd + 1 /\ Next_.type = "SessionEnd"
                     THEN Next_.of - Next_.k + 1 .. Next_.of
                     ELSE paths[1].of .. paths[Len(paths)].of
         IN  /\ \A i, j \in 1 .. Len(paths) : i < j => paths[i].of < paths[j].of
             /\ sent \ Cut \subseteq got
             /\ gaps = {} => got \subseteq sent]_vars

(* Once the connection is over the receiver ends: it never waits on a       *)
(* connection that is gone, in whatever state of recvFile or receiveBatch.  *)
ReceiverEnds == link # "up" ~> ReceiverDone

(* The directory and the reports are those of the abstract Delivery: the    *)
(* partial files, the messages and the retries do not show, a message that  *)
(* a closing Peer dropped only in the file it belonged to.                  *)
D == INSTANCE Delivery WITH
        store <- [p \in {q \in DOMAIN fs : q.part = 0} |-> fs[p]],
        outbox <- {offered[i] : i \in 1 .. Len(offered)},
        delivered <- {paths[i].path : i \in 1 .. Len(paths)},
        reported <- {e.path : e \in claimed},
        damaged <- {offered[f] : f \in Cut}

ImplementsDelivery == D!Spec
=============================================================================
