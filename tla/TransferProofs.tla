--------------------------- MODULE TransferProofs ---------------------------
(***************************************************************************)
(* Proofs about Transfer, for any names, contents, batches and directories, *)
(* and any number of sessions, reloads and batches: its type invariant,     *)
(* that a partial file holds a prefix of the file being sent and is not     *)
(* left behind, that finished files are intact and files of the directory   *)
(* are kept, that Transfer implements Delivery, and that a reported batch   *)
(* is the sender's.                                                         *)
(***************************************************************************)
EXTENDS Transfer, SequenceTheorems, FiniteSetTheorems, TLAPS

-----------------------------------------------------------------------------
(* Contents, paths and directories.                                         *)

(* A prefix of a content is one; a proper one is of full chunks, and is     *)
(* made longer by its next chunk.                                           *)
LEMMA ContentPrefix ==
  ASSUME NEW d \in Content, NEW k \in 0 .. Len(d)
  PROVE  /\ SubSeq(d, 1, k) \in Content /\ Len(SubSeq(d, 1, k)) = k
         /\ k < Len(d) => /\ SubSeq(d, 1, k) \in Seq(Chunk)
                          /\ Append(SubSeq(d, 1, k), d[k + 1]) = SubSeq(d, 1, k + 1)
<1> DEFINE C == Chunk \cup Tail_
           s == SubSeq(d, 1, k)
<1>1. d \in Seq(C) /\ Len(d) \in Nat /\ \A i \in 1 .. Len(d) : d[i] \in C
  BY LenProperties, ElementOfSeq DEF Content
<1>2. \A i \in 1 .. k : i \in 1 .. Len(d) /\ (i < Len(d) => d[i] \in Chunk)
  BY <1>1, SMT DEF Content
<1>3. /\ s \in Seq(C) /\ Len(s) = k /\ \A i \in 1 .. k : s[i] = d[i]
  <2>1. \A i \in 1 .. k : d[i] \in C
    BY <1>1, <1>2
  <2>2. /\ s \in Seq(C) /\ Len(s) = IF 1 <= k THEN k - 1 + 1 ELSE 0
        /\ \A i \in 1 .. k - 1 + 1 : s[i] = d[1 + i - 1]
    BY <2>1, SubSeqProperties
  <2> HIDE DEF s, C
  <2> QED BY <1>1, <2>2, SMT
<1>4. s \in Content
  <2>1. \A i \in 1 .. k - 1 : i \in 1 .. k /\ i < Len(d)
    BY <1>1, SMT
  <2> QED BY <1>2, <1>3, <2>1 DEF Content
<1>5. ASSUME k < Len(d)
      PROVE  s \in Seq(Chunk)
  <2>1. \A i \in 1 .. k : d[i] \in Chunk
    BY <1>1, <1>2, <1>5, SMT
  <2> QED BY <2>1, SubSeqProperties
<1>6. ASSUME k < Len(d)
      PROVE  Append(s, d[k + 1]) = SubSeq(d, 1, k + 1)
  <2>1. k + 1 \in 1 .. Len(d) /\ (k + 1) - 1 = k
    BY <1>1, <1>5, <1>6, SMT
  <2>2. SubSeq(d, 1, k + 1) = s \o << d[k + 1] >>
    BY <1>1, <2>1, SubSeqRecursiveSecond
  <2>3. d[k + 1] \in C
    BY <1>1, <2>1
  <2> HIDE DEF C, s
  <2> QED BY <1>3, <2>2, <2>3
<1> QED BY <1>3, <1>4, <1>5, <1>6

(* What FindResumeCandidate keeps of a partial file are whole chunks.       *)
LEMMA WholeChunksType ==
  ASSUME NEW c \in Bytes
  PROVE  WholeChunks(c) \in Seq(Chunk) /\ WholeChunks(c) \in Bytes
<1> DEFINE short == {i \in 1 .. Len(c) : c[i] \in Tail_}
           n == Len(c) - Cardinality(short)
           w == [i \in 1 .. n |-> IF short \cap 1 .. i = {} THEN c[i] ELSE Blend]
<1>1. Len(c) \in Nat /\ \A i \in 1 .. Len(c) : c[i] \in Chunk \cup Tail_
  BY LenProperties, ElementOfSeq DEF Bytes
<1>2. n \in 0 .. Len(c)
  <2>1. IsFiniteSet(1 .. Len(c)) /\ Cardinality(1 .. Len(c)) = Len(c)
    <3>1. 1 \in Int /\ Len(c) \in Int /\ (IF 1 > Len(c) THEN 0 ELSE Len(c) - 1 + 1) = Len(c)
      BY <1>1, SMT
    <3> QED BY <3>1, FS_Interval, Zenon
  <2>2. Cardinality(short) \in Nat /\ Cardinality(short) <= Cardinality(1 .. Len(c))
    <3>1. short \subseteq 1 .. Len(c)
      OBVIOUS
    <3>2. IsFiniteSet(short) /\ Cardinality(short) <= Cardinality(1 .. Len(c))
      BY <2>1, <3>1, FS_Subset, Zenon
    <3> QED BY <3>2, FS_CardinalityType
  <2> HIDE DEF short
  <2> QED BY <1>1, <2>1, <2>2, SMT
<1>3. ASSUME NEW i \in 1 .. n
      PROVE  w[i] \in Chunk
  <2>1. i \in 1 .. Len(c) /\ i \in 1 .. i /\ w[i] = IF short \cap 1 .. i = {} THEN c[i] ELSE Blend
    <3> HIDE DEF n, short
    <3> QED BY <1>1, <1>2, <1>3, SMT
  <2>2. short \cap 1 .. i = {} => c[i] \in Chunk
    BY <1>1, <2>1
  <2> HIDE DEF short, w
  <2> QED BY <2>1, <2>2, DataAssumption, Zenon DEF DataAssumption
<1>4. w \in [1 .. n -> Chunk]
  <2> HIDE DEF n, short
  <2> QED BY <1>3
<1>5. w \in Seq(Chunk)
  <2> HIDE DEF n, w
  <2>1. n \in Nat
    BY <1>1, <1>2, SMT
  <2> QED BY <1>4, <2>1, SeqDef, Zenon
<1>6. w \in Bytes
  <2> HIDE DEF w
  <2> QED BY <1>5, SeqMonotonic DEF Bytes
<1>7. WholeChunks(c) = w
  BY Zenon DEF WholeChunks
<1> QED BY <1>5, <1>6, <1>7, Zenon

(* A file that is sent, and a chunk more, are such as a directory holds.    *)
LEMMA BytesFacts ==
  /\ \A d \in Content : d \in Bytes
  /\ \A c \in Bytes, k \in Chunk \cup Tail_ : Append(c, k) \in Bytes
  /\ << >> \in Bytes
BY AppendProperties, EmptySeq DEF Content, Bytes

(* Partial files and copies are paths; the one of a path is not that path.  *)
LEMMA PathFacts ==
  ASSUME NEW p \in Path
  PROVE  /\ p.n \in Nat /\ p.part \in Nat
         /\ PartPath(p) \in Path /\ PartPath(p).part = p.part + 1 /\ PartPath(p) # p
         /\ \A q \in Path : PartPath(p) = PartPath(q) => p = q
         /\ \A n \in Nat : LET q == [p EXCEPT !.n = n]
                           IN  q \in Path /\ q.n = n /\ q.part = p.part
         /\ p.part > 0 => LET q == [p EXCEPT !.part = @ - 1]
                          IN  q \in Path /\ PartPath(q) = p
<1>1. p = [base |-> p.base, n |-> p.n, part |-> p.part] /\ p.base \in Base
      /\ p.n \in Nat /\ p.part \in Nat
  BY DEF Path
<1>2. PartPath(p) = [base |-> p.base, n |-> p.n, part |-> p.part + 1]
  BY <1>1 DEF PartPath
<1>3. PartPath(p) \in Path /\ PartPath(p).part = p.part + 1 /\ PartPath(p) # p
  BY <1>1, <1>2 DEF Path
<1>4. ASSUME NEW q \in Path, PartPath(p) = PartPath(q)
      PROVE  p = q
  <2>1. q = [base |-> q.base, n |-> q.n, part |-> q.part] /\ q.part \in Nat
    BY DEF Path
  <2>2. PartPath(q) = [base |-> q.base, n |-> q.n, part |-> q.part + 1]
    BY <2>1 DEF PartPath
  <2>3. p.base = q.base /\ p.n = q.n /\ p.part + 1 = q.part + 1
    BY <1>2, <1>4, <2>2
  <2> QED BY <1>1, <2>1, <2>3
<1>5. ASSUME NEW n \in Nat
      PROVE  LET q == [p EXCEPT !.n = n]
             IN  q \in Path /\ q.n = n /\ q.part = p.part /\ q.base = p.base
  <2>1. [p EXCEPT !.n = n] = [base |-> p.base, n |-> n, part |-> p.part]
    BY <1>1
  <2> QED BY <1>1, <2>1 DEF Path
<1>6. ASSUME p.part > 0
      PROVE  LET q == [p EXCEPT !.part = @ - 1]
             IN  q \in Path /\ PartPath(q) = p
  <2>1. [p EXCEPT !.part = @ - 1] = [base |-> p.base, n |-> p.n, part |-> p.part - 1]
    BY <1>1
  <2>2. p.part - 1 \in Nat /\ (p.part - 1) + 1 = p.part
    BY <1>1, <1>6
  <2> QED BY <1>1, <2>1, <2>2 DEF Path, PartPath
<1> QED BY <1>1, <1>3, <1>4, <1>5, <1>6

LEMMA PutFacts ==
  ASSUME IsDisk(fs), NEW p \in Path, NEW c \in Bytes
  PROVE  /\ IsDisk(Put(p, c)) /\ DOMAIN Put(p, c) = DOMAIN fs \cup {p}
         /\ Put(p, c)[p] = c
         /\ \A q \in DOMAIN fs : q # p => Put(p, c)[q] = fs[q]
BY DEF IsDisk, Put

LEMMA WithoutFacts ==
  ASSUME IsDisk(fs), NEW p
  PROVE  /\ IsDisk(Without(p)) /\ DOMAIN Without(p) = DOMAIN fs \ {p}
         /\ \A q \in DOMAIN fs : q # p => Without(p)[q] = fs[q]
BY DEF IsDisk, Without

LEMMA RenamedFacts ==
  ASSUME IsDisk(fs), cur.dest \in Path, PartPath(cur.dest) \in DOMAIN fs
  PROVE  /\ IsDisk(Renamed)
         /\ DOMAIN Renamed = (DOMAIN fs \ {PartPath(cur.dest)}) \cup {cur.dest}
         /\ Renamed[cur.dest] = fs[PartPath(cur.dest)]
         /\ \A q \in DOMAIN fs \ {PartPath(cur.dest), cur.dest} : Renamed[q] = fs[q]
BY DEF IsDisk, Renamed

-----------------------------------------------------------------------------
(* The messages on the wire.  Each one names a file and a chunk the sender  *)
(* was given, and a Chunk or Complete goes on from the message before it.   *)

MsgOK(m) ==
    m.type \in {"Metadata", "Chunk", "Complete"} =>
       /\ m.of \in 1 .. Len(offered) /\ m.k \in 0 .. Len(Data(m.of))
       /\ m.type = "Chunk" => m.k # 0

Follows(l, m) ==
    m.type \in {"Chunk", "Complete"} =>
       /\ l.type \in {"Metadata", "Chunk"} /\ l.of = m.of
       /\ IF m.type = "Chunk" THEN m.k = l.k + 1 ELSE l.k = Len(Data(l.of))

(* A file's messages are not broken off by the next file or the end.        *)
EndsFirst(l, m) ==
    m.type \in {"Metadata", "SessionEnd"} => l.type \notin {"Metadata", "Chunk"}

WireInv ==
    /\ \A i \in 1 .. Len(wire) : MsgOK(wire[i])
    /\ \A i \in 2 .. Len(wire) : Follows(wire[i - 1], wire[i])
    /\ \A i \in 2 .. Len(wire) : EndsFirst(wire[i - 1], wire[i])

Last == wire[Len(wire)]

SenderInv ==
    /\ spc \in {"ready", "open", "meta", "chunks"} => sIdx \in 1 .. Len(offered)
    /\ spc \in {"end", "between"} => sIdx = Len(offered) + 1
    /\ spc = "chunks" =>
          /\ Len(wire) > 0 /\ Last.type \in {"Metadata", "Chunk"}
          /\ Last.of = sIdx /\ Last.k = sPos
    /\ spc = "end" => Len(wire) > 0 /\ Last.type = "Complete"
    /\ spc = "between" => Len(wire) > 0 /\ Last.type = "SessionEnd"
    /\ spc = "meta" /\ Len(wire) > 0 => Last.type \notin {"Metadata", "Chunk"}

(* Resuming.  Only the first Metadata of a session skips chunks, and until  *)
(* it is read the directory is as FindResumeCandidate left it.              *)

OnlyOpen(n) == \A i \in 1 .. n : wire[i].type = "Open"

Resumes(r, m) ==
    /\ r # NoResume /\ r.name = offered[m.of].name
    /\ m.k = Len(r.prefix) /\ SubSeq(Data(m.of), 1, m.k) = r.prefix

ResumeInv ==
    /\ pendingResume # NoResume => pendingResume = resumeReq /\ OnlyOpen(Len(wire))
    /\ \A i \in 1 .. Len(wire) :
          wire[i].type = "Metadata" /\ wire[i].k > 0 =>
             OnlyOpen(i - 1) /\ Resumes(resumeReq, wire[i])

LeftoverInv ==
    ~ReceiverDone /\ resumeReq # NoResume /\ OnlyOpen(rd) =>
       /\ Leftovers = {PartPath(resumeReq.name)}
       /\ fs[PartPath(resumeReq.name)] = resumeReq.prefix

(* Only the data channel's messages are ever dropped.                       *)
GapsInv == \A i \in gaps : wire[i].type \notin {"Open", "Version"}

(* The receiver.  In a file, its name is still free and its partial file is *)
(* there; unless something of the file was dropped, it holds what the       *)
(* message read last leads up to.                                           *)

InStep ==
    /\ rd > 0 /\ wire[rd].type \in {"Metadata", "Chunk"} /\ wire[rd].of = cur.of
    /\ fs[PartPath(cur.dest)] = SubSeq(Data(cur.of), 1, wire[rd].k)

BodyInv ==
    rpc = "body" =>
       /\ cur \in [dest : Path, of : 1 .. Len(offered)]
       /\ cur.dest = [offered[cur.of].name EXCEPT !.n = cur.dest.n]
       /\ cur.dest \notin DOMAIN fs
       /\ PartPath(cur.dest) \in DOMAIN fs
       /\ cur.of \notin Cut => InStep

IInv ==
    /\ TypeOK /\ WireInv /\ SenderInv /\ ResumeInv /\ LeftoverInv
    /\ GapsInv /\ BodyInv

(* The type invariant by whose variables it is about.                       *)
SenderType ==
    /\ session \in Nat /\ batches \in Nat /\ reloads \in Nat /\ batchSize \in Nat
    /\ offered \in Seq(File) /\ sIdx \in Nat /\ sPos \in Nat /\ ready \in BOOLEAN
    /\ spc \in {"off", "ready", "open", "meta", "chunks", "end", "between", "done", "failed"}
    /\ pendingResume \in ResumeRequests \cup {NoResume}
    /\ chan \in {"socket", "open", "closed"}

LinkType ==
    /\ wire \in Seq(Message) /\ arrives \in 0 .. Len(wire) /\ rd \in 0 .. arrives
    /\ link \in {"up", "closed", "lost"} /\ gaps \in SUBSET (1 .. rd)

ReceiverType ==
    /\ IsDisk(fs) /\ batchIdx \in Nat /\ stay \in BOOLEAN
    /\ resumeReq \in ResumeRequests \cup {NoResume}
    /\ rpc \in {"off", "first", "recv", "body", "peek", "idle", "ok", "err"}
    /\ cur \in [dest : Path, of : Nat] \cup {NoFile}
    /\ paths \in Seq(Entry) /\ claimed \in SUBSET Entry

LEMMA TypeParts == TypeOK <=> SenderType /\ LinkType /\ ReceiverType
BY DEF TypeOK, SenderType, LinkType, ReceiverType

LEMMA TypePartsNext == SenderType' /\ LinkType' /\ ReceiverType' => TypeOK'
BY DEF TypeOK, SenderType, LinkType, ReceiverType

(* Initially nothing is on the wire and nobody runs.                        *)
LEMMA InitIInv == Init => IInv
<1> SUFFICES ASSUME Init PROVE IInv
  OBVIOUS
<1>1. /\ offered = << >> /\ wire = << >> /\ paths = << >>
      /\ offered \in Seq(File) /\ wire \in Seq(Message) /\ paths \in Seq(Entry)
      /\ Len(wire) = 0 /\ arrives = 0 /\ rd = 0 /\ claimed = {}
  BY EmptySeq DEF Init
<1>2. IsDisk(fs)
  BY DataAssumption DEF Init, DataAssumption
<1>3. arrives \in 0 .. Len(wire) /\ rd \in 0 .. arrives
  BY <1>1
<1>t. TypeOK
  <2>1. /\ session \in Nat /\ batches \in Nat /\ reloads \in Nat /\ batchIdx \in Nat
        /\ batchSize \in Nat /\ sIdx \in Nat /\ sPos \in Nat
    BY DEF Init
  <2>2. /\ spc \in {"off", "ready", "open", "meta", "chunks", "end", "between", "done", "failed"}
        /\ rpc \in {"off", "first", "recv", "body", "peek", "idle", "ok", "err"}
        /\ link \in {"up", "closed", "lost"} /\ ready \in BOOLEAN /\ stay \in BOOLEAN
        /\ chan \in {"socket", "open", "closed"} /\ gaps \in SUBSET (1 .. rd)
    BY DEF Init
  <2>3. /\ pendingResume \in ResumeRequests \cup {NoResume} /\ cur \in [dest : Path, of : Nat] \cup {NoFile}
        /\ resumeReq \in ResumeRequests \cup {NoResume}
    BY DEF Init
  <2> QED BY <1>1, <1>2, <1>3, <2>1, <2>2, <2>3 DEF TypeOK
<1>4. WireInv /\ SenderInv /\ ResumeInv /\ LeftoverInv /\ GapsInv /\ BodyInv
  BY <1>1 DEF Init, WireInv, SenderInv, ResumeInv, LeftoverInv, GapsInv, BodyInv, ReceiverDone
<1> QED BY <1>t, <1>4 DEF IInv

-----------------------------------------------------------------------------
(* What was sent stays as it is when the sender goes on.                    *)

OfferedGrows ==
    /\ offered' \in Seq(File) /\ Len(offered) <= Len(offered')
    /\ \A i \in 1 .. Len(offered) : offered'[i] = offered[i]

WireGrows ==
    /\ wire' \in Seq(Message) /\ Len(wire) <= Len(wire')
    /\ \A i \in 1 .. Len(wire) : wire'[i] = wire[i]

LEMMA BatchAdded ==
  ASSUME TypeOK, NEW b \in Batches, offered' = offered \o b
  PROVE  OfferedGrows /\ Len(b) > 0 /\ Len(b) \in Nat /\ Len(offered') = Len(offered) + Len(b)
<1>1. offered \in Seq(File) /\ b \in Seq(File) /\ b # << >>
  BY DataAssumption DEF TypeOK, DataAssumption
<1>2. Len(offered) \in Nat /\ Len(b) \in Nat /\ Len(b) # 0
  BY <1>1, LenProperties, EmptySeq
<1>3. /\ offered' \in Seq(File) /\ Len(offered') = Len(offered) + Len(b)
      /\ \A i \in 1 .. Len(offered) + Len(b) :
            offered'[i] = IF i <= Len(offered) THEN offered[i] ELSE b[i - Len(offered)]
  BY <1>1, ConcatProperties
<1> QED BY <1>2, <1>3, SMT DEF OfferedGrows

LEMMA KeptMessages ==
  ASSUME IInv, OfferedGrows, WireGrows
  PROVE  /\ Len(wire) \in Nat /\ Len(wire') \in Nat
         /\ Len(offered) \in Nat /\ Len(offered') \in Nat
         /\ \A i \in 1 .. Len(offered) : offered[i].data \in Content
         /\ \A i \in 1 .. Len(wire) : wire[i] \in Message /\ MsgOK(wire[i])'
         /\ \A i \in 2 .. Len(wire) : Follows(wire[i - 1], wire[i])'
         /\ \A i \in 2 .. Len(wire) : EndsFirst(wire[i - 1], wire[i])'
         /\ \A n \in 0 .. Len(wire) : OnlyOpen(n)' <=> OnlyOpen(n)
<1>1. offered \in Seq(File) /\ wire \in Seq(Message)
  BY DEF IInv, TypeOK
<1>2. /\ Len(wire) \in Nat /\ Len(wire') \in Nat /\ Len(offered) \in Nat /\ Len(offered') \in Nat
      /\ \A i \in 1 .. Len(wire) : wire[i] \in Message
      /\ \A i \in 1 .. Len(offered) : offered[i] \in File
  BY <1>1, LenProperties, ElementOfSeq DEF OfferedGrows, WireGrows
<1>3. \A i \in 1 .. Len(offered) : Data(i)' = Data(i) /\ offered[i].data \in Content
  BY <1>2 DEF OfferedGrows, Data, File
<1>4. ASSUME NEW i \in 1 .. Len(wire)
      PROVE  MsgOK(wire[i])'
  <2>1. MsgOK(wire[i]) /\ wire'[i] = wire[i]
    BY DEF IInv, WireInv, WireGrows
  <2>2. ASSUME wire[i].of \in 1 .. Len(offered)
        PROVE  wire[i].of \in 1 .. Len(offered') /\ Data(wire[i].of)' = Data(wire[i].of)
    <3>1. \A f \in 1 .. Len(offered) : f \in 1 .. Len(offered')
      BY <1>2 DEF OfferedGrows
    <3> QED BY <1>3, <2>1, <2>2, <3>1 DEF Data
  <2> QED BY <2>1, <2>2 DEF MsgOK, Data
<1>5. ASSUME NEW i \in 2 .. Len(wire)
      PROVE  Follows(wire[i - 1], wire[i])'
  <2>1. i - 1 \in 1 .. Len(wire) /\ i \in 1 .. Len(wire)
    BY <1>2
  <2>2. /\ Follows(wire[i - 1], wire[i]) /\ wire'[i] = wire[i] /\ wire'[i - 1] = wire[i - 1]
        /\ MsgOK(wire[i - 1])
    BY <2>1 DEF IInv, WireInv, WireGrows
  <2>3. wire[i - 1].of \in 1 .. Len(offered) => offered'[wire[i - 1].of] = offered[wire[i - 1].of]
    BY DEF OfferedGrows
  <2> QED BY <2>2, <2>3 DEF Follows, MsgOK, Data
<1>e. ASSUME NEW i \in 2 .. Len(wire)
      PROVE  EndsFirst(wire[i - 1], wire[i])'
  <2>1. i - 1 \in 1 .. Len(wire) /\ i \in 1 .. Len(wire)
    BY <1>2
  <2>2. EndsFirst(wire[i - 1], wire[i]) /\ wire'[i] = wire[i] /\ wire'[i - 1] = wire[i - 1]
    BY <2>1 DEF IInv, WireInv, WireGrows
  <2> QED BY <2>2 DEF EndsFirst
<1>6. ASSUME NEW n \in 0 .. Len(wire)
      PROVE  OnlyOpen(n)' <=> OnlyOpen(n)
  <2>1. \A i \in 1 .. n : i \in 1 .. Len(wire)
    BY <1>2
  <2> QED BY <2>1 DEF OnlyOpen, WireGrows
<1> QED BY <1>2, <1>3, <1>4, <1>5, <1>6, <1>e

(* What was dropped stays dropped, and nothing else.                        *)
LEMMA KeptCut ==
  ASSUME IInv, WireGrows, UNCHANGED gaps
  PROVE  GapsInv' /\ Cut' = Cut
<1>1. \A i \in gaps : wire'[i] = wire[i]
  <2>1. wire \in Seq(Message) /\ arrives \in 0 .. Len(wire) /\ rd \in 0 .. arrives /\ gaps \subseteq 1 .. rd
    BY DEF IInv, TypeOK
  <2>2. 1 .. rd \subseteq 1 .. Len(wire)
    BY <2>1, LenProperties
  <2> QED BY <2>1, <2>2 DEF WireGrows
<1>2. GapsInv'
  BY <1>1 DEF IInv, GapsInv
<1>3. {j \in gaps : wire'[j].type # "SessionEnd"} = {j \in gaps : wire[j].type # "SessionEnd"}
  BY <1>1, Zenon
<1>4. Cut' = Cut
  BY <1>1, <1>3 DEF Cut
<1> QED BY <1>2, <1>4

(* The receiver is not disturbed.                                           *)
LEMMA KeptReceiver ==
  ASSUME IInv, OfferedGrows, WireGrows, UNCHANGED <<recvVars, gaps>>
  PROVE  LeftoverInv' /\ GapsInv' /\ BodyInv'
<1>1. /\ rd \in 0 .. Len(wire) /\ UNCHANGED <<fs, rpc, rd, resumeReq, cur>>
      /\ Len(wire) \in Nat /\ rd \in Nat
  <2>1. wire \in Seq(Message) /\ arrives \in 0 .. Len(wire) /\ rd \in 0 .. arrives
    BY DEF IInv, TypeOK
  <2>2. Len(wire) \in Nat
    BY <2>1, LenProperties
  <2> QED BY <2>1, <2>2 DEF recvVars
<1>2. LeftoverInv'
  BY <1>1, KeptMessages DEF IInv, LeftoverInv, ReceiverDone, Leftovers
<1>3. BodyInv'
  <2> SUFFICES ASSUME rpc = "body"
               PROVE  BodyInv'
    BY <1>1 DEF BodyInv
  <2>1. /\ BodyInv /\ cur.of \in 1 .. Len(offered) /\ Len(offered) \in Nat /\ Len(offered') \in Nat
        /\ Cut' = Cut
    BY KeptMessages, KeptCut DEF IInv, BodyInv
  <2>2. cur.of \in 1 .. Len(offered') /\ offered'[cur.of] = offered[cur.of]
    BY <2>1 DEF OfferedGrows
  <2>3. rd > 0 => wire'[rd] = wire[rd]
    <3> SUFFICES ASSUME rd > 0 PROVE wire'[rd] = wire[rd]
      OBVIOUS
    <3>1. rd \in 1 .. Len(wire)
      BY <1>1
    <3> QED BY <1>1, <3>1, Zenon DEF WireGrows
  <2>4. cur \in [dest : Path, of : 1 .. Len(offered')]
    BY <2>1, <2>2 DEF BodyInv
  <2>5. InStep => InStep'
    BY <1>1, <2>2, <2>3 DEF InStep, Data
  <2> QED BY <1>1, <2>1, <2>2, <2>4, <2>5 DEF BodyInv
<1> QED BY <1>2, <1>3, KeptCut

(* The resume request is judged by the file it is for.                      *)
LEMMA KeptResumes ==
  ASSUME IInv, OfferedGrows, WireGrows, resumeReq' = resumeReq, NEW i \in 1 .. Len(wire),
         wire[i].type = "Metadata", wire[i].k > 0
  PROVE  OnlyOpen(i - 1)' /\ Resumes(resumeReq, wire[i])'
<1>1. /\ OnlyOpen(i - 1) /\ Resumes(resumeReq, wire[i]) /\ MsgOK(wire[i])
      /\ wire'[i] = wire[i] /\ i - 1 \in 0 .. Len(wire)
  BY KeptMessages DEF IInv, ResumeInv, WireInv, WireGrows
<1>2. offered'[wire[i].of] = offered[wire[i].of]
  BY <1>1 DEF MsgOK, OfferedGrows
<1> QED BY <1>1, <1>2, KeptMessages DEF Resumes, Data

(* Steps that write nothing.                                                *)
LEMMA QuietSender ==
  ASSUME IInv, OfferedGrows, UNCHANGED <<wire, gaps, recvVars, pendingResume>>
  PROVE  WireInv' /\ ResumeInv' /\ LeftoverInv' /\ GapsInv' /\ BodyInv'
<1>1. wire' = wire /\ resumeReq' = resumeReq /\ pendingResume' = pendingResume
  BY DEF recvVars
<1>2. WireGrows
  <2>1. wire \in Seq(Message)
    BY DEF IInv, TypeOK
  <2>2. Len(wire) \in Nat
    BY <2>1, LenProperties
  <2> QED BY <1>1, <2>1, <2>2 DEF WireGrows
<1>3. WireInv'
  BY <1>1, <1>2, KeptMessages DEF WireInv
<1>4. ResumeInv'
  <2>1. \A i \in 1 .. Len(wire) :
           wire[i].type = "Metadata" /\ wire[i].k > 0 =>
             OnlyOpen(i - 1)' /\ Resumes(resumeReq, wire[i])'
    BY <1>1, <1>2, KeptResumes
  <2>2. pendingResume # NoResume => pendingResume = resumeReq /\ OnlyOpen(Len(wire))
    BY DEF IInv, ResumeInv
  <2> QED BY <1>1, <2>1, <2>2 DEF ResumeInv, OnlyOpen
<1> QED BY <1>2, <1>3, <1>4, KeptReceiver

(* Steps that write a message.                                              *)
LEMMA WriteKeeps ==
  ASSUME IInv, NEW m \in Message, Write(m), OfferedGrows, UNCHANGED recvVars,
         MsgOK(m)', Len(wire) > 0 => \E l \in Message : l = Last /\ Follows(l, m)' /\ EndsFirst(l, m),
         m.type \in {"Chunk", "Complete"} => Len(wire) > 0,
         m.type = "Metadata" /\ m.k > 0 => OnlyOpen(Len(wire)) /\ Resumes(resumeReq, m)',
         pendingResume' # NoResume => pendingResume' = pendingResume /\ m.type = "Open"
  PROVE  /\ WireInv' /\ ResumeInv' /\ LeftoverInv' /\ GapsInv' /\ BodyInv'
         /\ wire' \in Seq(Message) /\ Len(wire') = Len(wire) + 1 /\ wire'[Len(wire')] = m
         /\ arrives' \in 0 .. Len(wire') /\ rd' \in 0 .. arrives'
<1>1. /\ wire \in Seq(Message) /\ arrives \in 0 .. Len(wire) /\ rd \in 0 .. arrives
      /\ rd' = rd /\ resumeReq' = resumeReq
  BY DEF IInv, TypeOK, recvVars
<1>2. /\ wire' \in Seq(Message) /\ Len(wire') = Len(wire) + 1 /\ wire'[Len(wire) + 1] = m
      /\ Len(wire) \in Nat /\ \A i \in 1 .. Len(wire) : wire'[i] = wire[i]
  BY <1>1, AppendProperties, LenProperties DEF Write
<1>3. WireGrows
  BY <1>2, SMT DEF WireGrows
<1>4. arrives' \in 0 .. Len(wire') /\ rd' \in 0 .. arrives'
  <2>1. arrives' \in {Len(wire) + 1, arrives}
    BY DEF Write
  <2> QED BY <1>1, <1>2, <2>1, SMT
<1>5. 1 .. Len(wire') = (1 .. Len(wire)) \cup {Len(wire) + 1} /\ (Len(wire) + 1) - 1 = Len(wire)
  BY <1>2, SMT
<1>6. \A i \in 1 .. Len(wire) : MsgOK(wire[i])'
  BY <1>3, KeptMessages
<1>7. WireInv'
  <2>1. \A i \in 1 .. Len(wire') : MsgOK(wire[i])'
    BY <1>2, <1>5, <1>6 DEF MsgOK, Data
  <2>2. ASSUME NEW i \in 2 .. Len(wire')
        PROVE  Follows(wire[i - 1], wire[i])'
    <3>1. CASE i \in 2 .. Len(wire)
      BY <1>3, <3>1, KeptMessages
    <3>2. CASE i = Len(wire) + 1 /\ Len(wire) > 0
      <4>1. wire'[i] = m /\ wire'[i - 1] = Last
        BY <1>2, <3>2, SMT DEF Last
      <4> QED BY <3>2, <4>1 DEF Follows, Data
    <3> QED BY <1>2, <3>1, <3>2, SMT
  <2>3. ASSUME NEW i \in 2 .. Len(wire')
        PROVE  EndsFirst(wire[i - 1], wire[i])'
    <3>1. CASE i \in 2 .. Len(wire)
      BY <1>3, <3>1, KeptMessages
    <3>2. CASE i = Len(wire) + 1 /\ Len(wire) > 0
      <4>1. wire'[i] = m /\ wire'[i - 1] = Last
        BY <1>2, <3>2, SMT DEF Last
      <4> QED BY <3>2, <4>1 DEF EndsFirst
    <3> QED BY <1>2, <3>1, <3>2, SMT
  <2> QED BY <2>1, <2>2, <2>3 DEF WireInv
<1>9. ResumeInv'
  <2>1. ASSUME pendingResume' # NoResume
        PROVE  pendingResume' = resumeReq' /\ OnlyOpen(Len(wire))'
    <3>1. pendingResume = resumeReq /\ OnlyOpen(Len(wire)) /\ m.type = "Open"
      BY <2>1 DEF IInv, ResumeInv
    <3>2. \A i \in 1 .. Len(wire') : wire'[i].type = "Open"
      BY <1>2, <1>5, <3>1 DEF OnlyOpen
    <3> QED BY <1>1, <2>1, <3>1, <3>2 DEF OnlyOpen
  <2>2. ASSUME NEW i \in 1 .. Len(wire'), wire'[i].type = "Metadata", wire'[i].k > 0
        PROVE  OnlyOpen(i - 1)' /\ Resumes(resumeReq, wire[i])'
    <3>1. CASE i \in 1 .. Len(wire)
      BY <1>1, <1>2, <1>3, <2>2, <3>1, KeptResumes
    <3>2. CASE i = Len(wire) + 1
      <4>1. OnlyOpen(Len(wire)) /\ Resumes(resumeReq, m)' /\ wire'[i] = m /\ i - 1 = Len(wire)
        BY <1>2, <1>5, <2>2, <3>2
      <4>2. \A j \in 1 .. i - 1 : wire'[j].type = "Open"
        BY <1>2, <4>1 DEF OnlyOpen
      <4> QED BY <4>1, <4>2 DEF Resumes, Data, OnlyOpen
    <3> QED BY <1>5, <3>1, <3>2
  <2> QED BY <2>1, <2>2 DEF ResumeInv
<1>10. UNCHANGED gaps
  BY DEF Write
<1> QED BY <1>2, <1>3, <1>4, <1>7, <1>9, <1>10, KeptReceiver

(* A sender that goes on with what it has.                                  *)
LEMMA SameOffered == TypeOK /\ UNCHANGED offered => OfferedGrows
<1> SUFFICES ASSUME TypeOK, UNCHANGED offered PROVE OfferedGrows
  OBVIOUS
<1>1. offered \in Seq(File)
  BY DEF TypeOK
<1>2. Len(offered) \in Nat
  BY <1>1, LenProperties
<1> QED BY <1>1, <1>2 DEF OfferedGrows

LEMMA SenderIInv ==
  ASSUME IInv, \/ SendOpen \/ SendMetadata \/ SendChunk \/ SendComplete \/ SendSessionEnd
               \/ WaitForReceiver \/ NextBatch \/ Finish \/ SenderFails \/ Reload
  PROVE  IInv'
<1> USE TypeParts, TypePartsNext
<1>t. /\ TypeOK /\ SenderType /\ LinkType /\ ReceiverType /\ SenderInv
      /\ Len(offered) \in Nat /\ Len(wire) \in Nat
  <2>1. offered \in Seq(File) /\ wire \in Seq(Message)
    BY DEF IInv, TypeOK
  <2>2. Len(offered) \in Nat /\ Len(wire) \in Nat
    BY <2>1, LenProperties
  <2> QED BY <2>2 DEF IInv
<1>r. UNCHANGED recvVars
  BY DEF SendOpen, SendMetadata, SendChunk, SendComplete, SendSessionEnd, WaitForReceiver,
         NextBatch, Finish, SenderFails, Reload
<1>rt. ReceiverType'
  BY <1>t, <1>r DEF ReceiverType, recvVars
<1>g. gaps' \in SUBSET (1 .. rd') /\ UNCHANGED gaps
  BY <1>t, <1>r DEF LinkType, recvVars, SendOpen, SendMetadata, SendChunk, SendComplete,
     SendSessionEnd, WaitForReceiver, NextBatch, Finish, SenderFails, Reload, Write, CloseLink,
     linkVars
<1>h. chan' \in {"socket", "open", "closed"}
  BY <1>t DEF SenderType, SendOpen, SendMetadata, SendChunk, SendComplete, SendSessionEnd,
     WaitForReceiver, NextBatch, Finish, SenderFails, Reload
<1>w. Len(wire) > 0 => Last \in Message
  BY <1>t, ElementOfSeq DEF LinkType, Last
<1>d. \A f \in 1 .. Len(offered) : offered[f] \in File /\ Data(f) \in Content /\ Len(Data(f)) \in Nat
  <2> SUFFICES ASSUME NEW f \in 1 .. Len(offered)
               PROVE  offered[f] \in File /\ Data(f) \in Content /\ Len(Data(f)) \in Nat
    OBVIOUS
  <2>1. offered[f] \in File
    BY <1>t, ElementOfSeq DEF SenderType
  <2>2. Data(f) \in Content
    BY <2>1 DEF File, Data
  <2>3. Len(Data(f)) \in Nat
    BY <2>2, LenProperties DEF Content
  <2> QED BY <2>1, <2>2, <2>3
<1>c. ASSUME spc = "chunks"
      PROVE  /\ sIdx \in 1 .. Len(offered) /\ Len(wire) > 0
             /\ Last.type \in {"Metadata", "Chunk"} /\ Last.of = sIdx /\ Last.k = sPos
             /\ sPos \in 0 .. Len(Data(sIdx))
  <2>1. /\ sIdx \in 1 .. Len(offered) /\ Len(wire) > 0
        /\ Last.type \in {"Metadata", "Chunk"} /\ Last.of = sIdx /\ Last.k = sPos
    BY <1>t, <1>c DEF SenderInv
  <2>2. MsgOK(Last)
    <3>1. Len(wire) \in 1 .. Len(wire)
      BY <1>t, <2>1
    <3> QED BY <3>1 DEF IInv, WireInv, Last
  <2> QED BY <2>1, <2>2 DEF MsgOK
<1>p. spc \in {"chunks", "end"} => pendingResume = NoResume
  <2> SUFFICES ASSUME spc \in {"chunks", "end"}, OnlyOpen(Len(wire))
               PROVE  FALSE
    BY DEF IInv, ResumeInv
  <2>1. Len(wire) \in 1 .. Len(wire)
    BY <1>t DEF SenderInv
  <2> QED BY <1>t, <2>1 DEF SenderInv, OnlyOpen, Last
<1>l. link' \in {"up", "closed", "lost"}
  BY <1>t DEF LinkType, SendOpen, SendMetadata, SendChunk, SendComplete, SendSessionEnd,
              WaitForReceiver, NextBatch, Finish, SenderFails, Reload, Write, CloseLink, linkVars
<1>1. CASE SendOpen
  <2>1. /\ UNCHANGED <<offered, sIdx>> /\ spc = "open" /\ spc' = "meta"
        /\ UNCHANGED <<session, batches, reloads, batchSize, sPos, ready, pendingResume>>
        /\ Write(Msg("Open", 0, 0)) /\ Msg("Open", 0, 0) \in Message
    BY <1>1 DEF SendOpen, Msg, Message
  <2>2. /\ MsgOK(Msg("Open", 0, 0))'
        /\ \A l \in Message : Follows(l, Msg("Open", 0, 0))' /\ EndsFirst(l, Msg("Open", 0, 0))
        /\ Msg("Open", 0, 0).type = "Open"
    BY DEF MsgOK, Follows, EndsFirst, Msg
  <2>4. /\ WireInv' /\ ResumeInv' /\ LeftoverInv' /\ GapsInv' /\ BodyInv' /\ wire' \in Seq(Message)
        /\ arrives' \in 0 .. Len(wire') /\ rd' \in 0 .. arrives'
        /\ wire'[Len(wire')] = Msg("Open", 0, 0)
    BY <1>t, <1>r, <1>w, <2>1, <2>2, WriteKeeps, SameOffered
  <2>5. SenderInv' /\ SenderType'
    BY <1>t, <1>h, <2>1, <2>2, <2>4 DEF SenderInv, SenderType, Last
  <2> QED BY <1>l, <1>g, <1>rt, <2>4, <2>5 DEF IInv, LinkType
<1>2. CASE SendMetadata
  <2> DEFINE m == Msg("Metadata", sIdx, sPos')
  <2>1. /\ UNCHANGED <<offered, sIdx>> /\ spc = "meta" /\ spc' = "chunks"
        /\ UNCHANGED <<session, batches, reloads, batchSize, ready>>
        /\ Write(m) /\ pendingResume' = NoResume
        /\ sPos' = IF ResumeAccepted(pendingResume, offered[sIdx])
                   THEN Len(pendingResume.prefix) ELSE 0
    BY <1>2 DEF SendMetadata
  <2>2. sIdx \in 1 .. Len(offered) /\ Data(sIdx)' = Data(sIdx) /\ resumeReq' = resumeReq
    BY <1>t, <1>r, <2>1 DEF SenderInv, Data, recvVars
  <2>3. /\ sPos' \in 0 .. Len(Data(sIdx))
        /\ sPos' > 0 => OnlyOpen(Len(wire)) /\ Resumes(resumeReq, m)
    <3>1. CASE ResumeAccepted(pendingResume, offered[sIdx])
      <4>1. /\ pendingResume = resumeReq /\ OnlyOpen(Len(wire)) /\ resumeReq # NoResume
            /\ pendingResume \in ResumeRequests
        BY <1>t, <3>1 DEF IInv, ResumeInv, ResumeAccepted, SenderType
      <4>2. Len(pendingResume.prefix) \in Nat /\ sPos' = Len(pendingResume.prefix)
        <5>1. pendingResume.prefix \in Seq(Chunk)
          BY <4>1 DEF ResumeRequests
        <5> QED BY <2>1, <3>1, <5>1, LenProperties
      <4>3. sPos' <= Len(Data(sIdx))
        BY <3>1, <4>2 DEF ResumeAccepted, Data
      <4>4. m.of = sIdx /\ m.k = sPos'
        BY DEF Msg
      <4>5. Resumes(resumeReq, m)
        BY <3>1, <4>1, <4>2, <4>4 DEF Resumes, ResumeAccepted, Data
      <4> QED BY <1>d, <2>2, <4>1, <4>2, <4>3, <4>5
    <3>2. CASE ~ResumeAccepted(pendingResume, offered[sIdx])
      BY <1>d, <2>1, <2>2, <3>2
    <3> QED BY <3>1, <3>2
  <2>4. m \in Message /\ m.type = "Metadata" /\ m.of = sIdx /\ m.k = sPos'
    BY <1>d, <1>t, <2>2, <2>3 DEF Msg, Message
  <2>5. PICK k \in Nat : sPos' = k
    BY <1>d, <2>2, <2>3
  <2>6. PICK x : x = m
    OBVIOUS
  <2> HIDE DEF m
  <2>7. /\ MsgOK(x)' /\ \A l \in Message : Follows(l, x)'
        /\ Len(wire) > 0 => EndsFirst(Last, x)
        /\ x.type = "Metadata" /\ x.k > 0 => OnlyOpen(Len(wire)) /\ Resumes(resumeReq, x)'
    BY <1>t, <2>1, <2>2, <2>3, <2>4, <2>6 DEF MsgOK, Follows, EndsFirst, Resumes, Data, SenderInv
  <2>8. /\ WireInv' /\ ResumeInv' /\ LeftoverInv' /\ GapsInv' /\ BodyInv'
        /\ wire' \in Seq(Message) /\ Len(wire') = Len(wire) + 1 /\ wire'[Len(wire')] = x
        /\ arrives' \in 0 .. Len(wire') /\ rd' \in 0 .. arrives'
    BY <1>t, <1>r, <1>w, <2>1, <2>4, <2>6, <2>7, WriteKeeps, SameOffered
  <2>9. SenderInv' /\ SenderType'
    BY <1>t, <1>h, <2>1, <2>2, <2>4, <2>5, <2>6, <2>8 DEF SenderInv, SenderType, Last
  <2> QED BY <1>l, <1>g, <1>rt, <2>8, <2>9 DEF IInv, LinkType
<1>3. CASE SendChunk
  <2> DEFINE m == Msg("Chunk", sIdx, sPos')
  <2>1. /\ UNCHANGED <<offered, sIdx>> /\ spc = "chunks" /\ spc' = "chunks"
        /\ UNCHANGED <<session, batches, reloads, batchSize, ready, pendingResume>>
        /\ Write(m) /\ sPos' = sPos + 1 /\ sPos < Len(Data(sIdx))
    BY <1>3 DEF SendChunk
  <2>2. sPos' \in 1 .. Len(Data(sIdx)) /\ Data(sIdx)' = Data(sIdx) /\ sPos' \in Nat
    BY <1>c, <1>d, <2>1 DEF Data
  <2>4. m \in Message /\ m.type = "Chunk" /\ m.of = sIdx /\ m.k = sPos'
    BY <1>c, <1>t, <2>1, <2>2 DEF Msg, Message
  <2>6. PICK x : x = m
    OBVIOUS
  <2> HIDE DEF m
  <2>7. /\ MsgOK(x)' /\ \E l \in Message : l = Last /\ Follows(l, x)' /\ EndsFirst(l, x)
    BY <1>c, <1>w, <2>1, <2>2, <2>4, <2>6 DEF MsgOK, Follows, EndsFirst, Data
  <2>8. /\ WireInv' /\ ResumeInv' /\ LeftoverInv' /\ GapsInv' /\ BodyInv'
        /\ wire' \in Seq(Message) /\ Len(wire') = Len(wire) + 1 /\ wire'[Len(wire')] = x
        /\ arrives' \in 0 .. Len(wire') /\ rd' \in 0 .. arrives'
    <3> QED BY <1>c, <1>p, <1>t, <1>r, <2>1, <2>4, <2>6, <2>7, WriteKeeps, SameOffered
  <2>9. SenderInv' /\ SenderType'
    BY <1>c, <1>h, <1>t, <2>1, <2>2, <2>4, <2>6, <2>8, SMTT(30) DEF SenderInv, SenderType, Last
  <2> QED BY <1>l, <1>g, <1>rt, <2>8, <2>9 DEF IInv, LinkType
<1>4. CASE SendComplete
  <2> DEFINE m == Msg("Complete", sIdx, sPos)
  <2>1. /\ UNCHANGED <<offered, session, batches, reloads, batchSize, ready, pendingResume, sPos>>
        /\ spc = "chunks" /\ spc' = IF sIdx = Len(offered) THEN "end" ELSE "meta"
        /\ Write(m) /\ sPos = Len(Data(sIdx)) /\ sIdx' = sIdx + 1
    BY <1>4 DEF SendComplete
  <2>2. m \in Message /\ m.type = "Complete" /\ m.of = sIdx /\ m.k = sPos
    BY <1>c, <1>t, <2>1 DEF Msg, Message, SenderType
  <2>6. PICK x : x = m
    OBVIOUS
  <2> HIDE DEF m
  <2>7. /\ MsgOK(x)' /\ \E l \in Message : l = Last /\ Follows(l, x)' /\ EndsFirst(l, x)
    BY <1>c, <1>w, <2>1, <2>2, <2>6 DEF MsgOK, Follows, EndsFirst, Data
  <2>8. /\ WireInv' /\ ResumeInv' /\ LeftoverInv' /\ GapsInv' /\ BodyInv' /\ wire' \in Seq(Message)
        /\ Len(wire') = Len(wire) + 1 /\ wire'[Len(wire')] = x
        /\ arrives' \in 0 .. Len(wire') /\ rd' \in 0 .. arrives'
    <3> QED BY <1>c, <1>p, <1>t, <1>r, <2>1, <2>2, <2>6, <2>7, WriteKeeps, SameOffered
  <2>9. SenderInv' /\ SenderType'
    BY <1>c, <1>h, <1>t, <2>1, <2>2, <2>6, <2>8, SMTT(30) DEF SenderInv, SenderType, Last
  <2> QED BY <1>l, <1>g, <1>rt, <2>8, <2>9 DEF IInv, LinkType
<1>5. CASE SendSessionEnd
  <2> DEFINE m == Msg("SessionEnd", Len(offered), batchSize)
  <2>1. /\ UNCHANGED <<offered, sIdx, session, batches, reloads, batchSize, ready, pendingResume, sPos>>
        /\ spc = "end" /\ spc' = "between" /\ Write(m)
    BY <1>5 DEF SendSessionEnd
  <2>2. m \in Message /\ m.type = "SessionEnd" /\ m.of = Len(offered)
    BY <1>t, <2>1 DEF Msg, Message, SenderType
  <2>6. PICK x : x = m
    OBVIOUS
  <2> HIDE DEF m
  <2>7. MsgOK(x)' /\ (\A l \in Message : Follows(l, x)') /\ EndsFirst(Last, x)
    BY <1>t, <2>1, <2>2, <2>6 DEF MsgOK, Follows, EndsFirst, SenderInv
  <2>8. /\ WireInv' /\ ResumeInv' /\ LeftoverInv' /\ GapsInv' /\ BodyInv' /\ wire' \in Seq(Message)
        /\ Len(wire') = Len(wire) + 1 /\ wire'[Len(wire')] = x
        /\ arrives' \in 0 .. Len(wire') /\ rd' \in 0 .. arrives'
    <3> QED BY <1>p, <1>t, <1>r, <1>w, <2>1, <2>2, <2>6, <2>7, WriteKeeps, SameOffered
  <2>9. SenderInv' /\ SenderType'
    BY <1>t, <1>h, <2>1, <2>2, <2>6, <2>8 DEF SenderInv, SenderType, Last
  <2> QED BY <1>l, <1>g, <1>rt, <2>8, <2>9 DEF IInv, LinkType
<1>6. CASE Reload
  <2>1. PICK v \in Versions : Write(Msg("Version", 0, v))
    BY <1>6 DEF Reload
  <2> DEFINE m == Msg("Version", 0, v)
  <2>2. PICK b \in Batches : offered' = offered \o b /\ batchSize' = Len(b)
    BY <1>6 DEF Reload
  <2>3. /\ sIdx' = Len(offered) + 1 /\ sPos' = 0 /\ pendingResume' = NoResume
        /\ reloads' = reloads + 1 /\ ready' = FALSE /\ spc' = "ready"
        /\ UNCHANGED <<session, batches>>
    BY <1>6 DEF Reload
  <2>4. m \in Message /\ m.type = "Version"
    BY BoundAssumption DEF Msg, Message, BoundAssumption
  <2>6. PICK x : x = m
    OBVIOUS
  <2> HIDE DEF m
  <2>7. MsgOK(x)' /\ \A l \in Message : Follows(l, x)' /\ EndsFirst(l, x)
    BY <2>4, <2>6 DEF MsgOK, Follows, EndsFirst
  <2>8. OfferedGrows /\ Len(b) > 0 /\ Len(b) \in Nat /\ Len(offered') = Len(offered) + Len(b)
    BY <1>t, <2>2, BatchAdded
  <2>9. /\ WireInv' /\ ResumeInv' /\ LeftoverInv' /\ GapsInv' /\ BodyInv' /\ wire' \in Seq(Message)
        /\ arrives' \in 0 .. Len(wire') /\ rd' \in 0 .. arrives'
    BY <1>t, <1>r, <1>w, <2>1, <2>3, <2>4, <2>6, <2>7, <2>8, WriteKeeps DEF m
  <2>10. SenderType'
    <3>1. ready' \in BOOLEAN /\ spc' = "ready" /\ pendingResume' \in ResumeRequests \cup {NoResume}
      BY <2>3
    <3>2. /\ session' \in Nat /\ batches' \in Nat /\ reloads' \in Nat /\ batchSize' \in Nat
          /\ sIdx' \in Nat /\ sPos' \in Nat
      BY <1>t, <2>2, <2>3, <2>8 DEF SenderType
    <3> QED BY <1>h, <2>8, <3>1, <3>2 DEF SenderType, OfferedGrows
  <2>11. SenderInv'
    BY <1>t, <2>3, <2>8 DEF SenderInv
  <2> QED BY <1>l, <1>g, <1>rt, <2>9, <2>10, <2>11 DEF IInv, LinkType
<1>7. CASE WaitForReceiver \/ Finish \/ SenderFails \/ NextBatch
  <2>1. UNCHANGED <<wire, gaps, pendingResume, session, reloads, sIdx, sPos>> /\ arrives' = arrives
    BY <1>7 DEF WaitForReceiver, Finish, SenderFails, NextBatch, CloseLink, linkVars
  <2>2. OfferedGrows /\ SenderType' /\ SenderInv'
    <3>1. CASE NextBatch
      <4>1. PICK b \in Batches : offered' = offered \o b /\ batchSize' = Len(b)
        BY <3>1 DEF NextBatch
      <4>2. OfferedGrows /\ Len(b) > 0 /\ Len(b) \in Nat /\ Len(offered') = Len(offered) + Len(b)
        BY <1>t, <4>1, BatchAdded
      <4>3. spc = "between" /\ spc' = "meta" /\ batches' = batches + 1 /\ UNCHANGED ready
        BY <3>1 DEF NextBatch
      <4> QED BY <1>t, <1>h, <2>1, <4>1, <4>2, <4>3, SMTT(30) DEF SenderType, SenderInv, OfferedGrows, Last
    <3>2. CASE WaitForReceiver \/ Finish \/ SenderFails
      <4>1. /\ UNCHANGED <<offered, batchSize, batches>> /\ ready' \in {ready, FALSE}
            /\ \/ spc' \in {"done", "failed"}
               \/ spc = "ready" /\ spc' = "open"
        BY <3>2 DEF WaitForReceiver, Finish, SenderFails
      <4> QED BY <1>t, <1>h, <2>1, <4>1, SameOffered DEF SenderType, SenderInv
    <3> QED BY <1>7, <3>1, <3>2
  <2>3. WireInv' /\ ResumeInv' /\ LeftoverInv' /\ GapsInv' /\ BodyInv'
    BY <1>r, <2>1, <2>2, QuietSender
  <2>4. LinkType'
    BY <1>t, <1>l, <1>g, <1>r, <2>1 DEF LinkType, recvVars
  <2> QED BY <1>rt, <2>2, <2>3, <2>4 DEF IInv
<1> QED BY <1>1, <1>2, <1>3, <1>4, <1>5, <1>6, <1>7

-----------------------------------------------------------------------------
(* A session starts, its receiver perhaps with a partial file cut down.     *)

LEMMA StartIInv ==
  ASSUME IInv, StartSession
  PROVE  IInv'
<1>t. TypeOK /\ SenderType /\ ReceiverType /\ IsDisk(fs)
  BY TypeParts DEF IInv, ReceiverType
<1>1. PICK b \in Batches, negotiates \in BOOLEAN :
         /\ offered' = b /\ batchSize' = Len(b)
         /\ spc' = IF negotiates THEN "open" ELSE "meta"
  BY DEF StartSession
<1>2. b \in Seq(File) /\ Len(b) \in Nat \ {0}
  BY DataAssumption, EmptySeq DEF DataAssumption
<1>3. /\ session' = session + 1 /\ pendingResume' = resumeReq' /\ stay' \in BOOLEAN
      /\ batches' = 1 /\ sIdx' = 1 /\ sPos' = 0 /\ reloads' = 0
      /\ wire' = << >> /\ arrives' = 0 /\ link' = "up" /\ ready' = FALSE
      /\ rpc' = "first" /\ rd' = 0 /\ batchIdx' = 0 /\ cur' = NoFile
      /\ paths' = << >> /\ claimed' = {} /\ chan' = "socket" /\ gaps' = {}
  BY DEF StartSession
<1>4. /\ wire' \in Seq(Message) /\ Len(wire') = 0 /\ paths' \in Seq(Entry)
  BY <1>3, EmptySeq
<1>5. /\ IsDisk(fs') /\ resumeReq' \in ResumeRequests \cup {NoResume}
      /\ resumeReq' # NoResume =>
            /\ {p \in DOMAIN fs' : p.part > 0} = {PartPath(resumeReq'.name)}
            /\ fs'[PartPath(resumeReq'.name)] = resumeReq'.prefix
  <2>1. CASE resumeReq' = NoResume /\ UNCHANGED fs
    BY <1>t, <2>1
  <2>2. ASSUME NEW p \in ResumeCandidates, resumeReq' = ResumeRequest(p), fs' = Truncated(p)
        PROVE  /\ IsDisk(fs') /\ resumeReq' \in ResumeRequests
               /\ {q \in DOMAIN fs' : q.part > 0} = {PartPath(resumeReq'.name)}
               /\ fs'[PartPath(resumeReq'.name)] = resumeReq'.prefix
    <3>1. p \in DOMAIN fs /\ p \in Path /\ fs[p] \in Bytes /\ p.part > 0 /\ Leftovers = {p}
      BY <1>t DEF ResumeCandidates, Leftovers, IsDisk
    <3>2. WholeChunks(fs[p]) \in Seq(Chunk) /\ WholeChunks(fs[p]) \in Bytes
      BY <3>1, WholeChunksType
    <3>3. /\ resumeReq'.name = [p EXCEPT !.part = @ - 1] /\ resumeReq'.prefix = WholeChunks(fs[p])
          /\ resumeReq' = [name |-> [p EXCEPT !.part = @ - 1], prefix |-> WholeChunks(fs[p])]
      BY <2>2 DEF ResumeRequest
    <3>4. resumeReq'.name \in Path /\ PartPath(resumeReq'.name) = p
      BY <3>1, <3>3, PathFacts
    <3>5. IsDisk(fs') /\ DOMAIN fs' = DOMAIN fs /\ fs'[p] = WholeChunks(fs[p])
      <4> DEFINE c == WholeChunks(fs[p])
      <4>1. fs' = Put(p, c)
        BY <2>2 DEF Truncated
      <4> HIDE DEF c
      <4>2. IsDisk(Put(p, c)) /\ DOMAIN Put(p, c) = DOMAIN fs \cup {p} /\ Put(p, c)[p] = c
        <5>1. IsDisk(fs) /\ p \in Path /\ c \in Bytes
          BY <1>t, <3>1, <3>2 DEF c
        <5> QED BY <5>1, PutFacts, Zenon
      <4>3. DOMAIN fs \cup {p} = DOMAIN fs
        BY <3>1
      <4> QED BY <4>1, <4>2, <4>3 DEF c
    <3>6. resumeReq' \in ResumeRequests
      BY <3>2, <3>3, <3>4 DEF ResumeRequests
    <3> QED BY <3>1, <3>3, <3>4, <3>5, <3>6 DEF Leftovers
  <2> QED BY <2>1, <2>2 DEF StartSession
<1>6. SenderType' /\ LinkType' /\ ReceiverType'
  <2>1. arrives' \in 0 .. Len(wire') /\ rd' \in 0 .. arrives'
    BY <1>3, <1>4
  <2>2. session' \in Nat
    BY <1>t, <1>3 DEF SenderType
  <2>3. SenderType'
    BY <1>1, <1>2, <1>3, <1>5, <2>2 DEF SenderType
  <2>4. cur' \in [dest : Path, of : Nat] \cup {NoFile}
    BY <1>3
  <2> QED BY <1>3, <1>4, <1>5, <2>1, <2>3, <2>4 DEF LinkType, ReceiverType
<1>7. SenderInv' /\ WireInv' /\ GapsInv' /\ BodyInv'
  BY <1>1, <1>2, <1>3, <1>4 DEF SenderInv, WireInv, GapsInv, BodyInv
<1>8. ResumeInv' /\ LeftoverInv'
  BY <1>3, <1>4, <1>5 DEF ResumeInv, OnlyOpen, LeftoverInv, Leftovers
<1> QED BY <1>6, <1>7, <1>8, TypePartsNext DEF IInv

-----------------------------------------------------------------------------
(* The receiver's steps, and the loss of the connection.                    *)

(* What the next message is, for a receiver that reads it.                  *)
LEMMA NextRead ==
  ASSUME IInv, rd < arrives
  PROVE  /\ rd + 1 \in 1 .. Len(wire) /\ Next_ \in Message /\ MsgOK(Next_)
         /\ Next_.type \in {"Metadata", "Chunk", "Complete"} =>
               /\ offered[Next_.of] \in File /\ Data(Next_.of) \in Content
               /\ offered[Next_.of].name \in Path
         /\ rd > 0 => Follows(wire[rd], Next_) /\ EndsFirst(wire[rd], Next_)
         /\ rd \in Nat /\ Len(wire) \in Nat /\ rd + 1 \in 0 .. arrives
<1>1. wire \in Seq(Message) /\ arrives \in 0 .. Len(wire) /\ rd \in 0 .. arrives /\ offered \in Seq(File)
  BY DEF IInv, TypeOK
<1>2. Len(wire) \in Nat
  BY <1>1, LenProperties
<1>3. rd + 1 \in 1 .. Len(wire) /\ rd \in Nat /\ rd + 1 \in 0 .. arrives
  BY <1>1, <1>2
<1>4. Next_ \in Message /\ MsgOK(Next_)
  BY <1>1, <1>3, ElementOfSeq DEF Next_, IInv, WireInv
<1>5. ASSUME Next_.type \in {"Metadata", "Chunk", "Complete"}
      PROVE  /\ offered[Next_.of] \in File /\ Data(Next_.of) \in Content
             /\ offered[Next_.of].name \in Path
  <2>1. Next_.of \in 1 .. Len(offered)
    BY <1>4, <1>5 DEF MsgOK
  <2>2. offered[Next_.of] \in File
    BY <1>1, <2>1, ElementOfSeq
  <2> QED BY <2>2 DEF File, Data
<1>6. ASSUME rd > 0
      PROVE  Follows(wire[rd], Next_) /\ EndsFirst(wire[rd], Next_)
  <2>1. rd + 1 \in 2 .. Len(wire) /\ (rd + 1) - 1 = rd
    BY <1>3, <1>6
  <2> QED BY <2>1 DEF IInv, WireInv, Next_
<1> QED BY <1>2, <1>3, <1>4, <1>5, <1>6

LEMMA ReceiverKeeps ==
  ASSUME IInv, UNCHANGED <<wire, senderVars, resumeReq>>
  PROVE  WireInv' /\ SenderInv' /\ ResumeInv'
<1>1. UNCHANGED <<offered, spc, sIdx, sPos, pendingResume>>
  BY DEF senderVars
<1> QED
  BY <1>1 DEF IInv, WireInv, MsgOK, Follows, EndsFirst, Data, SenderInv, Last, ResumeInv, OnlyOpen,
              Resumes

LEMMA SameCut == UNCHANGED <<wire, gaps>> => Cut' = Cut /\ (GapsInv => GapsInv')
BY DEF Cut, GapsInv

(* A message that is not an Open ends the obligation about leftovers.       *)
LEMMA LeftoverOver ==
  ASSUME IInv, UNCHANGED wire, rd < arrives, rd' = rd + 1, Next_.type # "Open"
  PROVE  LeftoverInv'
<1>1. rd' \in 1 .. rd' /\ wire'[rd'].type # "Open"
  BY NextRead DEF Next_
<1>2. ~ OnlyOpen(rd)'
  BY <1>1 DEF OnlyOpen
<1> QED BY <1>2 DEF LeftoverInv

(* The receiver's process is over.                                          *)
LEMMA ReceiverOver ==
  ASSUME IInv, UNCHANGED <<senderVars, resumeReq, session, stay>>, ready' \in {ready, TRUE},
         rd' = rd \/ (rd' = rd + 1 /\ rd < arrives),
         \/ Leave("ok")
         \/ Leave("err"),
         IsDisk(fs'), batchIdx' \in Nat, cur' \in [dest : Path, of : Nat] \cup {NoFile},
         paths' \in Seq(Entry), claimed' \in SUBSET Entry
  PROVE  IInv'
<1>1. /\ UNCHANGED <<wire, gaps>> /\ rpc' \in {"ok", "err"} /\ link' = "lost" /\ arrives' = rd'
  BY DEF Leave
<1>2. WireInv' /\ SenderInv' /\ ResumeInv' /\ LeftoverInv' /\ GapsInv' /\ BodyInv'
  BY <1>1, ReceiverKeeps, SameCut DEF IInv, LeftoverInv, ReceiverDone, BodyInv
<1>3. /\ wire \in Seq(Message) /\ arrives \in 0 .. Len(wire) /\ rd \in 0 .. arrives
      /\ Len(wire) \in Nat /\ gaps \subseteq 1 .. rd
  BY LenProperties DEF IInv, TypeOK
<1>4. LinkType'
  <2>1. arrives' \in 0 .. Len(wire') /\ rd' \in 0 .. arrives' /\ 1 .. rd \subseteq 1 .. rd'
    BY <1>1, <1>3, SMT
  <2> QED BY <1>1, <1>3, <2>1 DEF LinkType
<1>5. SenderType'
  BY TypeParts DEF IInv, SenderType, senderVars
<1>6. ReceiverType'
  BY <1>1, TypeParts DEF IInv, ReceiverType
<1> QED BY <1>2, <1>4, <1>5, <1>6, TypePartsNext DEF IInv

(* It goes on.                                                              *)
LEMMA ReceiverGoesOn ==
  ASSUME IInv, UNCHANGED <<session, senderVars, linkVars, resumeReq>>, ready' \in {ready, TRUE},
         rd < arrives, rd' = rd + 1, LeftoverInv', BodyInv', ReceiverType'
  PROVE  IInv'
<1>1. WireInv' /\ SenderInv' /\ ResumeInv' /\ GapsInv'
  BY ReceiverKeeps, SameCut DEF IInv, linkVars
<1>2. LinkType'
  BY NextRead, TypeParts DEF IInv, LinkType, linkVars
<1>3. SenderType'
  BY TypeParts DEF IInv, SenderType, senderVars
<1> QED BY <1>1, <1>2, <1>3, TypePartsNext DEF IInv

(* Finished files are entries.                                              *)
LEMMA ReportType ==
  ASSUME TypeOK, Report
  PROVE  batchIdx' \in Nat /\ paths' \in Seq(Entry) /\ claimed' \in SUBSET Entry
<1>1. batchIdx \in Nat /\ paths \in Seq(Entry) /\ claimed \in SUBSET Entry
  BY DEF TypeOK
<1>2. \A i \in 1 .. Len(paths) : paths[i] \in Entry
  BY <1>1, ElementOfSeq
<1> QED BY <1>1, <1>2, EmptySeq DEF Report

LEMMA MetadataIInv == IInv /\ ReadMetadata => IInv'
<1> SUFFICES ASSUME IInv, ReadMetadata
             PROVE  IInv'
  OBVIOUS
<1> DEFINE m == Next_
<1>1. /\ rd < arrives /\ m.type = "Metadata" /\ rd' = rd + 1 /\ ~ReceiverDone
      /\ UNCHANGED <<session, senderVars, ready, stay, batchIdx, resumeReq, paths, claimed>>
  BY DEF ReadMetadata, Read, Next_, ReceiverDone
<1>2. PICK n \in 0 .. MaxCopy :
         LET p == [offered[m.of].name EXCEPT !.n = n]
         IN  /\ UniquePath(offered[m.of].name, p)
             /\ cur' = [dest |-> p, of |-> m.of]
             /\ \/ /\ Resuming(m) /\ PartPath(p) \in DOMAIN fs
                   /\ rpc' = "body"
                   /\ UNCHANGED <<fs, linkVars>>
                \/ /\ Resuming(m) /\ PartPath(p) \notin DOMAIN fs
                   /\ Leave("err")
                   /\ UNCHANGED fs
                \/ /\ ~Resuming(m)
                   /\ rpc' = "body"
                   /\ fs' = FreshPart(PartPath(p))
                   /\ UNCHANGED linkVars
  BY DEF ReadMetadata
<1> DEFINE p == [offered[m.of].name EXCEPT !.n = n]
<1>3. /\ rd + 1 \in 1 .. Len(wire) /\ m \in Message /\ m = wire[rd + 1]
      /\ m.of \in 1 .. Len(offered) /\ m.k \in 0 .. Len(Data(m.of)) /\ m.of \in Nat
      /\ Data(m.of) \in Content /\ offered[m.of].name \in Path /\ rd \in Nat
  BY <1>1, NextRead DEF MsgOK, Message, Next_
<1>4. p \in Path /\ p.n = n /\ PartPath(p) \in Path /\ PartPath(p).part > 0 /\ p # PartPath(p)
  <2>1. n \in Nat
    BY BoundAssumption DEF BoundAssumption
  <2>2. p \in Path /\ p.n = n
    BY <1>3, <2>1, PathFacts
  <2> HIDE DEF p
  <2>3. /\ PartPath(p) \in Path /\ PartPath(p).part = p.part + 1 /\ p # PartPath(p)
        /\ p.part \in Nat
    BY <2>2, PathFacts
  <2> QED BY <2>2, <2>3
<1>5. /\ cur' = [dest |-> p, of |-> m.of] /\ p \notin DOMAIN fs
      /\ p = [offered[m.of].name EXCEPT !.n = p.n]
  BY <1>2, <1>4 DEF UniquePath
<1>t. TypeOK /\ ReceiverType /\ IsDisk(fs)
  BY TypeParts DEF IInv, ReceiverType
<1> HIDE DEF p
<1>6. cur' \in [dest : Path, of : 1 .. Len(offered)] /\ cur' \in [dest : Path, of : Nat] \cup {NoFile}
  BY <1>3, <1>4, <1>5
<1>7. LeftoverInv' \/ Leave("err")
  BY <1>1, <1>2, LeftoverOver DEF linkVars
<1>8. CASE Leave("err") /\ UNCHANGED fs
  BY <1>1, <1>6, <1>8, <1>t, ReceiverOver DEF ReceiverType
<1>9. ASSUME UNCHANGED linkVars, rpc' = "body", IsDisk(fs'), p \notin DOMAIN fs',
             PartPath(p) \in DOMAIN fs', fs'[PartPath(p)] = SubSeq(Data(m.of), 1, m.k)
      PROVE  IInv'
  <2>1. UNCHANGED <<wire, offered>>
    BY <1>1, <1>9 DEF linkVars, senderVars
  <2>2. wire'[rd'] = m /\ rd' > 0
    BY <1>1, <1>3, <2>1
  <2>3. BodyInv'
    BY <1>1, <1>5, <1>6, <1>9, <2>1, <2>2 DEF BodyInv, InStep, Data
  <2>4. LeftoverInv'
    BY <1>1, <2>1, LeftoverOver
  <2>5. ReceiverType'
    BY <1>1, <1>6, <1>9, <1>t DEF ReceiverType
  <2> QED BY <1>1, <1>9, <2>3, <2>4, <2>5, ReceiverGoesOn
<1>10. CASE /\ Resuming(m) /\ PartPath(p) \in DOMAIN fs
            /\ rpc' = "body" /\ UNCHANGED <<fs, linkVars>>
  <2>1. OnlyOpen(rd) /\ Resumes(resumeReq, m)
    <3>1. wire[rd + 1].type = "Metadata" /\ wire[rd + 1].k > 0 /\ (rd + 1) - 1 = rd
      BY <1>1, <1>3, <1>10 DEF Resuming
    <3> QED BY <1>3, <3>1 DEF IInv, ResumeInv
  <2>2. PartPath(p) \in Leftovers
    BY <1>4, <1>10 DEF Leftovers
  <2>3. resumeReq # NoResume /\ ~ReceiverDone
    BY <1>1, <1>10 DEF Resuming, ReceiverDone
  <2>4. fs[PartPath(p)] = resumeReq.prefix
    BY <2>1, <2>2, <2>3 DEF IInv, LeftoverInv
  <2> QED BY <1>5, <1>9, <1>10, <1>t, <2>1, <2>4 DEF Resumes
<1>11. CASE ~Resuming(m) /\ rpc' = "body" /\ fs' = FreshPart(PartPath(p)) /\ UNCHANGED linkVars
  <2>1. m.k = 0
    <3> SUFFICES ASSUME m.k > 0 PROVE FALSE
      BY <1>3
    <3>1. Resumes(resumeReq, m)
      BY <1>1, <1>3 DEF IInv, ResumeInv
    <3> QED BY <1>11, <3>1 DEF Resumes, Resuming
  <2>2. << >> = SubSeq(Data(m.of), 1, m.k) /\ << >> \in Bytes
    <3>1. Len(Data(m.of)) \in Nat
      BY <1>3, LenProperties DEF Content
    <3>2. SubSeq(Data(m.of), 1, m.k) \in Content
      BY <1>3, ContentPrefix
    <3>3. SubSeq(Data(m.of), 1, 0) = << >>
      BY SubSeqEmpty
    <3> QED BY <2>1, <3>2, <3>3, BytesFacts
  <2>3. /\ IsDisk(fs') /\ DOMAIN fs' = DOMAIN fs \cup {PartPath(p)} /\ fs'[PartPath(p)] = << >>
    BY <1>4, <1>11, <1>t, <2>2, PutFacts DEF FreshPart
  <2> QED BY <1>4, <1>5, <1>9, <1>11, <2>2, <2>3
<1> QED BY <1>2, <1>8, <1>10, <1>11 DEF p

(* A chunk goes to the end of the partial file, which stays a prefix of the *)
(* file it belongs to unless something of that file was dropped.            *)
LEMMA ChunkAppended ==
  ASSUME IInv, rpc = "body", rd < arrives, Next_.type = "Chunk"
  PROVE  LET part == PartPath(cur.dest)
             c == Append(fs[part], Data(Next_.of)[Next_.k])
         IN  /\ c \in Bytes
             /\ cur.of \notin Cut => Next_.of = cur.of /\ c = SubSeq(Data(cur.of), 1, Next_.k)
<1> DEFINE m == Next_
           part == PartPath(cur.dest)
           k == wire[rd].k
           c == Append(fs[part], Data(m.of)[m.k])
<1>1. BodyInv /\ WireInv /\ IsDisk(fs)
  BY TypeParts DEF IInv, ReceiverType
<1>2. /\ m = wire[rd + 1] /\ rd \in Nat /\ Data(m.of) \in Content /\ MsgOK(m)
      /\ rd > 0 => Follows(wire[rd], m)
      /\ rd + 1 \in 1 .. Len(wire) /\ Len(wire) \in Nat
  BY NextRead DEF Next_
<1>3. m.k \in 1 .. Len(Data(m.of)) /\ Len(Data(m.of)) \in Nat
  <2>1. m.k \in 0 .. Len(Data(m.of)) /\ m.k # 0
    BY <1>2 DEF MsgOK
  <2>2. Len(Data(m.of)) \in Nat
    BY <1>2, LenProperties DEF Content
  <2> HIDE DEF m
  <2> QED BY <2>1, <2>2
<1>4. c \in Bytes
  <2>1. Data(m.of)[m.k] \in Chunk \cup Tail_
    <3>1. Data(m.of) \in Seq(Chunk \cup Tail_)
      BY <1>2 DEF Content
    <3> HIDE DEF m
    <3> QED BY <1>3, <3>1, ElementOfSeq, Zenon
  <2>2. fs[part] \in Bytes
    BY <1>1 DEF BodyInv, IsDisk
  <2> HIDE DEF m, part
  <2> QED BY <2>1, <2>2, BytesFacts, Zenon
<1>5. ASSUME cur.of \notin Cut
      PROVE  m.of = cur.of /\ c = SubSeq(Data(cur.of), 1, m.k)
  <2>1. InStep
    BY <1>1, <1>5 DEF BodyInv
  <2>2. m.of = cur.of /\ m.k = k + 1
    BY <1>2, <2>1 DEF InStep, Follows
  <2>3. k \in 0 .. Len(Data(m.of)) /\ k < Len(Data(m.of))
    <3>1. rd \in 1 .. Len(wire)
      BY <1>2, <2>1 DEF InStep
    <3>2. MsgOK(wire[rd])
      BY <1>1, <3>1 DEF WireInv
    <3>3. k \in 0 .. Len(Data(m.of))
      BY <2>1, <2>2, <3>2 DEF MsgOK, InStep
    <3> HIDE DEF m, k
    <3> QED BY <1>3, <2>2, <3>3
  <2>4. fs[part] = SubSeq(Data(m.of), 1, k)
    BY <2>1, <2>2 DEF InStep
  <2>5. Append(SubSeq(Data(m.of), 1, k), Data(m.of)[k + 1]) = SubSeq(Data(m.of), 1, k + 1)
    BY <1>2, <2>3, ContentPrefix
  <2> HIDE DEF m, part, k
  <2> QED BY <2>2, <2>4, <2>5
<1> QED BY <1>4, <1>5, Zenon

LEMMA ChunkIInv == IInv /\ ReadChunk => IInv'
<1> SUFFICES ASSUME IInv, ReadChunk
             PROVE  IInv'
  OBVIOUS
<1> DEFINE part == PartPath(cur.dest)
           c == Append(fs[part], Data(Next_.of)[Next_.k])
<1>1. /\ rpc = "body" /\ rd < arrives /\ Next_.type = "Chunk" /\ rd' = rd + 1
      /\ fs' = Put(part, c)
      /\ UNCHANGED <<session, senderVars, linkVars, ready, rpc, stay, batchIdx, resumeReq,
                     cur, paths, claimed>>
  BY DEF ReadChunk, Read, Next_
<1>2. UNCHANGED <<wire, offered, gaps>>
  BY <1>1 DEF linkVars, senderVars
<1>3. BodyInv /\ ReceiverType /\ IsDisk(fs)
  BY TypeParts DEF IInv, ReceiverType
<1>4. c \in Bytes /\ (cur.of \notin Cut => Next_.of = cur.of /\ c = SubSeq(Data(cur.of), 1, Next_.k))
  BY <1>1, ChunkAppended, Zenon
<1>5. /\ cur.dest \in Path /\ part \in Path /\ part # cur.dest /\ part \in DOMAIN fs
      /\ cur.dest \notin DOMAIN fs
  BY <1>1, <1>3, PathFacts DEF BodyInv
<1>6. IsDisk(fs') /\ DOMAIN fs' = DOMAIN fs /\ fs'[part] = c
  <2> HIDE DEF part, c
  <2>1. IsDisk(Put(part, c)) /\ DOMAIN Put(part, c) = DOMAIN fs \cup {part} /\ Put(part, c)[part] = c
    BY <1>3, <1>4, <1>5, PutFacts, Zenon
  <2>2. fs' = Put(part, c)
    BY <1>1
  <2>3. DOMAIN fs \cup {part} = DOMAIN fs
    BY <1>5
  <2> QED BY <2>1, <2>2, <2>3, Zenon
<1>7. BodyInv'
  <2>1. wire'[rd'] = Next_ /\ rd' > 0 /\ Cut' = Cut
    BY <1>1, <1>2, NextRead, SameCut DEF Next_
  <2>2. cur.of \notin Cut => InStep'
    BY <1>1, <1>2, <1>4, <1>6, <2>1 DEF InStep, Data
  <2> QED BY <1>1, <1>2, <1>3, <1>5, <1>6, <2>1, <2>2 DEF BodyInv
<1>8. LeftoverInv'
  BY <1>1, <1>2, LeftoverOver
<1>9. ReceiverType'
  BY <1>1, <1>3, <1>6 DEF ReceiverType
<1> QED BY <1>1, <1>7, <1>8, <1>9, ReceiverGoesOn

LEMMA CompleteIInv == IInv /\ ReadComplete => IInv'
<1> SUFFICES ASSUME IInv, ReadComplete
             PROVE  IInv'
  OBVIOUS
<1>1. /\ rpc = "body" /\ rd < arrives /\ Next_.type = "Complete" /\ rd' = rd + 1
      /\ fs' = Renamed /\ paths' = Append(paths, Saved) /\ rpc' = "peek"
      /\ UNCHANGED <<session, senderVars, linkVars, ready, stay, batchIdx, resumeReq, cur,
                     claimed>>
  BY DEF ReadComplete, Read, Next_
<1>2. BodyInv /\ TypeOK /\ ReceiverType /\ IsDisk(fs)
  BY TypeParts DEF IInv, ReceiverType
<1>3. Saved \in Entry
  <2>1. cur \in [dest : Path, of : Nat]
    BY <1>1, <1>2 DEF BodyInv
  <2> QED BY <2>1 DEF Saved, Entry
<1>4. ReceiverType'
  <2>1. paths' \in Seq(Entry)
    BY <1>1, <1>2, <1>3, AppendProperties DEF ReceiverType
  <2>2. IsDisk(fs')
    BY <1>1, <1>2, RenamedFacts DEF BodyInv
  <2> QED BY <1>1, <1>2, <2>1, <2>2 DEF ReceiverType
<1>5. BodyInv'
  BY <1>1 DEF BodyInv
<1>6. LeftoverInv'
  BY <1>1, LeftoverOver DEF linkVars
<1> QED BY <1>1, <1>4, <1>5, <1>6, ReceiverGoesOn

LEMMA SessionEndIInv == IInv /\ ReadSessionEnd => IInv'
<1> SUFFICES ASSUME IInv, ReadSessionEnd
             PROVE  IInv'
  OBVIOUS
<1>1. /\ rd < arrives /\ Next_.type = "SessionEnd" /\ rd' = rd + 1 /\ Report
      /\ UNCHANGED <<session, senderVars, ready, fs, stay, resumeReq, cur>>
      /\ \/ rpc' = "idle" /\ UNCHANGED linkVars
         \/ Leave("ok")
  BY DEF ReadSessionEnd, Read, Next_
<1>2. TypeOK /\ ReceiverType
  BY TypeParts DEF IInv
<1>3. batchIdx' \in Nat /\ paths' \in Seq(Entry) /\ claimed' \in SUBSET Entry
  BY <1>1, <1>2, ReportType
<1>4. CASE Leave("ok")
  BY <1>1, <1>2, <1>3, <1>4, ReceiverOver DEF ReceiverType
<1>5. CASE rpc' = "idle" /\ UNCHANGED linkVars
  <2>1. LeftoverInv'
    BY <1>1, <1>5, LeftoverOver DEF linkVars
  <2>2. BodyInv'
    BY <1>5 DEF BodyInv
  <2>3. ReceiverType'
    BY <1>1, <1>2, <1>3, <1>5 DEF ReceiverType
  <2> QED BY <1>1, <1>5, <2>1, <2>2, <2>3, ReceiverGoesOn
<1> QED BY <1>1, <1>4, <1>5

LEMMA VersionIInv == IInv /\ ReadVersion => IInv'
<1> SUFFICES ASSUME IInv, ReadVersion
             PROVE  IInv'
  OBVIOUS
<1>1. /\ rd < arrives /\ Next_.type = "Version" /\ rd' = rd + 1 /\ DiscardPart
      /\ UNCHANGED <<session, senderVars, stay, resumeReq, cur>>
      /\ \/ ready' = TRUE /\ rpc' = "first" /\ EndBatch /\ UNCHANGED linkVars
         \/ Leave("err") /\ UNCHANGED <<ready, paths, batchIdx, claimed>>
  BY DEF ReadVersion, Read, Next_
<1>2. TypeOK /\ ReceiverType /\ IsDisk(fs)
  BY TypeParts DEF IInv, ReceiverType
<1>3. batchIdx' \in Nat /\ paths' \in Seq(Entry) /\ claimed' \in SUBSET Entry
  BY <1>1, <1>2, ReportType, EmptySeq DEF EndBatch, ReceiverType
<1>4. IsDisk(fs')
  BY <1>1, <1>2, WithoutFacts DEF DiscardPart
<1>5. CASE Leave("err") /\ UNCHANGED <<ready, paths, batchIdx, claimed>>
  BY <1>1, <1>2, <1>3, <1>4, <1>5, ReceiverOver DEF ReceiverType
<1>6. CASE ready' = TRUE /\ rpc' = "first" /\ UNCHANGED linkVars
  <2>1. LeftoverInv'
    BY <1>1, <1>6, LeftoverOver DEF linkVars
  <2>2. BodyInv'
    BY <1>6 DEF BodyInv
  <2>3. ReceiverType'
    BY <1>1, <1>2, <1>3, <1>4, <1>6 DEF ReceiverType
  <2> QED BY <1>1, <1>6, <2>1, <2>2, <2>3, ReceiverGoesOn
<1> QED BY <1>1, <1>5, <1>6

LEMMA OpenIInv == IInv /\ ReadOpen => IInv'
<1> SUFFICES ASSUME IInv, ReadOpen
             PROVE  IInv'
  OBVIOUS
<1>1. /\ rd < arrives /\ rd' = rd + 1 /\ rpc = "first" /\ rpc' \in {"idle", "recv"}
      /\ UNCHANGED <<session, senderVars, linkVars, ready, fs, stay, batchIdx, resumeReq,
                     cur, paths, claimed>>
  BY DEF ReadOpen, Read, Next_
<1>2. TypeOK /\ ReceiverType
  BY TypeParts DEF IInv
<1>3. LeftoverInv'
  <2>1. OnlyOpen(rd)' => OnlyOpen(rd)
    <3>1. rd \in Nat /\ \A i \in 1 .. rd : i \in 1 .. rd + 1
      BY <1>1, NextRead
    <3> QED BY <1>1, <3>1 DEF OnlyOpen, linkVars
  <2> QED BY <1>1, <2>1 DEF IInv, LeftoverInv, ReceiverDone, Leftovers
<1>4. BodyInv'
  BY <1>1 DEF BodyInv
<1>5. ReceiverType'
  BY <1>1, <1>2 DEF ReceiverType
<1> QED BY <1>1, <1>3, <1>4, <1>5, ReceiverGoesOn

(* The connection ends for the receiver, its patience does, or it dies.     *)
LEMMA EndIInv ==
  ASSUME IInv, ReadEnd \/ ReadTimeout \/ ReceiverDies
  PROVE  IInv'
<1>1. /\ UNCHANGED <<session, senderVars, ready, stay, resumeReq, cur, rd>>
      /\ Leave("ok") \/ Leave("err")
  BY DEF ReadEnd, ReadTimeout, ReceiverDies
<1>2. TypeOK /\ ReceiverType /\ IsDisk(fs)
  BY TypeParts DEF IInv, ReceiverType
<1>3. batchIdx' \in Nat /\ paths' \in Seq(Entry) /\ claimed' \in SUBSET Entry
  BY <1>2, ReportType DEF ReadEnd, ReadTimeout, ReceiverDies, ReceiverType
<1>4. IsDisk(fs')
  <2>1. CASE fs' = fs
    BY <1>2, <2>1
  <2>2. ASSUME rpc = "body", rd < arrives, Next_.type = "Chunk",
               NEW t \in Tail_, fs' = Put(PartPath(cur.dest), Append(fs[PartPath(cur.dest)], t))
        PROVE  IsDisk(fs')
    <3>1. cur.dest \in Path /\ fs[PartPath(cur.dest)] \in Bytes
      BY <1>2, <2>2 DEF IInv, BodyInv, IsDisk
    <3>2. Append(fs[PartPath(cur.dest)], t) \in Bytes
      BY <3>1, BytesFacts
    <3>3. PartPath(cur.dest) \in Path
      BY <3>1, PathFacts
    <3>4. IsDisk(Put(PartPath(cur.dest), Append(fs[PartPath(cur.dest)], t)))
      BY <1>2, <3>2, <3>3, PutFacts, Zenon
    <3> QED BY <2>2, <3>4, Zenon
  <2> QED BY <2>1, <2>2 DEF ReadEnd, ReadTimeout, ReceiverDies
<1>5. CASE Leave("ok")
  BY <1>1, <1>2, <1>3, <1>4, <1>5, ReceiverOver DEF ReceiverType
<1>6. CASE Leave("err")
  BY <1>1, <1>2, <1>3, <1>4, <1>6, ReceiverOver DEF ReceiverType
<1> QED BY <1>1, <1>5, <1>6

(* What is on its way is lost, on either transport.                         *)
LEMMA LossIInv == IInv /\ (LinkLost \/ PeerCloses) => IInv'
<1> SUFFICES ASSUME IInv, LinkLost \/ PeerCloses
             PROVE  IInv'
  OBVIOUS
<1>1. /\ link' = "lost" /\ arrives' \in rd .. arrives /\ chan' \in {chan, "closed"}
      /\ UNCHANGED <<session, offered, batchSize, batches, spc, sIdx, sPos, pendingResume,
                     reloads, wire, gaps, ready, recvVars>>
  BY DEF LinkLost, PeerCloses, senderVars
<1>2. TypeOK /\ SenderType /\ LinkType /\ ReceiverType /\ SenderInv
  BY TypeParts DEF IInv
<1>3. UNCHANGED rd
  BY <1>1 DEF recvVars
<1>4. WireInv' /\ ResumeInv' /\ LeftoverInv' /\ GapsInv' /\ BodyInv'
  BY <1>1, <1>2, <1>3, QuietSender, SameOffered
<1>5. SenderInv' /\ SenderType' /\ ReceiverType'
  BY <1>1, <1>2 DEF SenderInv, SenderType, ReceiverType, recvVars, Last
<1>6. LinkType'
  <2>1. Len(wire) \in Nat
    BY <1>2, LenProperties DEF LinkType
  <2>2. arrives' \in 0 .. Len(wire) /\ rd \in 0 .. arrives'
    BY <1>1, <1>2, <2>1, SMT DEF LinkType
  <2> QED BY <1>1, <1>2, <1>3, <2>2 DEF LinkType
<1> QED BY <1>4, <1>5, <1>6, TypePartsNext DEF IInv

(* Of which files something was dropped after one more message was.         *)
LEMMA CutGrows ==
  ASSUME IInv, rd < arrives, UNCHANGED wire, gaps' = gaps \cup {rd + 1}
  PROVE  /\ Cut \subseteq Cut'
         /\ Cut' = Cut \/ (Next_.type # "SessionEnd" /\ Cut' = Cut \cup {Next_.of})
         /\ Next_.type # "SessionEnd" => Next_.of \in Cut'
<1> DEFINE S == {j \in gaps : wire[j].type # "SessionEnd"}
           T == {j \in gaps' : wire[j].type # "SessionEnd"}
<1>1. Cut = {wire[i].of : i \in S} /\ Cut' = {wire[i].of : i \in T}
  BY DEF Cut
<1>2. CASE Next_.type = "SessionEnd"
  <2>1. T = S
    BY <1>2 DEF Next_
  <2> QED BY <1>1, <1>2, <2>1
<1>3. CASE Next_.type # "SessionEnd"
  <2>1. T = S \cup {rd + 1}
    BY <1>3 DEF Next_
  <2> HIDE DEF S, T
  <2>2. Cut' = Cut \cup {Next_.of}
    BY <1>1, <2>1 DEF Next_
  <2> QED BY <1>3, <2>2
<1> QED BY <1>2, <1>3

(* In the middle of a file the next message is the file's, on this channel. *)
LEMMA NextInStep ==
  ASSUME IInv, rd < arrives, InStep, OnChannel
  PROVE  Next_.type \in {"Chunk", "Complete"} /\ Next_.of = cur.of
<1>1. /\ rd + 1 \in 1 .. Len(wire) /\ Next_ \in Message /\ rd > 0
      /\ Follows(wire[rd], Next_) /\ EndsFirst(wire[rd], Next_)
  BY NextRead DEF InStep
<1>2. Next_.type \notin {"Open", "Version"}
  <2>1. rd + 1 \in rd + 1 .. Len(wire)
    BY <1>1, NextRead
  <2> QED BY <2>1 DEF OnChannel, Next_
<1>3. Next_.type \notin {"Metadata", "SessionEnd"}
  BY <1>1 DEF InStep, EndsFirst
<1>4. Next_.type \in {"Open", "Metadata", "Chunk", "Complete", "SessionEnd", "Version"}
  BY <1>1 DEF Message
<1> QED BY <1>1, <1>2, <1>3, <1>4 DEF Follows, InStep

LEMMA DroppedIInv == IInv /\ Dropped => IInv'
<1> SUFFICES ASSUME IInv, Dropped
             PROVE  IInv'
  OBVIOUS
<1>1. /\ rd < arrives /\ rd' = rd + 1 /\ gaps' = gaps \cup {rd + 1} /\ OnChannel
      /\ UNCHANGED <<session, senderVars, wire, arrives, link, ready, fs, rpc, stay,
                     batchIdx, resumeReq, cur, paths, claimed>>
  BY DEF Dropped
<1>2. SenderType /\ LinkType /\ ReceiverType
  BY TypeParts DEF IInv
<1>3. /\ rd \in Nat /\ rd + 1 \in 0 .. arrives /\ gaps \subseteq 1 .. rd
      /\ rd + 1 \in rd + 1 .. Len(wire)
  BY <1>1, <1>2, NextRead DEF LinkType
<1>4. WireInv' /\ SenderInv' /\ ResumeInv'
  BY <1>1, ReceiverKeeps
<1>5. GapsInv'
  BY <1>1, <1>3 DEF IInv, GapsInv, OnChannel
<1>6. LeftoverInv'
  <2>1. Next_.type # "Open"
    BY <1>1, <1>3 DEF OnChannel, Next_
  <2> QED BY <1>1, <2>1, LeftoverOver
<1>7. BodyInv'
  <2>1. UNCHANGED offered
    BY <1>1 DEF senderVars
  <2>2. ASSUME rpc = "body"
        PROVE  cur.of \in Cut'
    <3>1. CASE cur.of \in Cut
      BY <1>1, <3>1, CutGrows
    <3>2. CASE cur.of \notin Cut
      <4>1. InStep
        BY <2>2, <3>2 DEF IInv, BodyInv
      <4> QED BY <1>1, <4>1, NextInStep, CutGrows
    <3> QED BY <3>1, <3>2
  <2> QED BY <1>1, <2>1, <2>2 DEF IInv, BodyInv
<1>8. LinkType'
  <2>1. gaps' \subseteq 1 .. rd'
    BY <1>1, <1>3
  <2> QED BY <1>1, <1>2, <1>3, <2>1 DEF LinkType
<1>9. SenderType' /\ ReceiverType'
  BY <1>1, <1>2 DEF SenderType, ReceiverType, senderVars
<1> QED BY <1>4, <1>5, <1>6, <1>7, <1>8, <1>9, TypePartsNext DEF IInv

(* A message out of turn ends the receiver.                                 *)
LEMMA MisplacedIInv == IInv /\ ReadMisplaced => IInv'
<1> SUFFICES ASSUME IInv, ReadMisplaced
             PROVE  IInv'
  OBVIOUS
<1>1. /\ rd < arrives /\ rd' = rd + 1 /\ (Leave("ok") \/ Leave("err"))
      /\ UNCHANGED <<session, senderVars, ready, fs, stay, batchIdx, resumeReq, cur, paths,
                     claimed>>
  BY DEF ReadMisplaced, Read
<1>2. ReceiverType
  BY TypeParts DEF IInv
<1>3. CASE Leave("ok")
  BY <1>1, <1>2, <1>3, ReceiverOver DEF ReceiverType
<1>4. CASE Leave("err")
  BY <1>1, <1>2, <1>4, ReceiverOver DEF ReceiverType
<1> QED BY <1>1, <1>3, <1>4

(* Every step keeps the invariant.                                          *)
LEMMA NextIInv == IInv /\ [Next]_vars => IInv'
<1> SUFFICES ASSUME IInv, [Next]_vars
             PROVE  IInv'
  OBVIOUS
<1>1. CASE UNCHANGED vars
  <2>1. UNCHANGED <<session, senderVars, linkVars, ready, recvVars>>
    BY <1>1 DEF vars
  <2>2. WireInv' /\ SenderInv' /\ ResumeInv' /\ LeftoverInv' /\ GapsInv' /\ BodyInv'
    BY <2>1, ReceiverKeeps, QuietSender, SameOffered
       DEF IInv, linkVars, senderVars, recvVars
  <2>3. TypeOK'
    BY <2>1 DEF IInv, TypeOK, senderVars, linkVars, recvVars
  <2> QED BY <2>2, <2>3 DEF IInv
<1> QED
  BY <1>1, SenderIInv, StartIInv, MetadataIInv, ChunkIInv, CompleteIInv, SessionEndIInv,
     VersionIInv, OpenIInv, EndIInv, LossIInv, DroppedIInv, MisplacedIInv
     DEF Next, SenderStep, ReceiverStep, Environment

LEMMA SpecIInv == Spec => []IInv
  BY InitIInv, NextIInv, PTL DEF Spec

(* Every variable keeps its shape, whatever is sent, lost, resumed or       *)
(* started again.                                                           *)
THEOREM TypeCorrect == Spec => []TypeOK
<1>1. IInv => TypeOK
  BY DEF IInv
<1> QED BY <1>1, SpecIInv, PTL

(* The sender's offset and the receiver's partial file, fresh or resumed,   *)
(* never disagree, but for a file of which a closing Peer dropped a message.*)
THEOREM PartsArePrefixes == Spec => []PartIsPrefix
<1>1. ASSUME IInv, rpc = "body", cur.of \notin Cut
      PROVE  LET c == fs[PartPath(cur.dest)]
             IN  Len(c) <= Len(Data(cur.of)) /\ c = SubSeq(Data(cur.of), 1, Len(c))
  <2> DEFINE k == wire[rd].k
  <2>1. /\ cur.of \in 1 .. Len(offered)
        /\ fs[PartPath(cur.dest)] = SubSeq(Data(cur.of), 1, k)
        /\ rd > 0 /\ wire[rd].of = cur.of /\ wire[rd].type \in {"Metadata", "Chunk"}
    BY <1>1 DEF IInv, BodyInv, InStep
  <2>2. offered \in Seq(File) /\ wire \in Seq(Message) /\ arrives \in 0 .. Len(wire) /\ rd \in 0 .. arrives
    BY <1>1 DEF IInv, TypeOK
  <2>3. rd \in 1 .. Len(wire)
    <3>1. Len(wire) \in Nat
      BY <2>2, LenProperties
    <3> QED BY <2>1, <2>2, <3>1
  <2>4. k \in 0 .. Len(Data(cur.of))
    BY <1>1, <2>1, <2>3 DEF IInv, WireInv, MsgOK
  <2>5. Data(cur.of) \in Content
    <3>1. offered[cur.of] \in File
      BY <2>1, <2>2, ElementOfSeq
    <3> QED BY <3>1 DEF Data, File
  <2>6. Len(fs[PartPath(cur.dest)]) = k
    BY <2>1, <2>4, <2>5, ContentPrefix
  <2>7. Len(Data(cur.of)) \in Nat
    BY <2>5, LenProperties DEF Content
  <2> HIDE DEF k
  <2> QED BY <2>1, <2>4, <2>6, <2>7
<1>2. IInv => PartIsPrefix
  BY <1>1 DEF PartIsPrefix, IInv, BodyInv
<1> QED BY <1>2, SpecIInv, PTL

-----------------------------------------------------------------------------
(* The directory.  Only partial files change, but for the one a Complete    *)
(* renames to a free name.                                                  *)

SameBut(p) ==
    /\ DOMAIN fs' \ {p} = DOMAIN fs \ {p}
    /\ \A q \in DOMAIN fs \ {p} : fs'[q] = fs[q]

LEMMA DirectoryStep ==
  ASSUME IInv, [Next]_vars, ~ReadComplete
  PROVE  fs' = fs \/ \E p \in Path : p.part > 0 /\ SameBut(p)
<1>t. IsDisk(fs)
  BY DEF IInv, TypeOK
<1>p. ASSUME NEW q \in Path
      PROVE  PartPath(q) \in Path /\ PartPath(q).part > 0
  <2>1. PartPath(q) \in Path /\ PartPath(q).part = q.part + 1 /\ q.part \in Nat
    BY PathFacts
  <2> QED BY <2>1
<1>q. ASSUME NEW p, NEW c, fs' = Put(p, c) \/ fs' = Without(p)
      PROVE  SameBut(p)
  BY <1>q DEF Put, Without, SameBut
<1>b. rpc = "body" => cur.dest \in Path
  BY DEF IInv, BodyInv
<1>1. CASE ReadMetadata
  <2> DEFINE m == Next_
  <2>1. offered[m.of].name \in Path
    BY <1>1, NextRead DEF ReadMetadata, Read, Next_
  <2>2. PICK n \in 0 .. MaxCopy :
           fs' = fs \/ fs' = Put(PartPath([offered[m.of].name EXCEPT !.n = n]), << >>)
    BY <1>1 DEF ReadMetadata, FreshPart
  <2>3. n \in Nat
    BY BoundAssumption DEF BoundAssumption
  <2>4. PICK p \in Path : p = [offered[m.of].name EXCEPT !.n = n]
    BY <2>1, <2>3, PathFacts
  <2> QED BY <1>p, <1>q, <2>2, <2>4
<1>2. CASE ReadChunk
  BY <1>2, <1>b, <1>p, <1>q DEF ReadChunk
<1>3. CASE ReceiverDies
  BY <1>3, <1>b, <1>p, <1>q DEF ReceiverDies
<1>4. CASE ReadVersion
  BY <1>4, <1>b, <1>p, <1>q DEF ReadVersion, DiscardPart
<1>5. CASE StartSession
  <2>1. fs' = fs \/ \E p \in ResumeCandidates : fs' = Truncated(p)
    BY <1>5 DEF StartSession
  <2>2. \A p \in ResumeCandidates : p \in Path /\ p.part > 0
    BY <1>t DEF ResumeCandidates, Leftovers, IsDisk
  <2> QED BY <1>q, <2>1, <2>2 DEF Truncated
<1>6. CASE UNCHANGED fs
  BY <1>6
<1>7. ReadMetadata \/ ReadChunk \/ ReceiverDies \/ ReadVersion \/ StartSession \/ UNCHANGED fs
  BY DEF Next, SenderStep, ReceiverStep, Environment, vars, recvVars,
         SendOpen, SendMetadata, SendChunk, SendComplete, SendSessionEnd, WaitForReceiver,
         ReadOpen, ReadSessionEnd, ReadMisplaced, ReadEnd, NextBatch, Finish, SenderFails,
         Reload, LinkLost, PeerCloses, Dropped, ReadTimeout
<1> QED BY <1>1, <1>2, <1>3, <1>4, <1>5, <1>6, <1>7

(* What a Complete does: the partial file gets its name, which is free, and *)
(* is whole unless something of the file was dropped.                       *)
LEMMA CompleteStep ==
  ASSUME IInv, ReadComplete
  PROVE  /\ cur.dest \in Path /\ cur.of \in 1 .. Len(offered) /\ cur.dest \notin DOMAIN fs
         /\ cur.dest = [offered[cur.of].name EXCEPT !.n = cur.dest.n]
         /\ PartPath(cur.dest) \in DOMAIN fs /\ PartPath(cur.dest).part > 0
         /\ PartPath(cur.dest) # cur.dest
         /\ DOMAIN fs' = (DOMAIN fs \ {PartPath(cur.dest)}) \cup {cur.dest}
         /\ cur.of \notin Cut => fs'[cur.dest] = Data(cur.of)
         /\ \A q \in DOMAIN fs \ {PartPath(cur.dest)} : fs'[q] = fs[q]
<1>1. rpc = "body" /\ rd < arrives /\ Next_.type = "Complete" /\ fs' = Renamed
  BY DEF ReadComplete, Read, Next_
<1>2. BodyInv /\ IsDisk(fs)
  BY DEF IInv, TypeOK
<1>3. /\ cur.dest \in Path /\ cur.of \in 1 .. Len(offered) /\ cur.dest \notin DOMAIN fs
      /\ cur.dest = [offered[cur.of].name EXCEPT !.n = cur.dest.n]
      /\ PartPath(cur.dest) \in DOMAIN fs
  BY <1>1, <1>2 DEF BodyInv
<1>4. PartPath(cur.dest).part > 0 /\ PartPath(cur.dest) # cur.dest
  <2>1. PartPath(cur.dest).part = cur.dest.part + 1 /\ cur.dest.part \in Nat /\ PartPath(cur.dest) # cur.dest
    BY <1>3, PathFacts
  <2> QED BY <2>1
<1>5. ASSUME cur.of \notin Cut
      PROVE  fs[PartPath(cur.dest)] = Data(cur.of)
  <2>1. InStep
    BY <1>1, <1>2, <1>5 DEF BodyInv
  <2>2. wire[rd].k = Len(Data(cur.of)) /\ Data(cur.of) \in Content
    BY <1>1, <2>1, NextRead DEF Follows, InStep
  <2>3. SubSeq(Data(cur.of), 1, Len(Data(cur.of))) = Data(cur.of)
    BY <2>2, SubSeqFull DEF Content
  <2> QED BY <2>1, <2>2, <2>3 DEF InStep
<1>6. /\ DOMAIN fs' = (DOMAIN fs \ {PartPath(cur.dest)}) \cup {cur.dest}
      /\ fs'[cur.dest] = fs[PartPath(cur.dest)]
      /\ \A q \in DOMAIN fs \ {PartPath(cur.dest), cur.dest} : fs'[q] = fs[q]
  BY <1>1, <1>2, <1>3, RenamedFacts
<1> QED BY <1>3, <1>4, <1>5, <1>6

(* No step changes or removes a file that is not a partial file.            *)
THEOREM FilesAreKept == Spec => KeepsFiles
<1>1. IInv /\ [Next]_vars =>
         [\A p \in DOMAIN fs : p.part = 0 => p \in DOMAIN fs' /\ fs'[p] = fs[p]]_vars
  <2> SUFFICES ASSUME IInv, [Next]_vars, NEW p \in DOMAIN fs, p.part = 0
               PROVE  p \in DOMAIN fs' /\ fs'[p] = fs[p]
    OBVIOUS
  <2>1. CASE ReadComplete
    <3>1. p # PartPath(cur.dest)
      BY <2>1, CompleteStep
    <3> QED BY <2>1, <3>1, CompleteStep
  <2>2. CASE ~ReadComplete
    BY <2>2, DirectoryStep DEF SameBut
  <2> QED BY <2>1, <2>2
<1> QED BY <1>1, SpecIInv, PTL DEF Spec, KeepsFiles

(* A receiver that goes on or ends well leaves no partial file of its own.  *)
THEOREM NothingIsLeftBehind == Spec => []NothingLeftBehind
<1>1. Init => NothingLeftBehind
  BY DEF Init, NothingLeftBehind
<1>2. IInv /\ NothingLeftBehind /\ [Next]_vars => NothingLeftBehind'
  <2> SUFFICES ASSUME IInv, NothingLeftBehind, [Next]_vars
               PROVE  NothingLeftBehind'
    OBVIOUS
  <2>1. CASE ReadComplete
    BY <2>1, CompleteStep DEF NothingLeftBehind, ReadComplete
  <2>2. CASE ReadVersion
    <3>1. CASE rpc = "body"
      <4>1. PartPath(cur.dest) \notin DOMAIN fs' /\ cur' = cur
        BY <2>2, <3>1, WithoutFacts DEF ReadVersion, DiscardPart, IInv, TypeOK
      <4> QED BY <4>1 DEF NothingLeftBehind
    <3>2. CASE rpc # "body"
      <4>1. UNCHANGED <<fs, cur>> /\ rpc \in {"first", "recv", "peek", "idle"}
        BY <2>2, <3>2 DEF ReadVersion, DiscardPart, ReceiverDone, IInv, TypeOK
      <4> QED BY <4>1 DEF NothingLeftBehind
    <3> QED BY <3>1, <3>2
  <2>3. CASE ReadMetadata \/ ReadChunk \/ ReceiverDies \/ ReadTimeout
    <3>1. rpc' \in {"body", "err"}
      BY <2>3 DEF ReadMetadata, ReadChunk, ReceiverDies, ReadTimeout, Leave
    <3> QED BY <3>1 DEF NothingLeftBehind
  <2>4. CASE StartSession
    BY <2>4 DEF StartSession, NothingLeftBehind
  <2>5. CASE ReadOpen \/ ReadSessionEnd \/ ReadMisplaced \/ ReadEnd
    <3>1. /\ UNCHANGED <<fs, cur>>
          /\ rpc \in {"first", "peek", "idle"} \/ rpc' = "err"
      BY <2>5 DEF ReadOpen, ReadSessionEnd, ReadMisplaced, ReadEnd, Leave
    <3> QED BY <3>1 DEF NothingLeftBehind
  <2>6. CASE UNCHANGED <<fs, cur, rpc>>
    BY <2>6 DEF NothingLeftBehind
  <2>7. \/ ReadComplete \/ ReadVersion \/ ReadMetadata \/ ReadChunk \/ ReceiverDies
        \/ ReadTimeout \/ StartSession \/ ReadOpen \/ ReadSessionEnd \/ ReadMisplaced
        \/ ReadEnd \/ UNCHANGED <<fs, cur, rpc>>
    BY DEF Next, SenderStep, ReceiverStep, Environment, vars, recvVars,
           SendOpen, SendMetadata, SendChunk, SendComplete, SendSessionEnd, WaitForReceiver,
           NextBatch, Finish, SenderFails, Reload, LinkLost, PeerCloses, Dropped
  <2> QED BY <2>1, <2>2, <2>3, <2>4, <2>5, <2>6, <2>7
<1> QED BY <1>1, <1>2, SpecIInv, PTL DEF Spec

-----------------------------------------------------------------------------
(* Finished files, for batches without names that end in ".part".           *)

PlainNames == \A b \in Batches : \A i \in 1 .. Len(b) : b[i].name.part = 0

PlainInv == \A f \in 1 .. Len(offered) : offered[f].name.part = 0

SavedInv ==
    /\ PlainInv /\ SavedIntact
    /\ \A e \in Finished : e.of \in 1 .. Len(offered) /\ e.path.part = 0

(* The files offered only grow in number while a session lasts, and stay    *)
(* plain.                                                                   *)
LEMMA OfferedStep ==
  ASSUME PlainNames, IInv, PlainInv, [Next]_vars
  PROVE  PlainInv' /\ (StartSession \/ OfferedGrows)
<1>t. TypeOK /\ offered \in Seq(File) /\ Len(offered) \in Nat
  BY LenProperties DEF IInv, TypeOK
<1>1. CASE StartSession
  BY <1>1 DEF PlainNames, PlainInv, StartSession
<1>2. CASE NextBatch \/ Reload
  <2>1. PICK b \in Batches : offered' = offered \o b
    BY <1>2 DEF NextBatch, Reload
  <2>2. b \in Seq(File) /\ Len(b) \in Nat
    BY DataAssumption, LenProperties DEF DataAssumption
  <2>3. /\ Len(offered') = Len(offered) + Len(b)
        /\ \A i \in 1 .. Len(offered) + Len(b) :
              offered'[i] = IF i <= Len(offered) THEN offered[i] ELSE b[i - Len(offered)]
    BY <1>t, <2>1, <2>2, ConcatProperties
  <2>4. ASSUME NEW f \in 1 .. Len(offered')
        PROVE  offered'[f].name.part = 0
    <3>1. CASE f \in 1 .. Len(offered)
      <4>1. offered'[f] = offered[f]
        BY <1>t, <2>2, <2>3, <3>1, SMT
      <4> QED BY <3>1, <4>1 DEF PlainInv
    <3>2. CASE f \notin 1 .. Len(offered)
      <4>1. f - Len(offered) \in 1 .. Len(b) /\ offered'[f] = b[f - Len(offered)]
        BY <1>t, <2>2, <2>3, <2>4, <3>2, SMT
      <4> QED BY <4>1 DEF PlainNames
    <3> QED BY <3>1, <3>2
  <2> QED BY <1>t, <2>1, <2>4, BatchAdded DEF PlainInv
<1>3. CASE UNCHANGED offered
  BY <1>3, <1>t, SameOffered DEF PlainInv
<1>4. StartSession \/ NextBatch \/ Reload \/ UNCHANGED offered
  BY DEF Next, SenderStep, ReceiverStep, Environment, vars, senderVars,
         SendOpen, SendMetadata, SendChunk, SendComplete, SendSessionEnd, WaitForReceiver,
         Finish, SenderFails, LinkLost, PeerCloses, Dropped, ReadOpen, ReadMetadata,
         ReadChunk, ReadComplete, ReadSessionEnd, ReadMisplaced, ReadVersion, ReadEnd,
         ReadTimeout, ReceiverDies
<1> QED BY <1>1, <1>2, <1>3, <1>4

(* What the receiver counts as finished: what it has just renamed is new,   *)
(* nothing else is.                                                         *)
Listed(s) == {s[i] : i \in 1 .. Len(s)}

LEMMA ListedAppend ==
  ASSUME NEW S, NEW s \in Seq(S), NEW e \in S
  PROVE  Listed(Append(s, e)) = Listed(s) \cup {e}
<1>1. /\ Len(s) \in Nat /\ Len(Append(s, e)) = Len(s) + 1 /\ Append(s, e)[Len(s) + 1] = e
      /\ \A i \in 1 .. Len(s) : Append(s, e)[i] = s[i]
  BY AppendProperties, LenProperties
<1>2. 1 .. Len(s) + 1 = (1 .. Len(s)) \cup {Len(s) + 1}
  BY <1>1, SMT
<1> QED BY <1>1, <1>2 DEF Listed

LEMMA FinishedStep ==
  ASSUME IInv, [Next]_vars
  PROVE  /\ ReadComplete => Finished' = Finished \cup {Saved} /\ Saved \in Entry
         /\ ~ReadComplete => Finished' \subseteq Finished
         /\ StartSession => Finished' = {}
<1>t. paths \in Seq(Entry) /\ Listed(<< >>) = {}
  BY EmptySeq DEF IInv, TypeOK, Listed
<1>f. Finished = claimed \cup Listed(paths) /\ Finished' = claimed' \cup Listed(paths')
  BY DEF Finished, Listed
<1>1. CASE ReadComplete
  <2>1. Saved \in Entry
    BY <1>1, CompleteStep DEF Saved, Entry, ReadComplete, IInv, BodyInv, Read
  <2>2. Listed(paths') = Listed(paths) \cup {Saved} /\ claimed' = claimed
    BY <1>1, <1>t, <2>1, ListedAppend DEF ReadComplete
  <2>3. ~StartSession
    BY <1>1 DEF ReadComplete, StartSession, ReceiverDone
  <2> QED BY <1>1, <1>f, <2>1, <2>2, <2>3
<1>2. CASE StartSession
  BY <1>2, <1>f, <1>t DEF StartSession, ReadComplete, ReceiverDone
<1>3. ASSUME Report \/ EndBatch, ~ReadComplete, ~StartSession
      PROVE  Finished' \subseteq Finished
  BY <1>3, <1>f, <1>t DEF Report, EndBatch, Listed
<1>4. CASE UNCHANGED <<paths, claimed>> /\ ~ReadComplete /\ ~StartSession
  BY <1>4, <1>f
<1>5. ReadComplete \/ StartSession \/ Report \/ EndBatch \/ UNCHANGED <<paths, claimed>>
  BY DEF Next, SenderStep, ReceiverStep, Environment, vars, recvVars,
         SendOpen, SendMetadata, SendChunk, SendComplete, SendSessionEnd, WaitForReceiver,
         NextBatch, Finish, SenderFails, Reload, LinkLost, PeerCloses, Dropped, ReadOpen,
         ReadMetadata, ReadChunk, ReadSessionEnd, ReadMisplaced, ReadVersion, ReadEnd,
         ReadTimeout, ReceiverDies
<1> QED BY <1>1, <1>2, <1>3, <1>4, <1>5

(* Within a session what was dropped stays dropped.                         *)
LEMMA CutStep ==
  ASSUME IInv, [Next]_vars, ~StartSession
  PROVE  Cut \subseteq Cut' /\ (~Dropped => Cut' = Cut)
<1>1. CASE Dropped
  BY <1>1, CutGrows DEF Dropped
<1>2. ASSUME WireGrows, UNCHANGED gaps
      PROVE  Cut' = Cut
  BY <1>2, KeptCut
<1>3. (UNCHANGED gaps /\ WireGrows) \/ Dropped
  <2>1. wire \in Seq(Message) /\ Len(wire) \in Nat
    BY LenProperties DEF IInv, TypeOK
  <2>2. ASSUME NEW m \in Message, Write(m)
        PROVE  UNCHANGED gaps /\ WireGrows
    BY <2>1, <2>2, AppendProperties DEF Write, WireGrows
  <2>3. CASE UNCHANGED <<wire, gaps>>
    BY <2>1, <2>3 DEF WireGrows
  <2>4. (\E m \in Message : Write(m)) \/ UNCHANGED <<wire, gaps>> \/ Dropped
    <3>1. CASE SenderStep \/ Reload
      <4>1. \A k \in Nat, f \in Nat : \A t \in {"Open", "Metadata", "Chunk", "Complete", "SessionEnd", "Version"} :
               Msg(t, f, k) \in Message
        BY DEF Msg, Message
      <4>2. Len(offered) \in Nat /\ sIdx \in Nat /\ sPos \in Nat /\ batchSize \in Nat
        BY LenProperties DEF IInv, TypeOK
      <4>3. pendingResume # NoResume => Len(pendingResume.prefix) \in Nat
        BY LenProperties DEF IInv, TypeOK, ResumeRequests
      <4>4. sPos' \in Nat \/ ~SendMetadata
        BY <4>3 DEF SendMetadata, ResumeAccepted
      <4>5. sPos' \in Nat \/ ~SendChunk
        BY <4>2 DEF SendChunk
      <4>6. Versions \subseteq Nat
        BY BoundAssumption DEF BoundAssumption
      <4> QED BY <3>1, <4>1, <4>2, <4>4, <4>5, <4>6 DEF SenderStep, Reload, SendOpen, SendMetadata,
                SendChunk, SendComplete, SendSessionEnd, WaitForReceiver, linkVars
    <3>2. CASE UNCHANGED vars
      BY <3>2 DEF vars, linkVars
    <3> QED
      BY <3>1, <3>2 DEF Next, ReceiverStep, Environment, linkVars, Leave, CloseLink,
         NextBatch, Finish, SenderFails, LinkLost, PeerCloses, ReadOpen, ReadMetadata, ReadChunk,
         ReadComplete, ReadSessionEnd, ReadMisplaced, ReadVersion, ReadEnd, ReadTimeout,
         ReceiverDies
  <2> QED BY <2>2, <2>3, <2>4
<1> QED BY <1>1, <1>2, <1>3

(* A finished file of the state before is untouched by the step.            *)
LEMMA FinishedKept ==
  ASSUME IInv, SavedInv, [Next]_vars, NEW e \in Finished, OfferedGrows
  PROVE  /\ e.path \in DOMAIN fs' /\ fs'[e.path] = fs[e.path]
         /\ e.of \in 1 .. Len(offered') /\ offered'[e.of] = offered[e.of]
<1>1. e.of \in 1 .. Len(offered) /\ e.path.part = 0 /\ e.path \in DOMAIN fs
  BY DEF SavedInv, SavedIntact
<1>2. e.of \in 1 .. Len(offered') /\ offered'[e.of] = offered[e.of]
  <2>1. Len(offered) \in Nat /\ Len(offered') \in Nat
    BY LenProperties DEF IInv, TypeOK, OfferedGrows
  <2> QED BY <1>1, <2>1 DEF OfferedGrows
<1>3. CASE ReadComplete
  <2>1. e.path # PartPath(cur.dest)
    BY <1>1, <1>3, CompleteStep
  <2> QED BY <1>1, <1>2, <1>3, <2>1, CompleteStep
<1>4. CASE ~ReadComplete
  BY <1>1, <1>2, <1>4, DirectoryStep DEF SameBut
<1> QED BY <1>3, <1>4

(* A file of a plain batch is renamed to a plain name.                      *)
LEMMA PlainDest == IInv /\ PlainInv /\ ReadComplete => cur.dest.part = 0
<1> SUFFICES ASSUME IInv, PlainInv, ReadComplete PROVE cur.dest.part = 0
  OBVIOUS
<1>1. offered[cur.of].name \in Path /\ offered[cur.of].name.part = 0
  <2>1. offered[cur.of] \in File
    BY CompleteStep, ElementOfSeq DEF IInv, TypeOK
  <2> QED BY <2>1, CompleteStep DEF PlainInv, File
<1>2. cur.dest.n \in Nat
  BY CompleteStep, PathFacts
<1> QED BY <1>1, <1>2, CompleteStep, PathFacts

LEMMA NextSavedInv == PlainNames /\ IInv /\ SavedInv /\ [Next]_vars => SavedInv'
<1> SUFFICES ASSUME PlainNames, IInv, SavedInv, [Next]_vars
             PROVE  SavedInv'
  OBVIOUS
<1>1. PlainInv' /\ (StartSession \/ OfferedGrows)
  BY OfferedStep DEF SavedInv
<1>2. CASE StartSession
  BY <1>1, <1>2, FinishedStep DEF SavedInv, SavedIntact
<1>3. ASSUME OfferedGrows, Cut \subseteq Cut', NEW e \in Finished
      PROVE  /\ e.path \in DOMAIN fs' /\ (e.of \notin Cut' => fs'[e.path] = Data(e.of)')
             /\ e.path = [offered'[e.of].name EXCEPT !.n = e.path.n]
             /\ e.of \in 1 .. Len(offered') /\ e.path.part = 0
             /\ \A g \in Finished : g.path = e.path => g = e
  <2>1. /\ e.path \in DOMAIN fs' /\ fs'[e.path] = fs[e.path]
        /\ e.of \in 1 .. Len(offered') /\ offered'[e.of] = offered[e.of]
    BY <1>3, FinishedKept
  <2>2. /\ e.of \notin Cut => fs[e.path] = offered[e.of].data
        /\ e.path = [offered[e.of].name EXCEPT !.n = e.path.n] /\ e.path.part = 0
        /\ \A g \in Finished : g.path = e.path => g = e
    BY DEF SavedInv, SavedIntact, Data
  <2>3. e.of \notin Cut' => fs'[e.path] = offered'[e.of].data
    BY <1>3, <2>1, <2>2
  <2>4. e.path = [offered'[e.of].name EXCEPT !.n = e.path.n]
    BY <2>1, <2>2, Zenon
  <2> QED BY <2>1, <2>2, <2>3, <2>4, Zenon DEF Data
<1>4. CASE OfferedGrows /\ ~ReadComplete /\ ~StartSession
  <2>1. Finished' \subseteq Finished /\ Cut \subseteq Cut'
    BY <1>4, FinishedStep, CutStep
  <2> QED BY <1>1, <1>3, <1>4, <2>1 DEF SavedInv, SavedIntact
<1>5. CASE ReadComplete
  <2>1. UNCHANGED <<offered, cur>> /\ OfferedGrows
    BY <1>5, SameOffered DEF ReadComplete, senderVars, IInv
  <2>c. Cut' = Cut
    BY <1>5, SameCut DEF ReadComplete, linkVars
  <2>2. Finished' = Finished \cup {Saved} /\ Saved.path = cur.dest /\ Saved.of = cur.of
    BY <1>5, FinishedStep DEF Saved
  <2>3. /\ cur.dest \in DOMAIN fs' /\ (cur.of \notin Cut' => fs'[cur.dest] = Data(cur.of)')
        /\ cur.of \in 1 .. Len(offered')
        /\ cur.dest = [offered'[cur.of].name EXCEPT !.n = cur.dest.n]
    BY <1>5, <2>1, <2>c, CompleteStep DEF Data
  <2>4. cur.dest.part = 0
    BY <1>5, PlainDest DEF SavedInv
  <2>5. \A e \in Finished : e.path # cur.dest
    BY <1>5, CompleteStep DEF SavedInv, SavedIntact
  <2>6. ASSUME NEW e \in Finished'
        PROVE  /\ e.path \in DOMAIN fs' /\ (e.of \notin Cut' => fs'[e.path] = Data(e.of)')
               /\ e.path = [offered'[e.of].name EXCEPT !.n = e.path.n]
               /\ e.of \in 1 .. Len(offered') /\ e.path.part = 0
               /\ \A g \in Finished' : g.path = e.path => g = e
    <3>1. CASE e \in Finished
      BY <1>3, <2>1, <2>2, <2>5, <2>c, <3>1
    <3>2. CASE e = Saved
      <4>1. e.path = cur.dest /\ e.of = cur.of
        BY <2>2, <3>2
      <4>4. e.of \notin Cut' => fs'[e.path] = Data(e.of)'
        BY <2>1, <2>3, <4>1 DEF Data
      <4>2. \A g \in Finished' : g.path = e.path => g = e
        BY <2>2, <2>5, <3>2, <4>1
      <4>3. e.path = [offered'[e.of].name EXCEPT !.n = e.path.n]
        BY <2>3, <4>1
      <4> HIDE <3>2
      <4> QED BY <2>3, <2>4, <4>1, <4>2, <4>3, <4>4
    <3> QED BY <2>2, <3>1, <3>2
  <2> QED BY <1>1, <2>6 DEF SavedInv, SavedIntact
<1> QED BY <1>1, <1>2, <1>4, <1>5

(* Every finished file is on disk under a path of its own, with the bytes   *)
(* the sender was given unless a closing Peer dropped a message of this     *)
(* very file.                                                               *)
THEOREM SavedStaysIntact == PlainNames => (Spec => []SavedIntact)
<1>1. Init => SavedInv
  BY DEF Init, SavedInv, SavedIntact, PlainInv, Finished
<1>2. SavedInv => SavedIntact
  BY DEF SavedInv
<1> SUFFICES ASSUME PlainNames PROVE Spec => []SavedIntact
  OBVIOUS
<1>3. IInv /\ SavedInv /\ [Next]_vars => SavedInv'
  BY NextSavedInv
<1> QED BY <1>1, <1>2, <1>3, SpecIInv, PTL DEF Spec

-----------------------------------------------------------------------------
(* Transfer implements Delivery: what the mapping shows of the state, and   *)
(* of each step.                                                            *)

Store == [p \in {q \in DOMAIN fs : q.part = 0} |-> fs[p]]
Outbox == {offered[i] : i \in 1 .. Len(offered)}
Delivered == {paths[i].path : i \in 1 .. Len(paths)}
Reported == {e.path : e \in claimed}
Damaged == {offered[f] : f \in Cut}

LEMMA SameStore ==
  ASSUME IInv, [Next]_vars, ~ReadComplete
  PROVE  Store' = Store
<1>1. CASE fs' = fs
  BY <1>1 DEF Store
<1>2. ASSUME NEW p \in Path, p.part > 0, SameBut(p)
      PROVE  Store' = Store
  <2>1. p.part # 0
    BY <1>2
  <2>2. \A q : q.part = 0 => q # p
    BY <2>1
  <2>3. \A q : q.part = 0 => (q \in DOMAIN fs' <=> q \in DOMAIN fs)
    BY <1>2, <2>2 DEF SameBut
  <2>4. {q \in DOMAIN fs' : q.part = 0} = {q \in DOMAIN fs : q.part = 0}
    BY <2>3
  <2>5. \A q \in {r \in DOMAIN fs : r.part = 0} : fs'[q] = fs[q]
    BY <1>2, <2>2 DEF SameBut
  <2> QED BY <2>4, <2>5 DEF Store
<1> QED BY <1>1, <1>2, DirectoryStep

(* A Complete delivers one file.                                            *)
LEMMA DeliverStep ==
  ASSUME IInv, PlainInv, ReadComplete
  PROVE  D!Deliver
<1>1. /\ cur.of \in 1 .. Len(offered) /\ cur.dest \notin DOMAIN fs /\ cur.dest.part = 0
      /\ cur.dest = [offered[cur.of].name EXCEPT !.n = cur.dest.n]
      /\ PartPath(cur.dest).part # 0
      /\ DOMAIN fs' = (DOMAIN fs \ {PartPath(cur.dest)}) \cup {cur.dest}
      /\ cur.of \notin Cut => fs'[cur.dest] = offered[cur.of].data
      /\ \A q \in DOMAIN fs \ {PartPath(cur.dest)} : fs'[q] = fs[q]
  <2>1. PartPath(cur.dest).part # 0
    <3>1. PartPath(cur.dest).part > 0
      BY CompleteStep
    <3> QED BY <3>1
  <2> QED BY <2>1, CompleteStep, PlainDest DEF Data
<1>2. offered[cur.of] \in Outbox /\ UNCHANGED <<Outbox, Reported, Damaged>>
  BY <1>1, SameCut DEF Outbox, Reported, Damaged, ReadComplete, senderVars, linkVars
<1>3. DOMAIN Store = {q \in DOMAIN fs : q.part = 0} /\ \A q \in DOMAIN Store : Store[q] = fs[q]
  BY DEF Store
<1>4. DOMAIN Store' = {q \in DOMAIN fs' : q.part = 0} /\ \A q \in DOMAIN Store' : Store'[q] = fs'[q]
  BY DEF Store
<1>5. \A q : q.part = 0 => q # PartPath(cur.dest)
  BY <1>1
<1>6. DOMAIN Store' = DOMAIN Store \cup {cur.dest} /\ cur.dest \notin DOMAIN Store
  BY <1>1, <1>3, <1>4, <1>5
<1>7. /\ offered[cur.of] \notin Damaged => Store'[cur.dest] = offered[cur.of].data
      /\ \A q \in DOMAIN Store : Store'[q] = Store[q]
  <2>1. offered[cur.of] \notin Damaged => cur.of \notin Cut
    BY DEF Damaged
  <2> QED BY <1>1, <1>3, <1>4, <1>5, <1>6, <2>1
<1>8. Delivered' = Delivered \cup {cur.dest}
  <2>1. Saved \in Entry /\ paths \in Seq(Entry)
    <3>1. paths \in Seq(Entry)
      BY DEF IInv, TypeOK
    <3>2. offered \in Seq(File)
      BY DEF IInv, TypeOK
    <3>3. cur.dest \in Path /\ cur.of \in 1 .. Len(offered)
      BY CompleteStep
    <3>4. cur.of \in Nat
      BY <3>2, <3>3
    <3> QED BY <3>1, <3>3, <3>4 DEF Saved, Entry
  <2>2. Listed(paths') = Listed(paths) \cup {Saved} /\ Saved.path = cur.dest
    BY <2>1, ListedAppend DEF ReadComplete, Saved
  <2>3. /\ Delivered = {e.path : e \in Listed(paths)}
        /\ Delivered' = {e.path : e \in Listed(paths')}
    BY DEF Delivered, Listed
  <2> QED BY <2>2, <2>3
<1>9. D!NamedLike(cur.dest, offered[cur.of])
  BY <1>1 DEF D!NamedLike
<1> HIDE DEF Store, Outbox, Delivered, Reported, Damaged
<1>10. \E f \in Outbox, p \in DOMAIN Store' \ DOMAIN Store :
          /\ D!NamedLike(p, f)
          /\ DOMAIN Store' = DOMAIN Store \cup {p}
          /\ f \notin Damaged => Store'[p] = f.data
          /\ \A q \in DOMAIN Store : Store'[q] = Store[q]
          /\ Delivered' = Delivered \cup {p}
          /\ UNCHANGED <<Outbox, Reported, Damaged>>
  <2>1. cur.dest \in DOMAIN Store' \ DOMAIN Store
    BY <1>6
  <2> QED BY <1>2, <1>6, <1>7, <1>8, <1>9, <2>1, Zenon
<1> QED BY <1>10 DEF D!Deliver, Store, Outbox, Delivered, Reported, Damaged

LEMMA ReportStep ==
  ASSUME Report, UNCHANGED offered, Store' = Store, Cut' = Cut
  PROVE  D!Report
<1>1. paths' = << >> /\ claimed' = claimed \cup {paths[i] : i \in 1 .. Len(paths)}
  BY DEF Report
<1>2. Delivered' = {}
  BY <1>1, EmptySeq DEF Delivered
<1>3. Reported' = Reported \cup Delivered
  BY <1>1 DEF Reported, Delivered
<1> QED BY <1>2, <1>3 DEF D!Report, Store, Outbox, Delivered, Reported

(* Only files that are offered are sent, and can lose a message.            *)
LEMMA CutOffered ==
  ASSUME IInv
  PROVE  Cut \subseteq 1 .. Len(offered)
<1>1. /\ wire \in Seq(Message) /\ arrives \in 0 .. Len(wire) /\ rd \in 0 .. arrives
      /\ gaps \subseteq 1 .. rd /\ Len(wire) \in Nat
  BY LenProperties DEF IInv, TypeOK
<1>2. ASSUME NEW i \in gaps, wire[i].type # "SessionEnd"
      PROVE  wire[i].of \in 1 .. Len(offered)
  <2>1. i \in 1 .. Len(wire)
    BY <1>1
  <2>2. wire[i] \in Message /\ MsgOK(wire[i]) /\ wire[i].type \notin {"Open", "Version"}
    BY <1>1, <2>1, ElementOfSeq DEF IInv, WireInv, GapsInv
  <2> QED BY <1>2, <2>2 DEF Message, MsgOK
<1> QED BY <1>2 DEF Cut

LEMMA AbstractStep ==
  ASSUME IInv, PlainInv, [Next]_vars, StartSession \/ OfferedGrows
  PROVE  [D!Next]_D!vars
<1>e. Listed(<< >>) = {}
  BY EmptySeq DEF Listed
<1>1. CASE ReadComplete
  BY <1>1, DeliverStep DEF D!Next
<1> SUFFICES ASSUME ~ReadComplete PROVE [D!Next]_D!vars
  BY <1>1
<1>s. Store' = Store
  BY SameStore
<1>2. CASE StartSession
  <2>1. Delivered' = {} /\ Reported' = {} /\ Damaged' = {}
    BY <1>2, EmptySeq DEF StartSession, Delivered, Reported, Damaged, Cut
  <2>2. D!NewSession
    BY <1>s, <2>1 DEF D!NewSession, Store, Delivered, Reported, Damaged
  <2> QED BY <2>2 DEF D!Next
<1>c. ~StartSession => Cut \subseteq Cut' /\ (~Dropped => Cut' = Cut)
  BY CutStep
<1>3. CASE Report /\ UNCHANGED offered /\ ~StartSession /\ ~Dropped
  BY <1>3, <1>c, <1>s, ReportStep DEF D!Next
<1>4. CASE paths' = << >> /\ UNCHANGED <<claimed, offered>> /\ ~StartSession /\ ~Dropped
  <2>1. Delivered' = {} /\ Reported' = Reported /\ Outbox' = Outbox /\ Damaged' = Damaged
    BY <1>4, <1>c, EmptySeq DEF Delivered, Reported, Outbox, Damaged
  <2>2. D!Forget
    BY <1>s, <2>1 DEF D!Forget, Store, Delivered, Reported, Outbox, Damaged
  <2> QED BY <2>2 DEF D!Next
<1>5. CASE OfferedGrows /\ UNCHANGED <<paths, claimed>> /\ ~StartSession /\ ~Dropped
  <2>1. Delivered' = Delivered /\ Reported' = Reported
    BY <1>5 DEF Delivered, Reported
  <2>2. Outbox \subseteq Outbox' /\ Damaged' = Damaged
    <3>1. Len(offered) \in Nat /\ Len(offered') \in Nat /\ Cut' = Cut
      BY <1>5, <1>c, LenProperties DEF IInv, TypeOK, OfferedGrows
    <3>2. \A i \in 1 .. Len(offered) : i \in 1 .. Len(offered') /\ offered'[i] = offered[i]
      BY <1>5, <3>1 DEF OfferedGrows
    <3> QED BY <3>1, <3>2, CutOffered DEF Outbox, Damaged
  <2>3. D!Offer
    BY <1>s, <2>1, <2>2 DEF D!Offer, Store, Delivered, Reported, Outbox, Damaged
  <2> QED BY <2>3 DEF D!Next
<1>d. CASE Dropped
  <2>1. UNCHANGED <<offered, paths, claimed>> /\ IInv' /\ ~StartSession
    BY <1>d, DroppedIInv DEF Dropped, StartSession, senderVars
  <2>2. Delivered' = Delivered /\ Reported' = Reported /\ Outbox' = Outbox
    BY <2>1 DEF Delivered, Reported, Outbox
  <2>3. Damaged \subseteq Damaged' /\ Damaged' \subseteq Outbox
    <3>1. Cut' \subseteq 1 .. Len(offered')
      <4>1. rd < arrives /\ Next_.type \notin {"Open", "Version"}
        <5>1. rd < arrives /\ OnChannel
          BY <1>d DEF Dropped
        <5>2. rd + 1 \in rd + 1 .. Len(wire)
          BY <5>1, NextRead
        <5> QED BY <5>1, <5>2 DEF OnChannel, Next_
      <4>2. Next_.type # "SessionEnd" => Next_.of \in 1 .. Len(offered)
        BY <4>1, NextRead DEF Message, MsgOK
      <4>3. Cut' = Cut \/ (Next_.type # "SessionEnd" /\ Cut' = Cut \cup {Next_.of})
        BY <1>d, CutGrows DEF Dropped
      <4> QED BY <2>1, <4>2, <4>3, CutOffered
    <3> QED BY <1>c, <2>1, <3>1 DEF Damaged, Outbox
  <2>4. D!Damage
    BY <1>s, <2>2, <2>3 DEF D!Damage, Store, Delivered, Reported, Outbox, Damaged
  <2> QED BY <2>4 DEF D!Next
<1>6. \/ StartSession
      \/ Dropped
      \/ (Report /\ UNCHANGED offered)
      \/ (paths' = << >> /\ UNCHANGED <<claimed, offered>>)
      \/ UNCHANGED <<paths, claimed>>
  BY DEF Next, SenderStep, ReceiverStep, Environment, vars, recvVars, senderVars,
         SendOpen, SendMetadata, SendChunk, SendComplete, SendSessionEnd, WaitForReceiver,
         NextBatch, Finish, SenderFails, Reload, LinkLost, PeerCloses, ReadOpen, ReadMetadata,
         ReadChunk, ReadSessionEnd, ReadMisplaced, ReadVersion, EndBatch, ReadEnd, ReadTimeout,
         ReceiverDies
<1> QED BY <1>2, <1>3, <1>4, <1>5, <1>6, <1>d

(* The directory a receiver writes to, and what it reports, are those of    *)
(* Delivery, whatever happens to connections and processes.                 *)
THEOREM TransferImplementsDelivery == PlainNames => (Spec => ImplementsDelivery)
<1> SUFFICES ASSUME PlainNames PROVE Spec => ImplementsDelivery
  OBVIOUS
<1>1. Init => D!Init
  BY EmptySeq DEF Init, D!Init, Cut
<1>2. Init => PlainInv
  BY DEF Init, PlainInv
<1>3. IInv /\ PlainInv /\ [Next]_vars => PlainInv'
  BY OfferedStep
<1>4. IInv /\ PlainInv /\ [Next]_vars => [D!Next]_D!vars
  BY OfferedStep, AbstractStep
<1> QED BY <1>1, <1>2, <1>3, <1>4, SpecIInv, PTL DEF Spec, ImplementsDelivery, D!Spec

-----------------------------------------------------------------------------
(* Batches on the wire.  A batch's messages begin with a Metadata that      *)
(* follows no other file of the batch, and go on until a SessionEnd or a    *)
(* reload; inside it the files come one after the other.                    *)

Breaks == {"Open", "SessionEnd", "Version"}

Begins(i) == wire[i].type = "Metadata" /\ (i = 1 \/ wire[i - 1].type \in Breaks)

Inside(i, j) == \A h \in i + 1 .. j : wire[h].type \notin Breaks

Precedes(l, m) ==
    /\ m.type = "Metadata" =>
          \/ l.type = "Open"
          \/ l.type \in {"Complete", "SessionEnd"} /\ m.of = l.of + 1
    /\ m.type = "SessionEnd" => l.type = "Complete" /\ m.of = l.of

(* A SessionEnd counts the files of its batch.                              *)
Counts(z, j) ==
    wire[j].type = "SessionEnd" /\ Begins(z) /\ Inside(z, j - 1) =>
        wire[j].k = wire[j].of - wire[z].of + 1

WireBatches ==
    /\ wire # << >> => wire[1].type \notin {"Chunk", "Complete", "SessionEnd"}
    /\ \A i \in 2 .. Len(wire) : Precedes(wire[i - 1], wire[i])
    /\ \A j \in 2 .. Len(wire) : \A z \in 1 .. j - 1 : Counts(z, j)

FirstOfBatch == Len(offered) - batchSize + 1

(* The batch being sent began with its first file.                          *)
Began == \A z \in 1 .. Len(wire) :
            Begins(z) /\ Inside(z, Len(wire)) => wire[z].of = FirstOfBatch

SenderBatches ==
    /\ batchSize \in Nat
    /\ spc \in {"ready", "open"} => sIdx = FirstOfBatch
    /\ spc = "meta" =>
          \/ (wire = << >> \/ Last.type = "Open") /\ sIdx = FirstOfBatch
          \/ /\ wire # << >> /\ Last.type = "SessionEnd" /\ Last.of + 1 = sIdx
             /\ sIdx = FirstOfBatch
          \/ wire # << >> /\ Last.type = "Complete" /\ Last.of + 1 = sIdx
    /\ spc = "end" => Last.of = Len(offered)
    /\ spc = "between" => wire # << >> /\ Last.type = "SessionEnd" /\ Last.of = Len(offered)
    /\ spc \in {"meta", "chunks", "end"} => Began

(* The receiver.  The last file that is over with the n-th message, and the *)
(* files from f on up to the one that is over with what has been read: each *)
(* is among those received, or lost a message to a closing Peer.            *)
Reached(n) ==
    IF wire[n].type \in {"Complete", "SessionEnd"} THEN wire[n].of ELSE wire[n].of - 1

Got == {paths[i].of : i \in 1 .. Len(paths)}

Covered(f) == \A g \in f .. Reached(rd) : g \in Cut \cup Got

Ascending == \A i, j \in 1 .. Len(paths) : i < j => paths[i].of < paths[j].of

(* In a file and after one: where the receiver is, at most, on the wire.    *)
Placed ==
    /\ rpc \in {"first", "recv", "idle"} => paths = << >>
    /\ rpc = "peek" => paths # << >>
    /\ rpc \in {"body", "peek"} => rd > 0 /\ wire[rd].type \notin {"Open", "Version"}
    /\ rpc = "body" =>
          /\ cur.of <= Reached(rd) + 1 /\ Covered(cur.of)
          /\ \A i \in 1 .. Len(paths) : paths[i].of < cur.of
    /\ paths # << >> =>
          /\ rd > 0 /\ Covered(paths[1].of)
          /\ \A i \in 1 .. Len(paths) : paths[i].of <= Reached(rd)

(* A file of which nothing was dropped is the one being received.           *)
Reading ==
    rd > 0 /\ wire[rd].type \in {"Metadata", "Chunk"} /\ wire[rd].of \notin Cut =>
        rpc = "body" /\ cur.of = wire[rd].of

(* The batch being read, from its first file on.                            *)
CoversBatch ==
    /\ rd > 0 /\ wire[rd].type \notin Breaks => \E z \in 1 .. rd : Begins(z) /\ Inside(z, rd)
    /\ \A z \in 1 .. rd : Begins(z) /\ Inside(z, rd) => Covered(wire[z].of)

(* Where nothing was dropped, the batch received is the one being read.     *)
Started(first) == \E z \in 1 .. rd : Begins(z) /\ Inside(z, rd) /\ wire[z].of = first

FirstReceived == IF paths = << >> THEN cur.of ELSE paths[1].of

Undropped ==
    /\ rpc \in {"first", "recv", "idle"} /\ rd > 0 => wire[rd].type \in Breaks
    /\ rpc \in {"body", "peek"} => Started(FirstReceived)
    /\ rpc = "peek" => wire[rd].type = "Complete"

ReceiverBatches ==
    ~ReceiverDone =>
        /\ Ascending /\ Placed /\ Reading /\ CoversBatch
        /\ gaps = {} => Undropped

BInv == WireBatches /\ SenderBatches /\ ReceiverBatches

(* What is on the wire keeps its batches when more is written.              *)
LEMMA KeptBatches ==
  ASSUME WireGrows, Len(wire) \in Nat
  PROVE  /\ \A z \in 1 .. Len(wire) : Begins(z)' <=> Begins(z)
         /\ \A z \in Nat, j \in 0 .. Len(wire) : Inside(z, j)' <=> Inside(z, j)
         /\ \A j \in 1 .. Len(wire), z \in 1 .. Len(wire) : Counts(z, j)' <=> Counts(z, j)
<1>1. ASSUME NEW z \in 1 .. Len(wire)
      PROVE  Begins(z)' <=> Begins(z)
  <2>1. z = 1 \/ z - 1 \in 1 .. Len(wire)
    OBVIOUS
  <2> QED BY <2>1 DEF Begins, WireGrows
<1>2. ASSUME NEW z \in Nat, NEW j \in 0 .. Len(wire)
      PROVE  Inside(z, j)' <=> Inside(z, j)
  <2>1. \A h \in z + 1 .. j : h \in 1 .. Len(wire)
    OBVIOUS
  <2> QED BY <2>1 DEF Inside, WireGrows
<1>3. ASSUME NEW j \in 1 .. Len(wire), NEW z \in 1 .. Len(wire)
      PROVE  Counts(z, j)' <=> Counts(z, j)
  <2>1. j - 1 \in 0 .. Len(wire) /\ z \in Nat
    OBVIOUS
  <2>2. wire'[j] = wire[j] /\ wire'[z] = wire[z]
    BY DEF WireGrows
  <2> QED BY <1>1, <1>2, <2>1, <2>2 DEF Counts
<1> QED BY <1>1, <1>2, <1>3

(* A message is written.                                                    *)
LEMMA WriteBatches ==
  ASSUME TypeOK, WireBatches, NEW m \in Message, Write(m),
         wire = << >> => m.type \notin {"Chunk", "Complete", "SessionEnd"},
         wire # << >> => Precedes(Last, m),
         m.type = "SessionEnd" =>
            \A z \in 1 .. Len(wire) :
               Begins(z) /\ Inside(z, Len(wire)) => m.k = m.of - wire[z].of + 1
  PROVE  /\ WireBatches' /\ WireGrows /\ Last' = m /\ wire' # << >>
         /\ Len(wire) \in Nat /\ Len(wire') = Len(wire) + 1
         /\ \A z \in 1 .. Len(wire) :
               Inside(z, Len(wire))' <=> Inside(z, Len(wire)) /\ m.type \notin Breaks
         /\ Begins(Len(wire))' =>
               m.type = "Metadata" /\ (wire = << >> \/ Last.type \in Breaks)
<1>1. wire \in Seq(Message) /\ wire' = Append(wire, m)
  BY DEF TypeOK, Write
<1>2. /\ wire' \in Seq(Message) /\ Len(wire') = Len(wire) + 1 /\ wire'[Len(wire) + 1] = m
      /\ Len(wire) \in Nat /\ \A i \in 1 .. Len(wire) : wire'[i] = wire[i]
  BY <1>1, AppendProperties, LenProperties
<1>3. wire' # << >> /\ (wire = << >> <=> Len(wire) = 0)
  BY <1>1, <1>2, EmptySeq
<1>4. WireGrows /\ Last' = m
  BY <1>2, SMT DEF WireGrows, Last
<1>5. \A i \in 2 .. Len(wire') : Precedes(wire'[i - 1], wire'[i])
  <2> SUFFICES ASSUME NEW i \in 2 .. Len(wire')
               PROVE  Precedes(wire'[i - 1], wire'[i])
    OBVIOUS
  <2>1. CASE i = Len(wire) + 1
    <3>1. /\ i - 1 = Len(wire) /\ Len(wire) \in 1 .. Len(wire) /\ Len(wire) # 0
      BY <1>2, <2>1
    <3> QED BY <1>2, <1>3, <2>1, <3>1 DEF Last
  <2>2. CASE i # Len(wire) + 1
    <3>1. i \in 2 .. Len(wire) /\ i \in 1 .. Len(wire) /\ i - 1 \in 1 .. Len(wire)
      BY <1>2, <2>2
    <3> QED BY <1>2, <3>1 DEF WireBatches
  <2> QED BY <2>1, <2>2
<1>6. \A j \in 2 .. Len(wire') : \A z \in 1 .. j - 1 : Counts(z, j)'
  <2> SUFFICES ASSUME NEW j \in 2 .. Len(wire'), NEW z \in 1 .. j - 1
               PROVE  Counts(z, j)'
    BY <1>2
  <2>1. CASE j = Len(wire) + 1
    <3>1. z \in 1 .. Len(wire) /\ z \in Nat /\ j - 1 = Len(wire) /\ Len(wire) \in 0 .. Len(wire)
      BY <1>2, <2>1
    <3>2. /\ Begins(z)' <=> Begins(z)
          /\ Inside(z, j - 1)' <=> Inside(z, Len(wire))
          /\ wire'[z] = wire[z] /\ wire'[j] = m
      BY <1>2, <1>4, <2>1, <3>1, KeptBatches
    <3> QED BY <3>1, <3>2 DEF Counts
  <2>2. CASE j # Len(wire) + 1
    <3>1. j \in 2 .. Len(wire) /\ j \in 1 .. Len(wire) /\ z \in 1 .. Len(wire)
      BY <1>2, <2>2
    <3>2. Counts(z, j)
      BY <3>1 DEF WireBatches
    <3> QED BY <1>2, <1>4, <3>1, <3>2, KeptBatches
  <2> QED BY <2>1, <2>2
<1>7. ASSUME NEW z \in 1 .. Len(wire)
      PROVE  Inside(z, Len(wire))' <=> Inside(z, Len(wire)) /\ m.type \notin Breaks
  <2>1. \A h : h \in z + 1 .. Len(wire') <=> h \in z + 1 .. Len(wire) \/ h = Len(wire) + 1
    BY <1>2, SMT
  <2>2. \A h \in z + 1 .. Len(wire) : wire'[h] = wire[h]
    BY <1>2, SMT
  <2> QED BY <1>2, <2>1, <2>2 DEF Inside
<1>8. ASSUME Begins(Len(wire))'
      PROVE  m.type = "Metadata" /\ (wire = << >> \/ Last.type \in Breaks)
  <2>1. wire'[Len(wire')] = m /\ (Len(wire) # 0 => wire'[Len(wire') - 1] = Last /\ Len(wire') # 1)
    BY <1>2, SMT DEF Last
  <2> QED BY <1>3, <1>8, <2>1 DEF Begins
<1>9. WireBatches'
  <2>1. wire'[1].type \notin {"Chunk", "Complete", "SessionEnd"}
    <3>1. CASE wire = << >>
      BY <1>2, <1>3, <3>1
    <3>2. CASE wire # << >>
      <4>1. 1 \in 1 .. Len(wire)
        BY <1>2, <1>3, <3>2
      <4> QED BY <1>2, <3>2, <4>1 DEF WireBatches
    <3> QED BY <3>1, <3>2
  <2> QED BY <1>5, <1>6, <2>1 DEF WireBatches
<1> QED BY <1>2, <1>3, <1>4, <1>7, <1>8, <1>9

(* The batch being sent goes on.                                            *)
LEMMA BeganGoesOn ==
  ASSUME WireGrows, Len(wire) \in Nat, Len(wire') = Len(wire) + 1,
         UNCHANGED <<offered, batchSize>>, NEW m, Last' = m,
         \A z \in 1 .. Len(wire) :
            Inside(z, Len(wire))' <=> Inside(z, Len(wire)) /\ m.type \notin Breaks,
         m.type \in Breaks \/ Began,
         Begins(Len(wire))' => m.of = FirstOfBatch
  PROVE  Began'
<1>1. FirstOfBatch' = FirstOfBatch
  BY DEF FirstOfBatch
<1>2. ASSUME NEW z \in 1 .. Len(wire'), Begins(z)', Inside(z, Len(wire))'
      PROVE  wire'[z].of = FirstOfBatch
  <2>1. CASE z = Len(wire')
    BY <1>2, <2>1 DEF Last
  <2>2. CASE z # Len(wire')
    <3>1. z \in 1 .. Len(wire)
      BY <2>2
    <3>2. wire'[z] = wire[z] /\ Begins(z) /\ Inside(z, Len(wire)) /\ m.type \notin Breaks
      BY <1>2, <3>1, KeptBatches DEF WireGrows
    <3> QED BY <3>1, <3>2 DEF Began
  <2> QED BY <2>1, <2>2
<1> QED BY <1>1, <1>2 DEF Began

(* The receiver is not disturbed by what is written after what it has read. *)
LEMMA KeptReceiverBatches ==
  ASSUME IInv, ReceiverBatches, WireGrows, UNCHANGED <<recvVars, gaps>>
  PROVE  ReceiverBatches'
<1> SUFFICES ASSUME ~ReceiverDone'
             PROVE  ReceiverBatches'
  BY DEF ReceiverBatches
<1>1. /\ UNCHANGED <<rpc, rd, cur, paths, gaps>> /\ ~ReceiverDone
      /\ Len(wire) \in Nat /\ rd \in 0 .. Len(wire) /\ (rd > 0 => rd \in 1 .. Len(wire))
  <2>1. wire \in Seq(Message) /\ arrives \in 0 .. Len(wire) /\ rd \in 0 .. arrives
    BY DEF IInv, TypeOK
  <2>2. Len(wire) \in Nat
    BY <2>1, LenProperties
  <2> QED BY <2>1, <2>2 DEF recvVars, ReceiverDone
<1>2. Ascending /\ Placed /\ Reading /\ CoversBatch /\ (gaps = {} => Undropped)
  BY <1>1 DEF ReceiverBatches
<1>3. (rd > 0 => wire'[rd] = wire[rd]) /\ Cut' = Cut /\ Got' = Got
  BY <1>1, KeptCut DEF WireGrows, Got
<1>4. rd > 0 => \A f : Covered(f)' <=> Covered(f)
  BY <1>1, <1>3 DEF Covered, Reached
<1>5. ASSUME NEW z \in 1 .. rd
      PROVE  (Begins(z) /\ Inside(z, rd))' <=> Begins(z) /\ Inside(z, rd)
  <2>1. z \in 1 .. Len(wire) /\ z \in Nat
    BY <1>1
  <2>2. Begins(z)' <=> Begins(z)
    BY <1>1, <2>1, KeptBatches
  <2>3. \A h \in z + 1 .. rd : wire'[h] = wire[h]
    <3>1. \A h \in z + 1 .. rd : h \in 1 .. Len(wire)
      BY <1>1, <2>1
    <3> QED BY <3>1 DEF WireGrows
  <2>4. Inside(z, rd)' <=> Inside(z, rd)
    BY <1>1, <2>3 DEF Inside
  <2> QED BY <2>2, <2>4
<1>6. ASSUME NEW z \in 1 .. rd
      PROVE  wire'[z] = wire[z] /\ rd > 0
  BY <1>1 DEF WireGrows
<1>7. Ascending' /\ Reading'
  BY <1>1, <1>2, <1>3 DEF Ascending, Reading
<1>8. Placed'
  BY <1>1, <1>2, <1>3, <1>4 DEF Placed, Reached
<1>9. CoversBatch'
  BY <1>1, <1>2, <1>3, <1>4, <1>5, <1>6 DEF CoversBatch
<1>10. Undropped => Undropped'
  <2>1. Started(FirstReceived)' <=> Started(FirstReceived)
    BY <1>1, <1>5, <1>6 DEF Started, FirstReceived
  <2>2. rpc = "peek" => rd > 0
    BY <1>2 DEF Placed
  <2> QED BY <1>1, <1>3, <2>1, <2>2 DEF Undropped
<1> QED BY <1>1, <1>2, <1>7, <1>8, <1>9, <1>10 DEF ReceiverBatches

(* The sender writes a message of the batch it is sending.                  *)
LEMMA SenderWrites ==
  ASSUME IInv, BInv, NEW m \in Message, Write(m), UNCHANGED <<offered, batchSize, recvVars>>,
         wire = << >> => m.type \notin {"Chunk", "Complete", "SessionEnd"},
         wire # << >> => Precedes(Last, m),
         m.type = "SessionEnd" =>
            \A z \in 1 .. Len(wire) :
               Begins(z) /\ Inside(z, Len(wire)) => m.k = m.of - wire[z].of + 1,
         m.type \in Breaks \/ Began,
         m.type = "Metadata" /\ (wire = << >> \/ Last.type \in Breaks) => m.of = FirstOfBatch
  PROVE  /\ WireBatches' /\ Began' /\ ReceiverBatches' /\ batchSize' \in Nat
         /\ Last' = m /\ wire' # << >> /\ FirstOfBatch' = FirstOfBatch
<1>1. TypeOK /\ WireBatches /\ ReceiverBatches /\ batchSize' \in Nat
  BY DEF IInv, BInv, SenderBatches
<1>2. /\ WireBatches' /\ WireGrows /\ Last' = m /\ wire' # << >>
      /\ Len(wire) \in Nat /\ Len(wire') = Len(wire) + 1
      /\ \A z \in 1 .. Len(wire) :
            Inside(z, Len(wire))' <=> Inside(z, Len(wire)) /\ m.type \notin Breaks
      /\ Begins(Len(wire))' =>
            m.type = "Metadata" /\ (wire = << >> \/ Last.type \in Breaks)
  BY <1>1, WriteBatches
<1>3. Began'
  BY <1>2, BeganGoesOn
<1>4. ReceiverBatches'
  BY <1>1, <1>2, KeptReceiverBatches DEF Write
<1> QED BY <1>1, <1>2, <1>3, <1>4 DEF FirstOfBatch

LEMMA SenderBInv == IInv /\ BInv /\ SenderStep => BInv'
<1> SUFFICES ASSUME IInv, BInv PROVE SenderStep => BInv'
  OBVIOUS
<1>t. /\ TypeOK /\ SenderInv /\ SenderBatches /\ WireBatches
      /\ sIdx \in Nat /\ sPos \in Nat /\ Len(offered) \in Nat /\ batchSize \in Nat
      /\ wire \in Seq(Message) /\ (wire = << >> <=> Len(wire) = 0) /\ Len(wire) \in Nat
      /\ FirstOfBatch \in Int
  <2>1. offered \in Seq(File) /\ wire \in Seq(Message)
    BY DEF IInv, TypeOK
  <2>2. Len(offered) \in Nat /\ Len(wire) \in Nat
    BY <2>1, LenProperties
  <2> QED BY <2>1, <2>2, EmptySeq DEF IInv, BInv, SenderBatches, TypeOK, FirstOfBatch
<1>1. ASSUME SendOpen PROVE BInv'
  <2> DEFINE m == Msg("Open", 0, 0)
  <2>1. m \in Message /\ m.type = "Open"
    BY DEF Msg, Message
  <2>2. Write(m) /\ UNCHANGED <<offered, batchSize, sIdx, recvVars>> /\ spc = "open" /\ spc' = "meta"
    BY <1>1 DEF SendOpen
  <2> HIDE DEF m
  <2>3. /\ WireBatches' /\ Began' /\ ReceiverBatches' /\ batchSize' \in Nat
        /\ Last' = m /\ wire' # << >> /\ FirstOfBatch' = FirstOfBatch
    BY <2>1, <2>2, SenderWrites DEF Precedes, Breaks
  <2> QED BY <1>t, <2>1, <2>2, <2>3 DEF BInv, SenderBatches
<1>2. ASSUME SendMetadata PROVE BInv'
  <2> DEFINE m == Msg("Metadata", sIdx, sPos')
  <2>1. /\ Write(m) /\ UNCHANGED <<offered, batchSize, sIdx, recvVars>>
        /\ spc = "meta" /\ spc' = "chunks"
    BY <1>2 DEF SendMetadata
  <2>2. m \in Message /\ m.type = "Metadata" /\ m.of = sIdx
    <3>1. sPos' \in Nat
      BY <1>2, NextIInv DEF Next, SenderStep, IInv, TypeOK
    <3> QED BY <1>t, <3>1 DEF Msg, Message
  <2> HIDE DEF m
  <2>3. /\ \/ (wire = << >> \/ Last.type = "Open") /\ sIdx = FirstOfBatch
           \/ /\ wire # << >> /\ Last.type = "SessionEnd" /\ Last.of + 1 = sIdx
              /\ sIdx = FirstOfBatch
           \/ wire # << >> /\ Last.type = "Complete" /\ Last.of + 1 = sIdx
        /\ Began
    BY <1>t, <2>1 DEF SenderBatches
  <2>4. /\ WireBatches' /\ Began' /\ ReceiverBatches' /\ batchSize' \in Nat
        /\ Last' = m /\ wire' # << >> /\ FirstOfBatch' = FirstOfBatch
    <3>1. wire # << >> => Precedes(Last, m)
      BY <2>2, <2>3 DEF Precedes
    <3>2. m.type = "Metadata" /\ (wire = << >> \/ Last.type \in Breaks) => m.of = FirstOfBatch
      BY <2>2, <2>3 DEF Breaks
    <3>3. m.type \notin {"Chunk", "Complete", "SessionEnd"}
      BY <2>2
    <3> QED BY <2>1, <2>2, <2>3, <3>1, <3>2, <3>3, SenderWrites
  <2> QED BY <2>1, <2>4 DEF BInv, SenderBatches
<1>3. ASSUME SendChunk PROVE BInv'
  <2> DEFINE m == Msg("Chunk", sIdx, sPos')
  <2>1. /\ Write(m) /\ UNCHANGED <<offered, batchSize, sIdx, recvVars, spc>> /\ spc = "chunks"
        /\ sPos' = sPos + 1
    BY <1>3 DEF SendChunk
  <2>2. m \in Message /\ m.type = "Chunk"
    BY <1>t, <2>1 DEF Msg, Message
  <2> HIDE DEF m
  <2>3. Began /\ wire # << >>
    BY <1>t, <2>1 DEF SenderBatches, SenderInv
  <2>4. /\ WireBatches' /\ Began' /\ ReceiverBatches' /\ batchSize' \in Nat
        /\ Last' = m /\ wire' # << >> /\ FirstOfBatch' = FirstOfBatch
    BY <2>1, <2>2, <2>3, SenderWrites DEF Precedes
  <2> QED BY <2>1, <2>4 DEF BInv, SenderBatches
<1>4. ASSUME SendComplete PROVE BInv'
  <2> DEFINE m == Msg("Complete", sIdx, sPos)
  <2>1. /\ Write(m) /\ UNCHANGED <<offered, batchSize, recvVars>> /\ spc = "chunks"
        /\ sIdx' = sIdx + 1 /\ spc' = IF sIdx = Len(offered) THEN "end" ELSE "meta"
    BY <1>4 DEF SendComplete
  <2>2. m \in Message /\ m.type = "Complete" /\ m.of = sIdx
    BY <1>t DEF Msg, Message
  <2> HIDE DEF m
  <2>3. Began /\ wire # << >>
    BY <1>t, <2>1 DEF SenderBatches, SenderInv
  <2>4. /\ WireBatches' /\ Began' /\ ReceiverBatches' /\ batchSize' \in Nat
        /\ Last' = m /\ wire' # << >> /\ FirstOfBatch' = FirstOfBatch
    BY <2>1, <2>2, <2>3, SenderWrites DEF Precedes
  <2> QED BY <2>1, <2>2, <2>4 DEF BInv, SenderBatches
<1>5. ASSUME SendSessionEnd PROVE BInv'
  <2> DEFINE m == Msg("SessionEnd", Len(offered), batchSize)
  <2>1. /\ Write(m) /\ UNCHANGED <<offered, batchSize, recvVars>> /\ spc = "end"
        /\ spc' = "between"
    BY <1>5 DEF SendSessionEnd
  <2>2. m \in Message /\ m.type = "SessionEnd" /\ m.of = Len(offered) /\ m.k = batchSize
    BY <1>t DEF Msg, Message
  <2> HIDE DEF m
  <2>3. Began /\ Last.type = "Complete" /\ Last.of = Len(offered) /\ wire # << >>
    BY <1>t, <2>1 DEF SenderBatches, SenderInv
  <2>4. ASSUME NEW z \in 1 .. Len(wire), Begins(z), Inside(z, Len(wire))
        PROVE  m.k = m.of - wire[z].of + 1
    <3>1. wire[z].of = Len(offered) - batchSize + 1
      BY <2>3, <2>4 DEF Began, FirstOfBatch
    <3> QED BY <1>t, <2>2, <3>1
  <2>5. /\ WireBatches' /\ ReceiverBatches' /\ batchSize' \in Nat
        /\ Last' = m /\ wire' # << >>
    <3>1. Precedes(Last, m)
      BY <2>2, <2>3 DEF Precedes
    <3>2. m.type # "Metadata" /\ m.type \in Breaks
      BY <2>2 DEF Breaks
    <3> QED BY <2>1, <2>2, <2>3, <2>4, <3>1, <3>2, SenderWrites
  <2> QED BY <2>1, <2>2, <2>5 DEF BInv, SenderBatches
<1>6. ASSUME WaitForReceiver PROVE BInv'
  <2>1. /\ UNCHANGED <<offered, batchSize, sIdx, wire, gaps, recvVars>> /\ spc = "ready"
        /\ spc' = "open"
    BY <1>6 DEF WaitForReceiver, linkVars
  <2>2. WireGrows
    BY <1>t, <2>1 DEF WireGrows
  <2>3. ReceiverBatches'
    BY <2>1, <2>2, KeptReceiverBatches DEF BInv
  <2>4. WireBatches' /\ SenderBatches'
    BY <1>t, <2>1 DEF WireBatches, SenderBatches, FirstOfBatch, Counts, Begins, Inside
  <2> QED BY <2>3, <2>4 DEF BInv
<1> QED BY <1>1, <1>2, <1>3, <1>4, <1>5, <1>6 DEF SenderStep

(* Users, and what breaks.                                                  *)
LEMMA EnvironmentBInv ==
  IInv /\ BInv /\ (NextBatch \/ Finish \/ SenderFails \/ Reload \/ LinkLost \/ PeerCloses)
     => BInv'
<1> SUFFICES ASSUME IInv, BInv
             PROVE  NextBatch \/ Finish \/ SenderFails \/ Reload \/ LinkLost \/ PeerCloses
                       => BInv'
  OBVIOUS
<1>t. /\ TypeOK /\ SenderInv /\ SenderBatches /\ WireBatches
      /\ sIdx \in Nat /\ Len(offered) \in Nat /\ batchSize \in Nat
      /\ wire \in Seq(Message) /\ (wire = << >> <=> Len(wire) = 0) /\ Len(wire) \in Nat
  <2>1. offered \in Seq(File) /\ wire \in Seq(Message)
    BY DEF IInv, TypeOK
  <2>2. Len(offered) \in Nat /\ Len(wire) \in Nat
    BY <2>1, LenProperties
  <2> QED BY <2>1, <2>2, EmptySeq DEF IInv, BInv, SenderBatches, TypeOK
<1>w. ASSUME wire' = wire
      PROVE  WireBatches' /\ WireGrows
  <2>1. WireGrows
    BY <1>t, <1>w DEF WireGrows
  <2>2. \A j \in 2 .. Len(wire) : \A z \in 1 .. j - 1 : Counts(z, j)'
    <3>1. \A j \in 2 .. Len(wire) : \A z \in 1 .. j - 1 :
             j \in 1 .. Len(wire) /\ z \in 1 .. Len(wire) /\ Counts(z, j)
      BY <1>t DEF WireBatches
    <3> QED BY <1>t, <2>1, <3>1, KeptBatches
  <2>3. WireBatches'
    BY <1>t, <1>w, <2>2 DEF WireBatches
  <2> QED BY <2>1, <2>3
<1>1. ASSUME NextBatch PROVE BInv'
  <2>1. PICK b \in Batches : offered' = offered \o b /\ batchSize' = Len(b)
    BY <1>1 DEF NextBatch
  <2>2. spc = "between" /\ spc' = "meta" /\ UNCHANGED <<sIdx, wire, gaps, recvVars>>
    BY <1>1 DEF NextBatch, linkVars
  <2>3. Len(b) \in Nat /\ Len(offered') = Len(offered) + Len(b)
    BY <1>t, <2>1, BatchAdded
  <2>4. sIdx = FirstOfBatch' /\ batchSize' \in Nat
    BY <1>t, <2>1, <2>2, <2>3 DEF SenderInv, FirstOfBatch
  <2>5. wire # << >> /\ Last.type = "SessionEnd" /\ Last.of + 1 = sIdx
    BY <1>t, <2>2 DEF SenderBatches, SenderInv
  <2>6. ASSUME NEW z \in 1 .. Len(wire)
        PROVE  ~(Begins(z) /\ Inside(z, Len(wire)))
    <3>1. z = Len(wire) \/ Len(wire) \in z + 1 .. Len(wire)
      BY <1>t
    <3> QED BY <2>5, <3>1 DEF Begins, Inside, Last, Breaks
  <2>7. Began'
    BY <2>2, <2>6 DEF Began, Begins, Inside
  <2>8. ReceiverBatches'
    BY <1>w, <2>2, KeptReceiverBatches DEF BInv
  <2> QED BY <1>w, <2>2, <2>4, <2>5, <2>7, <2>8 DEF BInv, SenderBatches, Last
<1>2. ASSUME Finish \/ SenderFails PROVE BInv'
  <2>1. UNCHANGED <<batchSize, wire, gaps, recvVars>> /\ spc' \in {"done", "failed"}
    BY <1>2 DEF Finish, SenderFails, CloseLink
  <2>2. ReceiverBatches'
    BY <1>w, <2>1, KeptReceiverBatches DEF BInv
  <2> QED BY <1>t, <1>w, <2>1, <2>2 DEF BInv, SenderBatches
<1>3. ASSUME Reload PROVE BInv'
  <2>1. PICK v \in Versions : Write(Msg("Version", 0, v))
    BY <1>3 DEF Reload
  <2>2. PICK b \in Batches : offered' = offered \o b /\ batchSize' = Len(b)
    BY <1>3 DEF Reload
  <2>3. sIdx' = Len(offered) + 1 /\ spc' = "ready" /\ UNCHANGED <<recvVars, gaps>>
    BY <1>3 DEF Reload, Write
  <2>4. Len(b) \in Nat /\ Len(offered') = Len(offered) + Len(b)
    BY <1>t, <2>2, BatchAdded
  <2>5. sIdx' = FirstOfBatch' /\ batchSize' \in Nat
    BY <1>t, <2>2, <2>3, <2>4 DEF FirstOfBatch
  <2> DEFINE m == Msg("Version", 0, v)
  <2>6. m \in Message /\ m.type = "Version" /\ Write(m)
    BY <2>1, BoundAssumption DEF Msg, Message, BoundAssumption
  <2> HIDE DEF m
  <2>7. WireBatches' /\ WireGrows
    <3>1. wire # << >> => Precedes(Last, m)
      BY <2>6 DEF Precedes
    <3>2. m.type \notin {"Chunk", "Complete", "SessionEnd"}
      BY <2>6
    <3> QED BY <1>t, <2>6, <3>1, <3>2, WriteBatches
  <2>8. ReceiverBatches'
    BY <2>3, <2>7, KeptReceiverBatches DEF BInv
  <2> QED BY <2>3, <2>5, <2>7, <2>8 DEF BInv, SenderBatches
<1>4. ASSUME LinkLost \/ PeerCloses PROVE BInv'
  <2>1. UNCHANGED <<wire, gaps, offered, batchSize, spc, sIdx, recvVars>>
    BY <1>4 DEF LinkLost, PeerCloses, senderVars
  <2>2. ReceiverBatches'
    BY <1>w, <2>1, KeptReceiverBatches DEF BInv
  <2>3. SenderBatches'
    BY <1>t, <2>1 DEF SenderBatches, FirstOfBatch, Last, Began, Begins, Inside
  <2> QED BY <1>w, <2>1, <2>2, <2>3 DEF BInv
<1> QED BY <1>1, <1>2, <1>3, <1>4

LEMMA StartBInv == IInv /\ StartSession => BInv'
<1> SUFFICES ASSUME IInv, StartSession PROVE BInv'
  OBVIOUS
<1>1. PICK b \in Batches, negotiates \in BOOLEAN :
         /\ offered' = b /\ batchSize' = Len(b)
         /\ spc' = IF negotiates THEN "open" ELSE "meta"
  BY DEF StartSession
<1>2. b \in Seq(File) /\ Len(b) \in Nat
  BY DataAssumption, LenProperties DEF DataAssumption
<1>3. /\ sIdx' = 1 /\ wire' = << >> /\ rpc' = "first" /\ rd' = 0 /\ paths' = << >>
  BY DEF StartSession
<1>4. Len(wire') = 0 /\ Len(paths') = 0
  BY <1>3, EmptySeq
<1>5. WireBatches' /\ Began'
  BY <1>3, <1>4 DEF WireBatches, Began
<1>6. FirstOfBatch' = 1 /\ batchSize' \in Nat
  BY <1>1, <1>2 DEF FirstOfBatch
<1>7. SenderBatches'
  BY <1>1, <1>3, <1>5, <1>6 DEF SenderBatches
<1>8. ReceiverBatches'
  BY <1>3, <1>4 DEF ReceiverBatches, Ascending, Placed, Reading, CoversBatch, Undropped
<1> QED BY <1>5, <1>7, <1>8 DEF BInv

LEMMA InitBInv == Init => BInv
<1> SUFFICES ASSUME Init PROVE BInv
  OBVIOUS
<1>1. /\ batchSize = 0 /\ spc = "off" /\ wire = << >> /\ rpc = "off" /\ paths = << >>
      /\ Len(wire) = 0 /\ Len(paths) = 0
  BY EmptySeq DEF Init
<1> QED
  BY <1>1 DEF BInv, WireBatches, SenderBatches, ReceiverBatches, ReceiverDone

(* What the receiver leaves alone when it reads.                            *)
LEMMA ReadingKeeps ==
  ASSUME BInv, UNCHANGED <<wire, senderVars>>
  PROVE  WireBatches' /\ SenderBatches'
<1>1. UNCHANGED <<offered, batchSize, spc, sIdx>>
  BY DEF senderVars
<1> QED
  BY <1>1 DEF BInv, WireBatches, SenderBatches, Counts, FirstOfBatch, Last, Began, Begins, Inside

(* Its batch goes on with a message that is not the end of one.             *)
LEMMA StartedGoesOn ==
  ASSUME IInv, rd < arrives, rd' = rd + 1, UNCHANGED wire, Next_.type \notin Breaks,
         NEW first, Started(first)
  PROVE  Started(first)'
<1>1. PICK z \in 1 .. rd : Begins(z) /\ Inside(z, rd) /\ wire[z].of = first
  BY DEF Started
<1>2. rd \in Nat /\ z \in 1 .. rd + 1
  BY NextRead
<1>3. \A h \in z + 1 .. rd + 1 : h \in z + 1 .. rd \/ h = rd + 1
  BY <1>2
<1>4. Inside(z, rd + 1)
  BY <1>1, <1>3 DEF Inside, Next_
<1> QED BY <1>1, <1>2, <1>4 DEF Started, Begins, Inside

(* Where the next message stands on the wire.                               *)
LEMMA NextReached ==
  ASSUME IInv, WireBatches, rd < arrives
  PROVE  /\ rd \in Nat /\ Next_ = wire[rd + 1] /\ Next_.of \in Nat /\ Reached(rd + 1) \in Int
         /\ rd > 0 => Reached(rd) \in Int
         /\ Next_.type = "Metadata" => Reached(rd + 1) = Next_.of - 1
         /\ Next_.type \in {"Chunk", "Complete"} =>
               /\ rd > 0 /\ wire[rd].type \in {"Metadata", "Chunk"} /\ wire[rd].of = Next_.of
               /\ Reached(rd) = Next_.of - 1
         /\ Next_.type = "SessionEnd" =>
               rd > 0 /\ wire[rd].type = "Complete" /\ Reached(rd) = Next_.of
         /\ rd > 0 /\ wire[rd].type \notin {"Open", "Version"}
            /\ Next_.type \in {"Metadata", "Chunk", "Complete", "SessionEnd"} =>
               /\ Reached(rd + 1) = IF Next_.type = "Complete" THEN Next_.of ELSE Reached(rd)
               /\ Next_.type = "Metadata" => Next_.of = Reached(rd) + 1
<1>1. /\ rd \in Nat /\ rd + 1 \in 1 .. Len(wire) /\ Next_ = wire[rd + 1] /\ Next_ \in Message
      /\ rd > 0 => Follows(wire[rd], Next_)
      /\ wire \in Seq(Message) /\ Len(wire) \in Nat
  BY NextRead, LenProperties DEF Next_, IInv, TypeOK
<1>2. Next_.of \in Nat /\ (rd > 0 => wire[rd] \in Message /\ wire[rd].of \in Nat)
  <2>1. rd > 0 => rd \in 1 .. Len(wire)
    BY <1>1
  <2>2. rd > 0 => wire[rd] \in Message
    BY <1>1, <2>1, ElementOfSeq
  <2> QED BY <1>1, <2>2 DEF Message
<1>3. rd > 0 => Precedes(wire[rd], Next_)
  <2> SUFFICES ASSUME rd > 0 PROVE Precedes(wire[rd], Next_)
    OBVIOUS
  <2>1. rd + 1 \in 2 .. Len(wire) /\ (rd + 1) - 1 = rd
    BY <1>1
  <2> QED BY <1>1, <2>1 DEF WireBatches
<1>4. rd = 0 => Next_.type \notin {"Chunk", "Complete", "SessionEnd"}
  <2> SUFFICES ASSUME rd = 0 PROVE Next_.type \notin {"Chunk", "Complete", "SessionEnd"}
    OBVIOUS
  <2>1. wire # << >>
    BY <1>1, EmptySeq
  <2>2. Next_ = wire[1]
    BY <1>1
  <2> QED BY <2>1, <2>2 DEF WireBatches
<1>5. Reached(rd + 1) = IF Next_.type \in {"Complete", "SessionEnd"} THEN Next_.of ELSE Next_.of - 1
  BY <1>1 DEF Reached
<1>6. rd > 0 => Reached(rd) = IF wire[rd].type \in {"Complete", "SessionEnd"}
                              THEN wire[rd].of ELSE wire[rd].of - 1
  BY DEF Reached
<1>7. Reached(rd + 1) \in Int /\ (rd > 0 => Reached(rd) \in Int)
  <2>1. (Next_.of - 1) \in Int /\ (rd > 0 => wire[rd].of - 1 \in Int)
    BY <1>2
  <2> QED BY <1>2, <1>5, <1>6, <2>1
<1>8. Next_.type \in {"Chunk", "Complete"} =>
         /\ rd > 0 /\ wire[rd].type \in {"Metadata", "Chunk"} /\ wire[rd].of = Next_.of
         /\ Reached(rd) = Next_.of - 1
  <2> SUFFICES ASSUME Next_.type \in {"Chunk", "Complete"}
               PROVE  /\ rd > 0 /\ wire[rd].type \in {"Metadata", "Chunk"}
                      /\ wire[rd].of = Next_.of /\ Reached(rd) = Next_.of - 1
    OBVIOUS
  <2>1. rd > 0
    BY <1>1, <1>4
  <2> QED BY <1>1, <1>6, <2>1 DEF Follows
<1>9. Next_.type = "SessionEnd" => rd > 0 /\ wire[rd].type = "Complete" /\ Reached(rd) = Next_.of
  <2> SUFFICES ASSUME Next_.type = "SessionEnd"
               PROVE  rd > 0 /\ wire[rd].type = "Complete" /\ Reached(rd) = Next_.of
    OBVIOUS
  <2>1. rd > 0
    BY <1>1, <1>4
  <2> QED BY <1>3, <1>6, <2>1 DEF Precedes
<1>10. ASSUME rd > 0, wire[rd].type \notin {"Open", "Version"}, Next_.type = "Metadata"
       PROVE  Next_.of = Reached(rd) + 1 /\ Next_.of - 1 = Reached(rd)
  <2>1. wire[rd].type \in {"Complete", "SessionEnd"} /\ Next_.of = wire[rd].of + 1
    BY <1>3, <1>10 DEF Precedes
  <2> QED BY <1>2, <1>6, <1>10, <2>1
<1>11. ASSUME rd > 0, wire[rd].type \notin {"Open", "Version"},
              Next_.type \in {"Metadata", "Chunk", "Complete", "SessionEnd"}
       PROVE  Reached(rd + 1) = IF Next_.type = "Complete" THEN Next_.of ELSE Reached(rd)
  BY <1>5, <1>8, <1>9, <1>10, <1>11
<1> QED BY <1>1, <1>2, <1>5, <1>7, <1>8, <1>9, <1>10, <1>11

(* A message more, read or dropped, leaves out no file of which nothing was *)
(* dropped.                                                                 *)
Takes ==
    /\ Cut \subseteq Cut' /\ Got \subseteq Got'
    /\ Next_.type = "Complete" => Next_.of \in Cut' \cup Got'

LEMMA CoveredGoesOn ==
  ASSUME IInv, WireBatches, rd < arrives, UNCHANGED wire, rd' = rd + 1, Takes,
         rd > 0, wire[rd].type \notin {"Open", "Version"},
         Next_.type \in {"Metadata", "Chunk", "Complete", "SessionEnd"},
         NEW f \in Nat, Covered(f)
  PROVE  \A g \in f .. Reached(rd + 1) : g \in Cut' \cup Got'
<1>1. /\ Reached(rd) \in Int /\ Reached(rd + 1) \in Int /\ Next_.of \in Nat
      /\ Reached(rd + 1) = IF Next_.type = "Complete" THEN Next_.of ELSE Reached(rd)
      /\ Next_.type = "Complete" => Reached(rd) = Next_.of - 1
  BY NextReached
<1>2. \A g \in f .. Reached(rd) : g \in Cut' \cup Got'
  BY DEF Covered, Takes
<1>3. ASSUME NEW g \in f .. Reached(rd + 1)
      PROVE  g \in f .. Reached(rd) \/ (Next_.type = "Complete" /\ g = Next_.of)
  BY <1>1, <1>3
<1> QED BY <1>2, <1>3 DEF Takes

LEMMA CoversBatchGoesOn ==
  ASSUME IInv, WireBatches, rd < arrives, UNCHANGED wire, rd' = rd + 1, CoversBatch,
         Next_.type \in Breaks \/ Takes
  PROVE  CoversBatch'
<1>1. /\ rd \in Nat /\ Next_ = wire[rd + 1] /\ rd + 1 \in 1 .. Len(wire)
      /\ wire \in Seq(Message) /\ Next_ \in Message
  BY NextReached, NextRead DEF IInv, TypeOK
<1>2. ASSUME NEW z \in 1 .. rd, Next_.type \notin Breaks
      PROVE  Inside(z, rd + 1) <=> Inside(z, rd)
  <2>1. \A h : h \in z + 1 .. rd + 1 <=> h \in z + 1 .. rd \/ h = rd + 1
    BY <1>1
  <2> QED BY <1>1, <1>2, <2>1 DEF Inside
<1>3. ASSUME NEW z \in 1 .. rd, Next_.type \in Breaks
      PROVE  ~Inside(z, rd + 1)
  <2>1. rd + 1 \in z + 1 .. rd + 1
    BY <1>1
  <2> QED BY <1>1, <1>3, <2>1 DEF Inside
<1>4. Inside(rd + 1, rd + 1)
  <2>1. \A h : h \notin (rd + 1) + 1 .. rd + 1
    BY <1>1
  <2> QED BY <2>1 DEF Inside
<1>5. ASSUME Next_.type \notin Breaks
      PROVE  \E z \in 1 .. rd + 1 : Begins(z) /\ Inside(z, rd + 1)
  <2>1. CASE rd > 0 /\ wire[rd].type \notin Breaks
    <3>1. PICK z \in 1 .. rd : Begins(z) /\ Inside(z, rd)
      BY <2>1 DEF CoversBatch
    <3>2. z \in 1 .. rd + 1
      BY <1>1
    <3> QED BY <1>2, <1>5, <3>1, <3>2
  <2>2. CASE ~(rd > 0 /\ wire[rd].type \notin Breaks)
    <3>1. Next_.type = "Metadata"
      <4>1. Next_.type \notin {"Chunk", "Complete"}
        BY <2>2, NextReached DEF Breaks
      <4> QED BY <1>1, <1>5, <4>1 DEF Message, Breaks
    <3>2. Begins(rd + 1)
      <4>1. rd + 1 = 1 \/ (rd > 0 /\ (rd + 1) - 1 = rd)
        BY <1>1
      <4> QED BY <1>1, <2>2, <3>1, <4>1 DEF Begins
    <3>3. rd + 1 \in 1 .. rd + 1
      BY <1>1
    <3> QED BY <1>4, <3>2, <3>3
  <2> QED BY <2>1, <2>2
<1>6. ASSUME NEW z \in 1 .. rd + 1, Begins(z), Inside(z, rd + 1)
      PROVE  \A g \in wire[z].of .. Reached(rd + 1) : g \in Cut' \cup Got'
  <2>1. CASE z = rd + 1
    <3>1. Reached(rd + 1) = Next_.of - 1 /\ wire[z].of = Next_.of /\ Next_.of \in Nat
      BY <1>1, <1>6, <2>1, NextReached DEF Begins
    <3> QED BY <3>1
  <2>2. CASE z # rd + 1
    <3>1. z \in 1 .. rd /\ rd > 0 /\ rd \in 1 .. Len(wire) /\ z \in 1 .. Len(wire)
      BY <1>1, <2>2
    <3>2. Next_.type \notin Breaks
      BY <1>3, <1>6, <3>1
    <3>3. Inside(z, rd)
      BY <1>2, <1>6, <3>1, <3>2
    <3>4. wire[rd].type \notin {"Open", "Version"}
      <4>1. z = rd \/ rd \in z + 1 .. rd
        BY <3>1
      <4> QED BY <1>6, <3>3, <4>1 DEF Inside, Begins, Breaks
    <3>5. Covered(wire[z].of)
      BY <1>6, <3>1, <3>3 DEF CoversBatch
    <3>6. wire[z].of \in Nat
      <4>1. wire[z] \in Message
        BY <1>1, <3>1, ElementOfSeq
      <4> QED BY <4>1 DEF Message
    <3>7. Next_.type \in {"Metadata", "Chunk", "Complete", "SessionEnd"} /\ Takes
      BY <1>1, <3>2 DEF Message, Breaks
    <3> QED BY <3>1, <3>4, <3>5, <3>6, <3>7, CoveredGoesOn
  <2> QED BY <2>1, <2>2
<1>7. /\ \A z : Begins(z)' <=> Begins(z)
      /\ \A z : Inside(z, rd)' <=> Inside(z, rd + 1)
      /\ \A f : Covered(f)' <=> \A g \in f .. Reached(rd + 1) : g \in Cut' \cup Got'
  BY DEF Begins, Inside, Covered, Reached
<1> QED BY <1>1, <1>5, <1>6, <1>7 DEF CoversBatch

(* What a live receiver knows.                                              *)
LEMMA LiveReceiver ==
  ASSUME IInv, ReceiverBatches, ~ReceiverDone
  PROVE  /\ Ascending /\ Placed /\ Reading /\ CoversBatch /\ (gaps = {} => Undropped)
         /\ rpc \in {"first", "recv", "body", "peek", "idle"}
         /\ paths \in Seq(Entry) /\ Len(paths) \in Nat /\ (paths = << >> <=> Len(paths) = 0)
         /\ \A i \in 1 .. Len(paths) : paths[i].of \in Nat
         /\ rpc = "body" => cur.of \in Nat
<1>1. paths \in Seq(Entry) /\ rpc \in {"off", "first", "recv", "body", "peek", "idle", "ok", "err"}
  BY DEF IInv, TypeOK
<1>2. /\ Len(paths) \in Nat /\ (paths = << >> <=> Len(paths) = 0)
      /\ \A i \in 1 .. Len(paths) : paths[i] \in Entry
  BY <1>1, LenProperties, EmptySeq, ElementOfSeq
<1>3. rpc = "body" => cur.of \in Nat
  BY DEF IInv, BodyInv, TypeOK
<1> QED BY <1>1, <1>2, <1>3 DEF ReceiverBatches, ReceiverDone, Entry

(* In a file, and whatever comes next but a Complete that is read.          *)
LEMMA PlacedGoesOn ==
  ASSUME IInv, WireBatches, ReceiverBatches, ~ReceiverDone,
         rd < arrives, UNCHANGED <<wire, rpc, cur, paths>>, rd' = rd + 1, Takes,
         Next_.type \in {"Metadata", "Chunk", "Complete", "SessionEnd"}
  PROVE  Placed'
<1>1. /\ Placed /\ Len(paths) \in Nat /\ (paths = << >> <=> Len(paths) = 0)
      /\ \A i \in 1 .. Len(paths) : paths[i].of \in Nat
      /\ rpc = "body" => cur.of \in Nat
      /\ rpc \in {"first", "recv", "body", "peek", "idle"}
  BY LiveReceiver
<1>2. Reached(rd)' = Reached(rd + 1) /\ wire'[rd'] = Next_
  BY DEF Reached, Next_
<1> SUFFICES ASSUME rpc \in {"body", "peek"}
             PROVE  Placed'
  BY <1>1 DEF Placed
<1>3. rd > 0 /\ wire[rd].type \notin {"Open", "Version"} /\ rd \in Nat /\ rd' > 0
  BY <1>1, NextReached DEF Placed
<1>4. Reached(rd) \in Int /\ Reached(rd + 1) \in Int /\ Reached(rd) <= Reached(rd + 1)
  <2>1. /\ Reached(rd) \in Int /\ Reached(rd + 1) \in Int
        /\ Reached(rd + 1) = IF Next_.type = "Complete" THEN Next_.of ELSE Reached(rd)
        /\ Next_.type = "Complete" => Reached(rd) = Next_.of - 1 /\ Next_.of \in Nat
    BY <1>3, NextReached
  <2> QED BY <2>1
<1>5. ASSUME NEW f \in Nat, Covered(f)
      PROVE  Covered(f)'
  <2>1. \A g \in f .. Reached(rd + 1) : g \in Cut' \cup Got'
    BY <1>3, <1>5, CoveredGoesOn
  <2> QED BY <1>2, <2>1 DEF Covered
<1>6. rpc = "body" => cur.of <= Reached(rd + 1) + 1 /\ Covered(cur.of)'
  <2> SUFFICES ASSUME rpc = "body"
               PROVE  cur.of <= Reached(rd + 1) + 1 /\ Covered(cur.of)'
    OBVIOUS
  <2>1. cur.of \in Nat /\ cur.of <= Reached(rd) + 1 /\ Covered(cur.of)
    BY <1>1 DEF Placed
  <2>2. cur.of <= Reached(rd + 1) + 1
    BY <1>4, <2>1
  <2>3. Covered(cur.of)'
    <3> DEFINE f == cur.of
    <3>1. f' = f /\ Covered(f)
      BY <2>1
    <3>2. \A g \in f .. Reached(rd + 1) : g \in Cut' \cup Got'
      BY <1>3, <2>1, CoveredGoesOn
    <3> QED BY <1>2, <3>1, <3>2 DEF Covered
  <2> QED BY <2>2, <2>3
<1>7. paths # << >> => Covered(paths[1].of)' /\ \A i \in 1 .. Len(paths) : paths[i].of <= Reached(rd + 1)
  <2> SUFFICES ASSUME paths # << >>
               PROVE  Covered(paths[1].of)' /\ \A i \in 1 .. Len(paths) : paths[i].of <= Reached(rd + 1)
    OBVIOUS
  <2>1. Covered(paths[1].of) /\ paths[1].of \in Nat
    <3>1. 1 \in 1 .. Len(paths)
      BY <1>1
    <3> QED BY <1>1, <3>1 DEF Placed
  <2>2. \A i \in 1 .. Len(paths) : paths[i].of <= Reached(rd)
    BY <1>1 DEF Placed
  <2>3. \A i \in 1 .. Len(paths) : paths[i].of <= Reached(rd + 1)
    BY <1>1, <1>4, <2>2
  <2>4. \A g \in paths[1].of .. Reached(rd + 1) : g \in Cut' \cup Got'
    BY <1>3, <2>1, CoveredGoesOn
  <2> QED BY <1>2, <2>3, <2>4 DEF Covered
<1> QED BY <1>1, <1>2, <1>3, <1>6, <1>7 DEF Placed

(* The receiver's process is over.                                          *)
LEMMA OverBInv ==
  ASSUME BInv, UNCHANGED <<wire, senderVars>>, rpc' \in {"ok", "err"}
  PROVE  BInv'
BY ReadingKeeps DEF BInv, ReceiverBatches, ReceiverDone

(* Between batches nothing is owed.                                         *)
LEMMA IdleBInv ==
  ASSUME IInv, BInv, ~ReceiverDone, UNCHANGED <<wire, senderVars>>, rd < arrives, rd' = rd + 1,
         Next_.type \in Breaks, rpc' \in {"first", "recv", "idle"}, paths' = << >>
  PROVE  BInv'
<1>1. WireBatches /\ ReceiverBatches /\ CoversBatch
  BY LiveReceiver DEF BInv
<1>2. CoversBatch'
  BY <1>1, CoversBatchGoesOn
<1>3. Len(paths') = 0 /\ wire'[rd'] = Next_
  BY EmptySeq DEF Next_
<1>4. Ascending' /\ Placed' /\ Reading' /\ Undropped'
  BY <1>3 DEF Ascending, Placed, Reading, Undropped, Breaks
<1> QED BY <1>2, <1>4, ReadingKeeps DEF BInv, ReceiverBatches

LEMMA MetadataBInv == IInv /\ BInv /\ ReadMetadata => BInv'
<1> SUFFICES ASSUME IInv, BInv, ReadMetadata PROVE BInv'
  OBVIOUS
<1>1. /\ UNCHANGED <<wire, gaps, senderVars, paths>> /\ ~ReceiverDone
      /\ rpc' \in {"body", "err"} /\ rd < arrives
      /\ rd' = rd + 1 /\ Next_.type = "Metadata" /\ cur'.of = Next_.of
  BY DEF ReadMetadata, Read, linkVars, Leave, Next_, ReceiverDone
<1>2. WireBatches /\ ReceiverBatches
  BY DEF BInv
<1> SUFFICES ASSUME rpc' = "body" PROVE BInv'
  BY <1>1, OverBInv
<1>3. /\ Ascending /\ Placed /\ Reading /\ CoversBatch /\ (gaps = {} => Undropped)
      /\ Len(paths) \in Nat /\ (paths = << >> <=> Len(paths) = 0)
      /\ \A i \in 1 .. Len(paths) : paths[i].of \in Nat
      /\ rpc \in {"first", "recv", "body", "peek", "idle"}
  BY <1>1, <1>2, LiveReceiver
<1>4. Takes
  BY <1>1, SameCut DEF Takes, Got
<1>5. CoversBatch' /\ Ascending'
  BY <1>1, <1>2, <1>3, <1>4, CoversBatchGoesOn DEF Ascending
<1>6. /\ Reached(rd)' = Reached(rd + 1) /\ wire'[rd'] = Next_ /\ Reached(rd + 1) = Next_.of - 1
      /\ Next_.of \in Nat /\ rd \in Nat /\ Next_ = wire[rd + 1] /\ rd' > 0
  BY <1>1, <1>2, NextReached DEF Reached, Next_
<1>7. Reading'
  BY <1>1, <1>6 DEF Reading
<1>8. paths # << >> =>
         /\ Covered(paths[1].of)'
         /\ \A i \in 1 .. Len(paths) : paths[i].of < Next_.of /\ paths[i].of <= Reached(rd + 1)
  <2> SUFFICES ASSUME paths # << >>
               PROVE  /\ Covered(paths[1].of)'
                      /\ \A i \in 1 .. Len(paths) :
                            paths[i].of < Next_.of /\ paths[i].of <= Reached(rd + 1)
    OBVIOUS
  <2>1. /\ rd > 0 /\ wire[rd].type \notin {"Open", "Version"} /\ Covered(paths[1].of)
        /\ \A i \in 1 .. Len(paths) : paths[i].of <= Reached(rd)
    BY <1>3 DEF Placed
  <2>2. Next_.of = Reached(rd) + 1 /\ Reached(rd + 1) = Reached(rd) /\ Reached(rd) \in Int
    BY <1>1, <1>2, <2>1, NextReached
  <2>3. paths[1].of \in Nat
    <3>1. 1 \in 1 .. Len(paths)
      BY <1>3
    <3> QED BY <1>3, <3>1
  <2>4. \A g \in paths[1].of .. Reached(rd + 1) : g \in Cut' \cup Got'
    BY <1>1, <1>2, <1>4, <2>1, <2>3, CoveredGoesOn
  <2>5. \A i \in 1 .. Len(paths) : paths[i].of < Next_.of /\ paths[i].of <= Reached(rd + 1)
    BY <1>3, <2>1, <2>2
  <2> QED BY <1>1, <1>6, <2>4, <2>5 DEF Covered
<1>9. Placed'
  <2>1. cur'.of <= Reached(rd + 1) + 1 /\ \A g : g \notin cur'.of .. Reached(rd + 1)
    BY <1>1, <1>6
  <2>2. Covered(cur.of)'
    BY <1>6, <2>1 DEF Covered
  <2>3. \A i \in 1 .. Len(paths) : paths[i].of < cur'.of
    BY <1>1, <1>3, <1>8
  <2> QED BY <1>1, <1>6, <1>8, <2>1, <2>2, <2>3 DEF Placed
<1>10. ASSUME gaps = {}
       PROVE  Undropped'
  <2>1. Cut = {} /\ Undropped
    BY <1>3, <1>10 DEF Cut
  <2>2. rpc # "body"
    <3> SUFFICES ASSUME rpc = "body" PROVE FALSE
      OBVIOUS
    <3>1. InStep
      BY <2>1 DEF IInv, BodyInv
    <3>2. EndsFirst(wire[rd], Next_)
      BY <1>1, <3>1, NextRead DEF InStep
    <3> QED BY <1>1, <3>1, <3>2 DEF InStep, EndsFirst
  <2>3. CASE paths = << >>
    <3>1. rd > 0 => wire[rd].type \in Breaks
      BY <1>3, <2>1, <2>2, <2>3 DEF Undropped, Placed
    <3>2. Begins(rd + 1)
      <4>1. rd + 1 = 1 \/ (rd > 0 /\ (rd + 1) - 1 = rd)
        BY <1>6
      <4> QED BY <1>1, <1>6, <3>1, <4>1 DEF Begins
    <3>3. rd + 1 \in 1 .. rd + 1 /\ Inside(rd + 1, rd + 1)
      BY <1>6 DEF Inside
    <3>4. FirstReceived' = Next_.of
      BY <1>1, <2>3 DEF FirstReceived
    <3>5. Started(FirstReceived)'
      BY <1>1, <1>6, <3>2, <3>3, <3>4 DEF Started, Begins, Inside
    <3> QED BY <1>6, <3>5 DEF Undropped
  <2>4. CASE paths # << >>
    <3>1. rpc = "peek" /\ Started(FirstReceived)
      BY <1>3, <2>1, <2>2, <2>4 DEF Undropped, Placed
    <3>2. FirstReceived' = FirstReceived
      BY <1>1, <2>4 DEF FirstReceived
    <3>3. \A first : Started(first) => Started(first)'
      BY <1>1, StartedGoesOn DEF Breaks
    <3>4. Started(FirstReceived)'
      BY <3>1, <3>2, <3>3 DEF Started
    <3> QED BY <3>4 DEF Undropped
  <2> QED BY <2>3, <2>4
<1>11. ReceiverBatches'
  BY <1>1, <1>5, <1>7, <1>9, <1>10 DEF ReceiverBatches
<1> QED BY <1>1, <1>11, ReadingKeeps DEF BInv

LEMMA ChunkBInv == IInv /\ BInv /\ ReadChunk => BInv'
<1> SUFFICES ASSUME IInv, BInv, ReadChunk PROVE BInv'
  OBVIOUS
<1>1. /\ UNCHANGED <<wire, gaps, senderVars, paths, cur, rpc>> /\ rpc = "body" /\ rd < arrives
      /\ rd' = rd + 1 /\ Next_.type = "Chunk" /\ ~ReceiverDone
  BY DEF ReadChunk, Read, linkVars, Next_, ReceiverDone
<1>2. WireBatches /\ ReceiverBatches
  BY DEF BInv
<1>3. Ascending /\ Placed /\ Reading /\ CoversBatch /\ (gaps = {} => Undropped)
  BY <1>1, <1>2, LiveReceiver
<1>4. Takes /\ Cut' = Cut
  BY <1>1, SameCut DEF Takes, Got
<1>5. CoversBatch' /\ Ascending' /\ Placed'
  BY <1>1, <1>2, <1>3, <1>4, CoversBatchGoesOn, PlacedGoesOn DEF Ascending
<1>6. Reading'
  <2>1. rd > 0 /\ wire[rd].type \in {"Metadata", "Chunk"} /\ wire[rd].of = Next_.of
    BY <1>1, <1>2, NextReached
  <2> QED BY <1>1, <1>3, <1>4, <2>1 DEF Reading, Next_
<1>7. Undropped => Undropped'
  <2>1. \A first : Started(first) => Started(first)'
    BY <1>1, StartedGoesOn DEF Breaks
  <2>2. FirstReceived' = FirstReceived
    BY <1>1 DEF FirstReceived
  <2>3. Started(FirstReceived) => Started(FirstReceived)'
    BY <2>1, <2>2 DEF Started
  <2> QED BY <1>1, <2>3 DEF Undropped
<1>8. ReceiverBatches'
  BY <1>1, <1>3, <1>5, <1>6, <1>7 DEF ReceiverBatches
<1> QED BY <1>1, <1>8, ReadingKeeps DEF BInv

LEMMA CompleteBInv == IInv /\ BInv /\ ReadComplete => BInv'
<1> SUFFICES ASSUME IInv, BInv, ReadComplete PROVE BInv'
  OBVIOUS
<1>1. /\ UNCHANGED <<wire, gaps, senderVars, cur>> /\ rpc = "body" /\ rpc' = "peek" /\ rd < arrives
      /\ rd' = rd + 1 /\ Next_.type = "Complete" /\ paths' = Append(paths, Saved) /\ ~ReceiverDone
  BY DEF ReadComplete, Read, linkVars, Next_, ReceiverDone
<1>2. WireBatches /\ ReceiverBatches
  BY DEF BInv
<1>3. /\ Ascending /\ Placed /\ Reading /\ CoversBatch /\ (gaps = {} => Undropped)
      /\ paths \in Seq(Entry) /\ Len(paths) \in Nat /\ (paths = << >> <=> Len(paths) = 0)
      /\ \A i \in 1 .. Len(paths) : paths[i].of \in Nat
      /\ cur.of \in Nat
  BY <1>1, <1>2, LiveReceiver
<1>4. Saved.of = cur.of /\ Saved \in Entry
  BY <1>1, <1>3 DEF Saved, Entry, IInv, BodyInv
<1>5. /\ Len(paths') = Len(paths) + 1 /\ paths'[Len(paths) + 1].of = cur.of /\ paths' # << >>
      /\ \A i \in 1 .. Len(paths) : paths'[i] = paths[i]
      /\ \A i \in 1 .. Len(paths') : i \in 1 .. Len(paths) \/ i = Len(paths) + 1
      /\ Len(paths) + 1 \in 1 .. Len(paths') /\ \A i \in 1 .. Len(paths) : i \in 1 .. Len(paths')
  <2>1. /\ Len(paths') = Len(paths) + 1 /\ paths'[Len(paths) + 1] = Saved
        /\ \A i \in 1 .. Len(paths) : paths'[i] = paths[i]
    BY <1>1, <1>3, <1>4, AppendProperties
  <2>2. paths' # << >>
    BY <1>3, <2>1, EmptySeq
  <2> QED BY <1>3, <1>4, <2>1, <2>2
<1>6. Got' = Got \cup {cur.of}
  <2>1. \A i \in 1 .. Len(paths) : paths'[i].of = paths[i].of
    BY <1>5
  <2> QED BY <1>5, <2>1, Zenon DEF Got
<1>7. Takes /\ Cut' = Cut
  <2>1. Cut' = Cut
    BY <1>1, SameCut
  <2>2. rd > 0 /\ wire[rd].type \in {"Metadata", "Chunk"} /\ wire[rd].of = Next_.of
    BY <1>1, <1>2, NextReached
  <2>3. Next_.of \notin Cut => cur.of = Next_.of
    BY <1>3, <2>2 DEF Reading
  <2> QED BY <1>6, <2>1, <2>3 DEF Takes
<1>8. CoversBatch'
  BY <1>1, <1>2, <1>3, <1>7, CoversBatchGoesOn
<1>9. Ascending'
  <2> SUFFICES ASSUME NEW i \in 1 .. Len(paths'), NEW j \in 1 .. Len(paths'), i < j
               PROVE  paths'[i].of < paths'[j].of
    BY DEF Ascending
  <2>1. i \in 1 .. Len(paths)
    BY <1>3, <1>5
  <2>2. CASE j \in 1 .. Len(paths)
    BY <1>3, <1>5, <2>1, <2>2 DEF Ascending
  <2>3. CASE j = Len(paths) + 1
    BY <1>1, <1>3, <1>5, <2>1, <2>3 DEF Placed
  <2> QED BY <1>5, <2>2, <2>3
<1>10. /\ rd \in Nat /\ rd > 0 /\ wire[rd].type \in {"Metadata", "Chunk"}
       /\ Reached(rd)' = Next_.of /\ Reached(rd + 1) = Next_.of /\ Reached(rd) = Next_.of - 1
       /\ wire'[rd'] = Next_ /\ Next_.of \in Nat /\ rd' > 0
  <2>1. /\ rd \in Nat /\ rd > 0 /\ wire[rd].type \in {"Metadata", "Chunk"}
        /\ Reached(rd) = Next_.of - 1 /\ Next_ = wire[rd + 1] /\ Next_.of \in Nat
    BY <1>1, <1>2, NextReached
  <2> QED BY <1>1, <2>1 DEF Reached
<1>11. paths'[1].of = FirstReceived /\ FirstReceived' = FirstReceived
  <2>1. CASE paths = << >>
    BY <1>3, <1>5, <2>1 DEF FirstReceived
  <2>2. CASE paths # << >>
    <3>1. 1 \in 1 .. Len(paths)
      BY <1>3, <2>2
    <3> QED BY <1>5, <2>2, <3>1 DEF FirstReceived
  <2> QED BY <2>1, <2>2
<1>12. Placed'
  <2>1. FirstReceived \in Nat /\ Covered(FirstReceived)
    <3>1. paths # << >> => 1 \in 1 .. Len(paths)
      BY <1>3
    <3> QED BY <1>1, <1>3, <3>1 DEF FirstReceived, Placed
  <2>2. \A g \in FirstReceived .. Reached(rd + 1) : g \in Cut' \cup Got'
    BY <1>1, <1>2, <1>7, <1>10, <2>1, CoveredGoesOn
  <2>3. Covered(paths[1].of)'
    BY <1>10, <1>11, <2>2 DEF Covered
  <2>4. \A i \in 1 .. Len(paths') : paths'[i].of <= Next_.of
    <3>1. cur.of <= Next_.of
      BY <1>1, <1>3, <1>10 DEF Placed
    <3>2. ASSUME NEW i \in 1 .. Len(paths)
          PROVE  paths[i].of <= Next_.of
      <4>1. paths[i].of < cur.of
        BY <1>1, <1>3 DEF Placed
      <4> QED BY <1>3, <1>10, <3>1, <4>1
    <3> QED BY <1>5, <3>1, <3>2
  <2> QED BY <1>1, <1>5, <1>10, <2>3, <2>4 DEF Placed
<1>13. Reading'
  BY <1>1, <1>10 DEF Reading
<1>14. Undropped => Undropped'
  <2>1. \A first : Started(first) => Started(first)'
    BY <1>1, StartedGoesOn DEF Breaks
  <2>2. Started(FirstReceived) => Started(FirstReceived)'
    BY <1>11, <2>1 DEF Started
  <2> QED BY <1>1, <1>10, <2>2 DEF Undropped
<1>15. ReceiverBatches'
  BY <1>1, <1>3, <1>8, <1>9, <1>12, <1>13, <1>14 DEF ReceiverBatches
<1> QED BY <1>1, <1>15, ReadingKeeps DEF BInv

LEMMA DroppedBInv == IInv /\ BInv /\ Dropped => BInv'
<1> SUFFICES ASSUME IInv, BInv, Dropped PROVE BInv'
  OBVIOUS
<1>1. /\ UNCHANGED <<wire, senderVars, paths, cur, rpc>> /\ rd < arrives /\ ~ReceiverDone
      /\ rd' = rd + 1 /\ gaps' = gaps \cup {rd + 1}
  BY DEF Dropped
<1>2. WireBatches /\ ReceiverBatches
  BY DEF BInv
<1>3. Ascending /\ Placed /\ Reading /\ CoversBatch
  BY <1>1, <1>2, LiveReceiver
<1>4. Next_.type \in {"Metadata", "Chunk", "Complete", "SessionEnd"}
  <2>1. rd + 1 \in rd + 1 .. Len(wire) /\ Next_ \in Message
    BY <1>1, NextRead
  <2> QED BY <2>1 DEF Dropped, OnChannel, Next_, Message
<1>5. Cut \subseteq Cut' /\ (Next_.type # "SessionEnd" => Next_.of \in Cut')
  BY <1>1, CutGrows
<1>6. Takes
  BY <1>1, <1>5 DEF Takes, Got
<1>7. CoversBatch' /\ Ascending' /\ Placed'
  BY <1>1, <1>2, <1>3, <1>4, <1>6, CoversBatchGoesOn, PlacedGoesOn DEF Ascending
<1>8. Reading'
  BY <1>1, <1>5 DEF Reading, Next_
<1>9. gaps' # {}
  BY <1>1
<1>10. ReceiverBatches'
  BY <1>7, <1>8, <1>9 DEF ReceiverBatches
<1> QED BY <1>1, <1>10, ReadingKeeps DEF BInv

LEMMA ReceiverBInv == IInv /\ BInv /\ ReceiverStep => BInv'
<1> SUFFICES ASSUME IInv, BInv PROVE ReceiverStep => BInv'
  OBVIOUS
<1>1. ASSUME ReadOpen PROVE BInv'
  <2>1. /\ UNCHANGED <<wire, senderVars, paths>> /\ rpc = "first" /\ rpc' \in {"recv", "idle"}
        /\ rd < arrives /\ rd' = rd + 1 /\ Next_.type = "Open" /\ ~ReceiverDone
    BY <1>1 DEF ReadOpen, Read, linkVars, Next_, ReceiverDone
  <2>2. paths' = << >>
    BY <2>1, LiveReceiver DEF BInv, Placed
  <2> QED BY <2>1, <2>2, IdleBInv DEF Breaks
<1>2. ASSUME ReadSessionEnd PROVE BInv'
  <2>1. /\ UNCHANGED <<wire, senderVars>> /\ paths' = << >> /\ rpc' \in {"idle", "ok"}
        /\ rd < arrives /\ rd' = rd + 1 /\ Next_.type = "SessionEnd" /\ ~ReceiverDone
    BY <1>2 DEF ReadSessionEnd, Read, Report, linkVars, Leave, Next_, ReceiverDone
  <2> QED BY <2>1, IdleBInv, OverBInv DEF Breaks
<1>3. ASSUME ReadVersion PROVE BInv'
  <2>1. /\ UNCHANGED <<wire, senderVars>> /\ rd < arrives /\ rd' = rd + 1
        /\ Next_.type = "Version" /\ ~ReceiverDone
        /\ (rpc' = "first" /\ paths' = << >>) \/ rpc' = "err"
    BY <1>3 DEF ReadVersion, Read, EndBatch, Report, linkVars, Leave, Next_
  <2> QED BY <2>1, IdleBInv, OverBInv DEF Breaks
<1>4. ASSUME ReadEnd \/ ReadMisplaced PROVE BInv'
  <2>1. UNCHANGED <<wire, senderVars>> /\ rpc' \in {"ok", "err"}
    BY <1>4 DEF ReadEnd, ReadMisplaced, Leave
  <2> QED BY <2>1, OverBInv
<1> QED BY <1>1, <1>2, <1>3, <1>4, MetadataBInv, ChunkBInv, CompleteBInv DEF ReceiverStep

LEMMA NextBInv == IInv /\ BInv /\ [Next]_vars => BInv'
<1> SUFFICES ASSUME IInv, BInv PROVE [Next]_vars => BInv'
  OBVIOUS
<1>1. ASSUME ReadTimeout \/ ReceiverDies PROVE BInv'
  <2>1. UNCHANGED <<wire, senderVars>> /\ rpc' = "err"
    BY <1>1 DEF ReadTimeout, ReceiverDies, Leave
  <2> QED BY <2>1, OverBInv
<1>2. ASSUME UNCHANGED vars PROVE BInv'
  <2>1. UNCHANGED <<wire, gaps, senderVars, recvVars>>
    BY <1>2 DEF vars, linkVars
  <2>2. WireGrows
    <3>1. Len(wire) \in Nat /\ wire \in Seq(Message)
      BY LenProperties DEF IInv, TypeOK
    <3> QED BY <2>1, <3>1 DEF WireGrows
  <2>3. ReceiverBatches'
    BY <2>1, <2>2, KeptReceiverBatches DEF BInv
  <2> QED BY <2>1, <2>3, ReadingKeeps DEF BInv
<1> QED
  BY <1>1, <1>2, SenderBInv, EnvironmentBInv, StartBInv, ReceiverBInv, DroppedBInv
     DEF Next, Environment

(* A batch's report.                                                        *)
LEMMA ReportedBatch ==
  ASSUME IInv, BInv, [Next]_vars, rpc = "peek", claimed' # claimed
  PROVE  LET sent == IF rd' = rd + 1 /\ Next_.type = "SessionEnd"
                     THEN Next_.of - Next_.k + 1 .. Next_.of
                     ELSE paths[1].of .. paths[Len(paths)].of
         IN  /\ Ascending
             /\ sent \ Cut \subseteq Got
             /\ gaps = {} => Got \subseteq sent
<1>1. /\ Ascending /\ Placed /\ CoversBatch /\ (gaps = {} => Undropped)
      /\ Len(paths) \in Nat /\ paths # << >> /\ Len(paths) # 0 /\ ~ReceiverDone
      /\ \A i \in 1 .. Len(paths) : paths[i].of \in Nat
  BY LiveReceiver DEF BInv, ReceiverDone, Placed
<1>2. /\ 1 \in 1 .. Len(paths) /\ Len(paths) \in 1 .. Len(paths)
      /\ rd > 0 /\ wire[rd].type \notin {"Open", "Version"} /\ Covered(paths[1].of)
      /\ \A i \in 1 .. Len(paths) : paths[i].of <= Reached(rd)
      /\ Reached(rd) \in Int
  <2>1. 1 \in 1 .. Len(paths) /\ Len(paths) \in 1 .. Len(paths)
    BY <1>1
  <2>2. Reached(rd) \in Int
    <3>1. /\ wire \in Seq(Message) /\ arrives \in 0 .. Len(wire) /\ rd \in 0 .. arrives
          /\ Len(wire) \in Nat
      BY LenProperties DEF IInv, TypeOK
    <3>2. rd \in 1 .. Len(wire)
      BY <1>1, <3>1 DEF Placed
    <3>3. wire[rd].of \in Nat
      <4>1. wire[rd] \in Message
        BY <3>1, <3>2, ElementOfSeq
      <4> QED BY <4>1 DEF Message
    <3>4. wire[rd].of - 1 \in Int
      BY <3>3
    <3> QED BY <3>3, <3>4 DEF Reached
  <2> QED BY <1>1, <2>1, <2>2 DEF Placed
<1>3. \A i \in 1 .. Len(paths) : paths[1].of <= paths[i].of /\ paths[i].of <= paths[Len(paths)].of
  <2> SUFFICES ASSUME NEW i \in 1 .. Len(paths)
               PROVE  paths[1].of <= paths[i].of /\ paths[i].of <= paths[Len(paths)].of
    OBVIOUS
  <2>1. i = 1 \/ 1 < i
    BY <1>1
  <2>2. i = Len(paths) \/ i < Len(paths)
    BY <1>1
  <2> QED BY <1>1, <1>2, <2>1, <2>2 DEF Ascending
<1>4. CASE ~(rd' = rd + 1 /\ Next_.type = "SessionEnd")
  <2> DEFINE sent == paths[1].of .. paths[Len(paths)].of
  <2>1. Got \subseteq sent
    <3>1. \A i \in 1 .. Len(paths) : paths[i].of \in sent
      BY <1>1, <1>2, <1>3
    <3> QED BY <3>1 DEF Got
  <2>2. sent \ Cut \subseteq Got
    <3>1. sent \subseteq paths[1].of .. Reached(rd)
      BY <1>1, <1>2
    <3> QED BY <1>2, <3>1 DEF Covered
  <2> QED BY <1>1, <1>4, <2>1, <2>2
<1>5. CASE rd' = rd + 1 /\ Next_.type = "SessionEnd"
  <2>r. rd' # rd /\ rd' # 0
    <3>1. rd \in Nat
      BY LenProperties DEF IInv, TypeOK
    <3> QED BY <1>5, <3>1
  <2>1. rd < arrives
    BY <2>r DEF Next, SenderStep, ReceiverStep, Environment, vars, recvVars,
         SendOpen, SendMetadata, SendChunk, SendComplete, SendSessionEnd, WaitForReceiver,
         NextBatch, Finish, SenderFails, Reload, LinkLost, PeerCloses, Dropped, StartSession,
         ReadOpen, ReadMetadata, ReadChunk, ReadComplete, ReadSessionEnd, ReadMisplaced,
         ReadVersion, ReadEnd, ReadTimeout, ReceiverDies, Read
  <2>2. rd + 1 \in 2 .. Len(wire) /\ (rd + 1) - 1 = rd /\ rd \in Nat /\ Next_ \in Message
    BY <1>2, <2>1, NextRead
  <2>3. Reached(rd) = Next_.of /\ wire[rd].type = "Complete" /\ Next_.of \in Nat
    BY <1>5, <2>1, NextReached DEF BInv
  <2>4. ASSUME NEW z \in 1 .. rd, Begins(z), Inside(z, rd)
        PROVE  Next_.of - Next_.k + 1 = wire[z].of
    <3>1. Counts(z, rd + 1) /\ Next_ = wire[rd + 1]
      BY <2>2 DEF BInv, WireBatches, Next_
    <3>2. Next_.k = Next_.of - wire[z].of + 1
      BY <1>5, <2>2, <2>4, <3>1 DEF Counts
    <3>3. wire[z].of \in Nat
      <4>1. wire \in Seq(Message) /\ z \in 1 .. Len(wire)
        BY <2>2 DEF IInv, TypeOK
      <4>2. wire[z] \in Message
        BY <4>1, ElementOfSeq
      <4> QED BY <4>2 DEF Message
    <3> QED BY <2>3, <3>2, <3>3
  <2> DEFINE sent == Next_.of - Next_.k + 1 .. Next_.of
  <2>5. sent \ Cut \subseteq Got
    <3>1. PICK z \in 1 .. rd : Begins(z) /\ Inside(z, rd)
      BY <1>1, <1>2, <2>3 DEF CoversBatch, Breaks
    <3>2. Covered(wire[z].of)
      BY <1>1, <3>1 DEF CoversBatch
    <3>3. sent = wire[z].of .. Reached(rd)
      BY <2>3, <2>4, <3>1
    <3> HIDE DEF sent
    <3> QED BY <3>2, <3>3 DEF Covered
  <2>6. ASSUME gaps = {}
        PROVE  Got \subseteq sent
    <3>1. PICK z \in 1 .. rd : Begins(z) /\ Inside(z, rd) /\ wire[z].of = paths[1].of
      BY <1>1, <2>6 DEF Undropped, Started, FirstReceived
    <3>2. sent = paths[1].of .. Reached(rd)
      BY <2>3, <2>4, <3>1
    <3>3. \A i \in 1 .. Len(paths) : paths[i].of \in paths[1].of .. Reached(rd)
      BY <1>1, <1>2, <1>3
    <3> HIDE DEF sent
    <3> QED BY <3>2, <3>3 DEF Got
  <2> QED BY <1>1, <1>5, <2>5, <2>6
<1> QED BY <1>4, <1>5

(* A batch reported at a SessionEnd lacks no file of the sender's batch,    *)
(* one reported at the end of the connection lacks files at its end only:   *)
(* in both cases but for files of which a closing Peer dropped a message.   *)
THEOREM BatchesAreWhole == Spec => BatchWhole
<1>1. Spec => []BInv
  BY InitBInv, NextBInv, SpecIInv, PTL DEF Spec
<1>2. ASSUME IInv, BInv, [Next]_vars
      PROVE  [rpc = "peek" /\ claimed' # claimed =>
                LET got  == {paths[i].of : i \in 1 .. Len(paths)}
                    sent == IF rd' = rd + 1 /\ Next_.type = "SessionEnd"
                            THEN Next_.of - Next_.k + 1 .. Next_.of
                            ELSE paths[1].of .. paths[Len(paths)].of
                IN  /\ \A i, j \in 1 .. Len(paths) : i < j => paths[i].of < paths[j].of
                    /\ sent \ Cut \subseteq got
                    /\ gaps = {} => got \subseteq sent]_vars
  BY <1>2, ReportedBatch DEF Ascending, Got
<1> QED BY <1>1, <1>2, SpecIInv, PTL DEF Spec, BatchWhole
=============================================================================
