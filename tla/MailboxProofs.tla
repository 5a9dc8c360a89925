--------------------------- MODULE MailboxProofs ---------------------------
(***************************************************************************)
(* Proofs about Mailbox, for any uploads, downloads, tokens and sizes: its  *)
(* type invariant, that a download is served a whole blob of its token,     *)
(* that an acknowledged token stays served, and whose files an orderly exit *)
(* can leave on disk.                                                       *)
(***************************************************************************)
EXTENDS Mailbox, PayloadProofs, TLAPS

-----------------------------------------------------------------------------
(* The inductive invariant.                                                 *)

(* Only an upload that got as far as its reply is indexed, once, and the    *)
(* ones that did and have not failed are.                                   *)
IndexedInv ==
    /\ \A u \in Up : Indexed(u) => upc[u] \in {"replying", "ok", "failed"}
    /\ \A u \in Up : upc[u] \in {"replying", "ok"} => Indexed(u)
    /\ \A i, j \in 1 .. Len(added) : added[i] = added[j] => i = j

(* FileStore.Shutdown has not begun to remove.                              *)
Kept == phase \in {"running", "draining"}

(* What a file's state says about its upload.                               *)
DiskInv ==
    /\ \A u \in Up : disk[u] = "part" => upc[u] = "copying" \/ phase = "exited"
    /\ Kept =>
          /\ \A u \in Up : upc[u] = "copying" => disk[u] = "part"
          /\ \A u \in Up : upc[u] = "indexing" => disk[u] = "whole"
          /\ \A t \in Token : files[t] # NoBlob => disk[files[t]] = "whole"

(* Once the files were removed, those there are, and those there can still  *)
(* be, are of uploads that had none by then.                                *)
RemovalInv ==
    ~Kept =>
       \A u \in Up :
          /\ disk[u] # "none" \/ Early(u) => atRemoval[u] = "early"
          /\ spilled[u] => atRemoval[u] # "over"

(* An entry gives way only to a later upload, or to expiry.                 *)
OrderInv ==
    \A i \in 1 .. Len(added) :
       LET b == files[utok[added[i]]]
       IN  \/ b = NoBlob /\ i <= old
           \/ b # NoBlob /\ \E j \in i .. Len(added) : added[j] = b

(* A handler holds an entry of its own token.                               *)
RefInv ==
    \A d \in Down :
       /\ ref[d] # NoBlob => Indexed(ref[d]) /\ utok[ref[d]] = dtok[d]
       /\ dpc[d] \in DOMAIN Opened => ref[d] # NoBlob

IInv ==
    TypeOK /\ IndexedInv /\ DiskInv /\ RemovalInv /\ OrderInv /\ RefInv /\ ServedWhole

-----------------------------------------------------------------------------

(* The states of the two tables of the download's steps.                    *)
LEMMA Tables ==
    /\ DOMAIN Looks = {"idle", "getting"} /\ DOMAIN Opened = {"headOpening", "getOpening"}
    /\ Looks["idle"] = "headOpening" /\ Looks["getting"] = "getOpening"
    /\ Missing["idle"] = "p2p" /\ Missing["getting"] = "error"
    /\ Opened["headOpening"] = "getting" /\ Opened["getOpening"] = "fetching"
  BY DEF Looks, Missing, Opened

(* What Index does to the list of uploads.                                  *)
LEMMA AppendAdded ==
  ASSUME added \in Seq(Up), NEW u \in Up
  PROVE  /\ Append(added, u) \in Seq(Up)
         /\ Len(Append(added, u)) = Len(added) + 1
         /\ Len(added) \in Nat
         /\ Append(added, u)[Len(added) + 1] = u
         /\ \A i \in 1 .. Len(added) : Append(added, u)[i] = added[i]
  OBVIOUS

(* A relay starts with nothing.                                             *)
LEMMA InitIInv == Init => IInv
<1> SUFFICES ASSUME Init PROVE IInv
  OBVIOUS
<1>1. added \in Seq(Up) /\ Len(added) = 0
  BY DEF Init
<1>2. TypeOK
  BY <1>1, BlobAssumption DEF Init, TypeOK, InHandler, InRequest, Indexed, BlobAssumption
<1>3. IndexedInv /\ DiskInv /\ RemovalInv /\ OrderInv /\ ServedWhole
  BY <1>1 DEF Init, IndexedInv, DiskInv, RemovalInv, OrderInv, ServedWhole, Indexed, Kept
<1>4. RefInv
  BY <1>1, Tables, BlobAssumption DEF Init, RefInv, BlobAssumption
<1>q. QED
  BY <1>2, <1>3, <1>4 DEF IInv

(* An upload's other steps change only where it is and its file, which      *)
(* nobody else has; only a copy in progress leaves a part.                  *)
LEMMA OwnFileIInv ==
  ASSUME IInv, NEW u \in Up,
         ReceiveUpload(u) \/ FormRead(u) \/ CheckToken(u) \/ CreateTemp(u) \/ Copy(u) \/ Reply(u)
  PROVE  IInv'
<1> USE DEF IInv
<1>1. /\ UNCHANGED <<files, added, old, shutdownVars, spilled, utok, sent, downloadVars>>
      /\ phase # "exited"
  BY DEF ReceiveUpload, FormRead, CheckToken, CreateTemp, Copy, Reply, Alive, Unlocked
<1>2. /\ upc \in [Up -> InHandler \cup {"idle", "ok", "conflict", "failed"}]
      /\ disk \in [Up -> {"none", "part", "whole"}]
  BY DEF TypeOK
<1>3. PICK l, f :
        /\ upc' = [upc EXCEPT ![u] = l] /\ disk' = [disk EXCEPT ![u] = f]
        /\ l \in InHandler \cup {"ok", "conflict", "failed"} /\ f \in {"none", "part", "whole"}
        /\ f # "none" => disk[u] # "none" \/ Early(u)
        /\ l \in {"receiving", "checking", "creating"} => Early(u) \/ phase = "running"
        /\ \/ upc[u] = "replying" /\ l \in {"ok", "failed"} /\ f = disk[u]
           \/ /\ upc[u] \in {"idle", "receiving", "checking", "creating", "copying"}
              /\ l \notin {"replying", "ok"}
              /\ f = "part" => l = "copying"
              /\ Kept => (l = "copying" => f = "part") /\ (l = "indexing" => f = "whole")
  <2>1. disk = [disk EXCEPT ![u] = disk[u]] /\ disk[u] \in {"none", "part", "whole"}
    BY <1>2
  <2>2. (disk[u] = "part" => upc[u] = "copying") /\ (Kept /\ upc[u] = "copying" => disk[u] = "part")
    BY <1>1 DEF DiskInv
  <2>3. CASE ReceiveUpload(u)
    BY <2>1, <2>2, <2>3 DEF ReceiveUpload, Goto, InHandler
  <2>8. CASE FormRead(u)
    BY <2>1, <2>2, <2>8 DEF FormRead, Goto, InHandler, Early
  <2>4. CASE CheckToken(u)
    <3>1. \/ upc' = [upc EXCEPT ![u] = "creating"]
          \/ upc' = [upc EXCEPT ![u] = "conflict"]
      BY <2>4 DEF CheckToken, Goto
    <3>q. QED BY <2>1, <2>2, <2>4, <3>1 DEF CheckToken, InHandler, Early
  <2>5. CASE CreateTemp(u)
    BY <2>1, <2>2, <2>5 DEF CreateTemp, Goto, InHandler, Early
  <2>6. CASE Copy(u)
    BY <2>1, <2>2, <2>6 DEF Copy, AfterFailedCopy, Goto, InHandler
  <2>7. CASE Reply(u)
    BY <2>1, <2>2, <2>7 DEF Reply, Goto, InHandler
  <2>q. QED BY <2>3, <2>4, <2>5, <2>6, <2>7, <2>8
<1>4. (\A v : Indexed(v)' <=> Indexed(v)) /\ (Kept' <=> Kept)
  BY <1>1 DEF Indexed, Kept, shutdownVars
<1>5. \A v \in Up : v # u => upc'[v] = upc[v] /\ disk'[v] = disk[v]
  BY <1>2, <1>3
<1>6. upc'[u] = l /\ disk'[u] = f
  BY <1>2, <1>3
<1>7. TypeOK'
  <2>1. upc' \in [Up -> InHandler \cup {"idle", "ok", "conflict", "failed"}]
        /\ disk' \in [Up -> {"none", "part", "whole"}]
    BY <1>2, <1>3
  <2>2. InHandler' = InHandler /\ InRequest' = InRequest
    BY DEF InHandler, InRequest
  <2>q. QED BY <1>1, <1>4, <2>1, <2>2 DEF TypeOK, downloadVars, shutdownVars
<1>8. IndexedInv'
  BY <1>1, <1>3, <1>4, <1>5, <1>6 DEF IndexedInv
<1>9. DiskInv'
  <2>1. \A v \in Up :
          /\ disk'[v] = "part" => upc'[v] = "copying"
          /\ Kept => /\ upc'[v] = "copying" => disk'[v] = "part"
                     /\ upc'[v] = "indexing" => disk'[v] = "whole"
    BY <1>1, <1>3, <1>5, <1>6 DEF DiskInv
  <2>2. ASSUME Kept, NEW t \in Token, files[t] # NoBlob
        PROVE  disk'[files[t]] = "whole"
    <3>1. files[t] \in Up /\ Indexed(files[t]) /\ disk[files[t]] = "whole"
      BY <2>2 DEF TypeOK, DiskInv
    <3>2. files[t] = u => upc[u] = "replying"
      BY <1>3, <3>1 DEF IndexedInv
    <3>q. QED BY <1>3, <1>5, <1>6, <3>1, <3>2
  <2>q. QED BY <1>1, <1>4, <2>1, <2>2 DEF DiskInv
<1>13. RemovalInv'
  <2> SUFFICES ASSUME ~Kept, NEW v \in Up
               PROVE  /\ disk'[v] # "none" \/ Early(v)' => atRemoval[v] = "early"
                      /\ spilled[v] => atRemoval[v] # "over"
    BY <1>1, <1>4 DEF RemovalInv, shutdownVars
  <2>1. phase # "running"
    BY DEF Kept
  <2>2. disk'[v] # "none" \/ Early(v)' => disk[v] # "none" \/ Early(v)
    BY <1>3, <1>5, <1>6, <2>1 DEF Early
  <2>q. QED BY <2>2 DEF RemovalInv
<1>10. OrderInv'
  BY <1>1 DEF OrderInv
<1>11. RefInv'
  BY <1>1, <1>4 DEF RefInv, downloadVars, Opened
<1>12. ServedWhole'
  BY <1>1 DEF ServedWhole, downloadVars
<1>q. QED BY <1>7, <1>8, <1>9, <1>10, <1>11, <1>12, <1>13

(* A form's file comes while its request is received, and goes.             *)
LEMMA SpilledIInv ==
  ASSUME IInv, NEW u \in Up, Spill(u) \/ Finish(u)
  PROVE  IInv'
<1> USE DEF IInv
<1>1. UNCHANGED <<files, disk, added, old, phase, there, atRemoval, upc, utok, sent, downloadVars>>
  BY DEF Spill, Finish, shutdownVars, uploadVars
<1>2. spilled \in [Up -> BOOLEAN]
  BY DEF TypeOK
<1>3. PICK b \in BOOLEAN : spilled' = [spilled EXCEPT ![u] = b] /\ (b => Early(u))
  BY DEF Spill, Finish, Early
<1>4. (\A v : Indexed(v)' <=> Indexed(v)) /\ (Kept' <=> Kept)
  BY <1>1 DEF Indexed, Kept
<1>5. TypeOK'
  <2>1. spilled' \in [Up -> BOOLEAN]
    BY <1>2, <1>3
  <2>2. InHandler' = InHandler /\ InRequest' = InRequest
    BY DEF InHandler, InRequest
  <2>q. QED BY <1>1, <1>4, <2>1, <2>2 DEF TypeOK, downloadVars
<1>6. IndexedInv' /\ DiskInv' /\ OrderInv'
  BY <1>1, <1>4 DEF IndexedInv, DiskInv, OrderInv
<1>7. RefInv' /\ ServedWhole'
  BY <1>1, <1>4 DEF RefInv, ServedWhole, Opened, downloadVars
<1>8. RemovalInv'
  <2> SUFFICES ASSUME ~Kept, NEW v \in Up
               PROVE  /\ disk[v] # "none" \/ Early(v) => atRemoval[v] = "early"
                      /\ spilled'[v] => atRemoval[v] # "over"
    BY <1>1, <1>4 DEF RemovalInv, Early
  <2>1. spilled'[v] => spilled[v] \/ Early(v)
    BY <1>2, <1>3
  <2>q. QED BY <2>1 DEF RemovalInv
<1>q. QED BY <1>5, <1>6, <1>7, <1>8

(* Index puts a whole file in front of whatever its token stood for.        *)
LEMMA IndexIInv ==
  ASSUME IInv, NEW u \in Up, Index(u)
  PROVE  IInv'
<1> USE DEF IInv
<1>1. /\ upc[u] = "indexing" /\ utok' = utok /\ disk' = disk /\ old' = old
      /\ phase' = phase /\ there' = there /\ spilled' = spilled /\ atRemoval' = atRemoval
      /\ files' = [files EXCEPT ![utok[u]] = u] /\ added' = Append(added, u)
      /\ upc' = [upc EXCEPT ![u] = "replying"]
      /\ UNCHANGED <<sent, downloadVars>>
  BY DEF Index, Copied, Slot, Goto, shutdownVars
<1>2. added \in Seq(Up) /\ utok[u] \in Token /\ old \in 0 .. Len(added)
      /\ upc \in [Up -> InHandler \cup {"idle", "ok", "conflict", "failed"}]
  BY DEF TypeOK
<1>3. /\ added' \in Seq(Up) /\ Len(added') = Len(added) + 1 /\ Len(added) \in Nat
      /\ added'[Len(added) + 1] = u
      /\ \A i \in 1 .. Len(added) : added'[i] = added[i]
  BY <1>1, <1>2, AppendAdded
<1>4. ~Indexed(u)
  BY <1>1 DEF IndexedInv
<1>5. (\A v : Indexed(v)' <=> Indexed(v) \/ v = u) /\ (Kept' <=> Kept)
  <2>1. \A i \in 1 .. Len(added) + 1 : i \in 1 .. Len(added) \/ i = Len(added) + 1
    BY <1>3
  <2>2. \A i \in 1 .. Len(added) : i \in 1 .. Len(added) + 1
    BY <1>3
  <2>3. Len(added) + 1 \in 1 .. Len(added) + 1
    BY <1>3
  <2>q. QED BY <1>1, <1>3, <2>1, <2>2, <2>3 DEF Indexed, Kept
<1>6. /\ files' \in [Token -> Up \cup {NoBlob}] /\ files'[utok[u]] = u
      /\ \A t \in Token : t # utok[u] => files'[t] = files[t]
  BY <1>1, <1>2 DEF TypeOK
<1>7. /\ upc'[u] = "replying"
      /\ \A v \in Up : v # u => upc'[v] = upc[v]
  BY <1>1, <1>2
<1>8. TypeOK'
  <2>1. ASSUME NEW t \in Token, files'[t] # NoBlob
        PROVE  utok'[files'[t]] = t /\ Indexed(files[t])'
    <3>1. CASE t = utok[u]
      BY <3>1, <1>1, <1>5, <1>6
    <3>2. CASE t # utok[u]
      BY <3>2, <2>1, <1>1, <1>5, <1>6 DEF TypeOK
    <3>q. QED BY <3>1, <3>2
  <2>2. upc' \in [Up -> InHandler \cup {"idle", "ok", "conflict", "failed"}]
    BY <1>1, <1>2 DEF InHandler
  <2>3. InHandler' = InHandler /\ InRequest' = InRequest
    BY DEF InHandler, InRequest
  <2>4. old' \in 0 .. Len(added')
    BY <1>1, <1>2, <1>3
  <2>q. QED
    BY <1>1, <1>3, <1>6, <2>1, <2>2, <2>3, <2>4 DEF TypeOK, downloadVars
<1>9. IndexedInv'
  <2>1. /\ \A v \in Up : Indexed(v)' => upc'[v] \in {"replying", "ok", "failed"}
        /\ \A v \in Up : upc'[v] \in {"replying", "ok"} => Indexed(v)'
    BY <1>5, <1>7 DEF IndexedInv
  <2>2. \A i \in 1 .. Len(added) : added[i] # u
    BY <1>4 DEF Indexed
  <2>3. \A i, j \in 1 .. Len(added') : added'[i] = added'[j] => i = j
    BY <1>3, <2>2 DEF IndexedInv
  <2>q. QED BY <2>1, <2>3 DEF IndexedInv
<1>10. DiskInv'
  <2>1. \A v \in Up : disk[v] = "part" => v # u \/ phase = "exited"
    BY <1>1 DEF DiskInv
  <2>2. \A t \in Token : Kept /\ files'[t] # NoBlob => disk[files'[t]] = "whole"
    BY <1>1, <1>6 DEF DiskInv
  <2>q. QED BY <1>1, <1>5, <1>7, <2>1, <2>2 DEF DiskInv
<1>11. OrderInv'
  <2> SUFFICES ASSUME NEW i \in 1 .. Len(added')
               PROVE  \/ files'[utok[added'[i]]] = NoBlob /\ i <= old
                      \/ /\ files'[utok[added'[i]]] # NoBlob
                         /\ \E j \in i .. Len(added') : added'[j] = files'[utok[added'[i]]]
    BY <1>1 DEF OrderInv
  <2>1. CASE utok[added'[i]] = utok[u]
    <3>1. u # NoBlob
      BY BlobAssumption DEF BlobAssumption
    <3>2. Len(added') \in i .. Len(added')
      BY <1>3
    <3>q. QED BY <2>1, <3>1, <3>2, <1>3, <1>6
  <2>2. CASE utok[added'[i]] # utok[u]
    <3>1. i \in 1 .. Len(added) /\ added'[i] = added[i] /\ added[i] \in Up
      BY <2>2, <1>2, <1>3
    <3>2. files'[utok[added[i]]] = files[utok[added[i]]]
      BY <3>1, <2>2, <1>6 DEF TypeOK
    <3>3. \A j \in i .. Len(added) : added'[j] = added[j] /\ j \in i .. Len(added')
      BY <3>1, <1>3
    <3>q. QED BY <3>1, <3>2, <3>3 DEF OrderInv
  <2>q. QED BY <2>1, <2>2
<1>12. RefInv' /\ ServedWhole'
  BY <1>1, <1>5 DEF RefInv, ServedWhole, downloadVars
<1>13. RemovalInv'
  BY <1>1, <1>5, <1>7 DEF RemovalInv, Early
<1>q. QED BY <1>8, <1>9, <1>10, <1>11, <1>12, <1>13

(* A download's steps change nothing of the relay's: the handler opens the  *)
(* entry it looked up, whose file is whole or gone by then.                 *)
LEMMA DownloadIInv ==
  ASSUME IInv, NEW d \in Down, DownloadStep(d)
  PROVE  IInv'
<1> USE DEF IInv
<1>1. UNCHANGED <<files, disk, added, old, phase, there, spilled, atRemoval, upc, utok, sent, dtok>>
  BY DEF DownloadStep, Lookup, Unreachable, Open, Fetch, Save, uploadVars, shutdownVars
<1>2. (\A v : Indexed(v)' <=> Indexed(v)) /\ (Kept' <=> Kept)
  BY <1>1 DEF Indexed, Kept
<1>3. IndexedInv' /\ DiskInv' /\ RemovalInv' /\ OrderInv'
  <2>1. IndexedInv'
    BY <1>1, <1>2 DEF IndexedInv
  <2>2. DiskInv'
    BY <1>1, <1>2 DEF DiskInv
  <2>3. OrderInv'
    BY <1>1 DEF OrderInv
  <2>4. RemovalInv'
    BY <1>1, <1>2 DEF RemovalInv, Early
  <2>q. QED BY <2>1, <2>2, <2>3, <2>4
<1> DEFINE DownStates ==
             InRequest \cup {"idle", "getting", "saving", "done", "p2p", "error"}
<1>4. /\ dpc \in [Down -> DownStates] /\ dtok[d] \in Token
      /\ ref \in [Down -> Up \cup {NoBlob}] /\ got \in [Down -> Up \cup {NoBlob}]
      /\ torn \in [Down -> BOOLEAN] /\ saved \in [Down -> Nat] /\ DOMAIN dir = Down
  BY DEF TypeOK
<1>5. SUFFICES /\ /\ dpc' \in [Down -> DownStates]
                  /\ ref' \in [Down -> Up \cup {NoBlob}]
                  /\ got' \in [Down -> Up \cup {NoBlob}]
                  /\ torn' \in [Down -> BOOLEAN] /\ saved' \in [Down -> Nat]
                  /\ DOMAIN dir' = Down
               /\ RefInv' /\ ServedWhole'
  <2>1. InHandler' = InHandler /\ InRequest' = InRequest
    BY DEF InHandler, InRequest
  <2>q. QED BY <1>1, <1>2, <1>3, <2>1 DEF TypeOK
<1>6. CASE Lookup(d)
  <2>1. PICK l \in {"headOpening", "getOpening", "p2p", "error"} :
          /\ dpc' = [dpc EXCEPT ![d] = l]
          /\ \/ ref' = ref /\ l \in {"p2p", "error"}
             \/ files[dtok[d]] # NoBlob /\ ref' = [ref EXCEPT ![d] = files[dtok[d]]]
    BY <1>6, Tables DEF Lookup, Step
  <2>2. UNCHANGED <<got, torn, saved, dir>>
    BY <1>6 DEF Lookup
  <2>3. files[dtok[d]] # NoBlob =>
          files[dtok[d]] \in Up /\ Indexed(files[dtok[d]]) /\ utok[files[dtok[d]]] = dtok[d]
    BY <1>4 DEF TypeOK
  <2>4. dpc' \in [Down -> DownStates]
    BY <1>4, <2>1 DEF InRequest
  <2>5. ref' \in [Down -> Up \cup {NoBlob}]
    BY <1>4, <2>1, <2>3
  <2>6. ASSUME NEW e \in Down
        PROVE  /\ ref'[e] # NoBlob => Indexed(ref'[e]) /\ utok[ref'[e]] = dtok[e]
               /\ dpc'[e] \in {"headOpening", "getOpening"} => ref'[e] # NoBlob
    <3>1. CASE e = d
      BY <3>1, <1>4, <2>1, <2>3, Tables DEF RefInv
    <3>2. CASE e # d
      BY <3>2, <1>4, <2>1, Tables DEF RefInv
    <3>q. QED BY <3>1, <3>2
  <2>7. RefInv'
    BY <1>1, <1>2, <2>6, Tables DEF RefInv, Opened
  <2>8. ServedWhole'
    BY <1>1, <2>2 DEF ServedWhole
  <2>q. QED BY <1>4, <2>2, <2>4, <2>5, <2>7, <2>8
<1>7. CASE Open(d)
  <2>1. dpc[d] \in {"headOpening", "getOpening"} /\ ref' = ref /\ UNCHANGED <<saved, dir>>
    BY <1>7, Tables DEF Open
  <2>2. ref[d] \in Up /\ Indexed(ref[d]) /\ utok[ref[d]] = dtok[d]
    BY <1>4, <2>1, Tables DEF RefInv
  <2>3. disk[ref[d]] # "part"
    BY <1>7, <2>2 DEF IndexedInv, DiskInv, Open, Alive
  <2>4. PICK l \in {"getting", "fetching", "error"} : dpc' = [dpc EXCEPT ![d] = l]
    BY <1>7, <2>1, Tables DEF Open, Step
  <2>5. \/ got' = [got EXCEPT ![d] = ref[d]] /\ torn' = [torn EXCEPT ![d] = FALSE]
        \/ UNCHANGED <<got, torn>>
    BY <1>7, <2>3 DEF Open
  <2>6. dpc' \in [Down -> DownStates]
    BY <1>4, <2>4 DEF InRequest
  <2>7. got' \in [Down -> Up \cup {NoBlob}] /\ torn' \in [Down -> BOOLEAN]
    BY <1>4, <2>2, <2>5
  <2>8. \A e \in Down : dpc'[e] \in {"headOpening", "getOpening"} => dpc'[e] = dpc[e]
    BY <1>4, <2>4
  <2>9. RefInv'
    BY <1>1, <1>2, <2>1, <2>8, Tables DEF RefInv, Opened
  <2>10. ServedWhole'
    BY <1>1, <1>4, <2>2, <2>5 DEF ServedWhole
  <2>q. QED BY <1>4, <2>1, <2>6, <2>7, <2>9, <2>10
<1>8. CASE Unreachable(d) \/ Fetch(d) \/ Save(d)
  <2>1. UNCHANGED <<ref, got, torn>>
    BY <1>8 DEF Unreachable, Fetch, Save
  <2>2. PICK l \in {"saving", "done", "error"} : dpc' = [dpc EXCEPT ![d] = l]
    BY <1>8, Tables DEF Unreachable, Fetch, Save, Step
  <2>3. dpc' \in [Down -> DownStates]
    BY <1>4, <2>2
  <2>4. saved' \in [Down -> Nat] /\ DOMAIN dir' = Down
    <3>1. saved' = saved \/ saved' = [saved EXCEPT ![d] = @ + 1]
      BY <1>8 DEF Unreachable, Fetch, Save
    <3>2. dir' = dir \/ \E v : dir' = [dir EXCEPT ![d] = v]
      BY <1>8, Zenon DEF Unreachable, Fetch, Save, WriteFile
    <3>q. QED BY <1>4, <3>1, <3>2
  <2>5. \A e \in Down : dpc'[e] \in {"headOpening", "getOpening"} => dpc'[e] = dpc[e]
    BY <1>4, <2>2
  <2>6. RefInv'
    BY <1>1, <1>2, <2>1, <2>5, Tables DEF RefInv, Opened
  <2>7. ServedWhole'
    BY <1>1, <2>1 DEF ServedWhole
  <2>q. QED BY <1>4, <2>1, <2>3, <2>4, <2>6, <2>7
<1>q. QED BY <1>6, <1>7, <1>8 DEF DownloadStep

(* Expiry takes an old entry and its file, and nothing else.                *)
LEMMA ExpiryIInv ==
  ASSUME IInv, GrowOld \/ CleanupTick
  PROVE  IInv'
<1> USE DEF IInv
<1>1. UNCHANGED <<added, phase, there, spilled, atRemoval, upc, utok, sent, downloadVars>>
  BY DEF GrowOld, CleanupTick, uploadVars, shutdownVars
<1>2. (\A v : Indexed(v)' <=> Indexed(v)) /\ Kept /\ Kept'
  BY <1>1 DEF Indexed, Kept, GrowOld, CleanupTick
<1>9. RemovalInv'
  BY <1>2 DEF RemovalInv
<1>3. IndexedInv'
  BY <1>1, <1>2 DEF IndexedInv
<1>4. RefInv' /\ ServedWhole'
  BY <1>1, <1>2 DEF RefInv, ServedWhole, downloadVars, Opened
<1>5. added \in Seq(Up) /\ Len(added) \in Nat /\ old \in 0 .. Len(added)
      /\ files \in [Token -> Up \cup {NoBlob}] /\ utok \in [Up -> Token]
      /\ disk \in [Up -> {"none", "part", "whole"}]
  BY DEF TypeOK
<1>6. InHandler' = InHandler /\ InRequest' = InRequest
  BY DEF InHandler, InRequest
<1>7. CASE GrowOld
  <2>1. UNCHANGED <<files, disk>> /\ old' = old + 1 /\ old < Len(added)
    BY <1>7 DEF GrowOld
  <2>2. old' \in 0 .. Len(added)
    BY <1>5, <2>1
  <2>3. TypeOK'
    BY <1>1, <1>2, <1>6, <2>1, <2>2 DEF TypeOK, downloadVars
  <2>4. DiskInv'
    BY <1>1, <1>2, <2>1 DEF DiskInv
  <2>5. OrderInv'
    <3>1. \A i \in 1 .. Len(added) : i <= old => i <= old'
      BY <1>5, <2>1
    <3>q. QED BY <1>1, <2>1, <3>1 DEF OrderInv
  <2>q. QED BY <1>3, <1>4, <1>9, <2>3, <2>4, <2>5
<1>8. CASE CleanupTick
  <2>1. /\ files' = [t \in Token |->
                       IF files[t] # NoBlob /\ Old(files[t]) THEN NoBlob ELSE files[t]]
        /\ disk' = [u \in Up |-> IF u \in Expired THEN "none" ELSE disk[u]]
        /\ old' = old /\ phase = "running"
    BY <1>8 DEF CleanupTick
  <2>2. files' \in [Token -> Up \cup {NoBlob}] /\ disk' \in [Up -> {"none", "part", "whole"}]
    BY <1>5, <2>1
  <2>3. \A t \in Token : files'[t] # NoBlob =>
            files'[t] = files[t] /\ files[t] \in Up /\ ~Old(files[t])
    BY <1>5, <2>1
  <2>4. \A u \in Up : disk'[u] = disk[u] \/ (disk'[u] = "none" /\ Old(u))
    BY <2>1 DEF Expired
  <2>5. TypeOK'
    BY <1>1, <1>2, <1>6, <2>1, <2>2, <2>3 DEF TypeOK, downloadVars
  <2>6. \A u \in Up : Old(u) => Indexed(u)
    BY <1>5 DEF Old, Indexed
  <2>7. DiskInv'
    <3>1. \A u \in Up : disk'[u] = "part" => upc'[u] = "copying"
      BY <1>1, <2>1, <2>4 DEF DiskInv
    <3>2. \A u \in Up : /\ upc'[u] = "copying" => disk'[u] = "part"
                        /\ upc'[u] = "indexing" => disk'[u] = "whole"
      BY <1>1, <2>1, <2>4, <2>6 DEF DiskInv, IndexedInv, Kept
    <3>3. \A t \in Token : files'[t] # NoBlob => disk'[files'[t]] = "whole"
      BY <2>1, <2>3, <2>4 DEF DiskInv, Kept
    <3>q. QED BY <3>1, <3>2, <3>3 DEF DiskInv
  <2>8. OrderInv'
    <3> SUFFICES ASSUME NEW i \in 1 .. Len(added)
                 PROVE  LET b == files'[utok[added[i]]]
                        IN  \/ b = NoBlob /\ i <= old
                            \/ b # NoBlob /\ \E j \in i .. Len(added) : added[j] = b
      BY <1>1, <2>1, SMTT(30) DEF OrderInv
    <3> DEFINE t == utok[added[i]]
    <3>1. added[i] \in Up /\ t \in Token
      BY <1>5
    <3>2. CASE files[t] = NoBlob
      BY <3>1, <3>2, <2>1 DEF OrderInv
    <3>3. CASE files[t] # NoBlob /\ ~Old(files[t])
      <4>1. files'[t] = files[t]
        BY <3>1, <3>3, <2>1
      <4>q. QED BY <3>3, <4>1 DEF OrderInv
    <3>4. CASE files[t] # NoBlob /\ Old(files[t])
      <4>1. files'[t] = NoBlob
        BY <3>1, <3>4, <2>1
      <4>2. PICK j \in i .. Len(added) : added[j] = files[t]
        BY <3>4 DEF OrderInv
      <4>3. PICK k \in 1 .. old : added[k] = files[t]
        BY <3>4 DEF Old
      <4>4. j = k
        BY <1>5, <4>2, <4>3 DEF IndexedInv
      <4>5. i <= old
        BY <1>5, <4>2, <4>3, <4>4
      <4>q. QED BY <4>1, <4>5
    <3>q. QED BY <3>2, <3>3, <3>4
  <2>q. QED BY <1>3, <1>4, <1>9, <2>5, <2>7, <2>8
<1>q. QED BY <1>7, <1>8

(* The shutdown takes the files and the running requests, and leaves the    *)
(* index.                                                                   *)
LEMMA ShutdownIInv ==
  ASSUME IInv, Signal \/ RemoveFiles \/ RemoveDir \/ Exit
  PROVE  IInv'
<1> USE DEF IInv
<1>1. UNCHANGED <<files, added, old, spilled, utok, sent, dtok, ref, got, torn, saved, dir>>
  BY DEF Signal, RemoveFiles, RemoveDir, Exit, uploadVars, downloadVars
<1>2. \A v : Indexed(v)' <=> Indexed(v)
  BY <1>1 DEF Indexed
<1>3. InHandler' = InHandler /\ InRequest' = InRequest
  BY DEF InHandler, InRequest
<1>4. OrderInv' /\ ServedWhole'
  BY <1>1 DEF OrderInv, ServedWhole
<1>5. CASE Signal
  <2>1. /\ UNCHANGED <<disk, there, atRemoval, upc, dpc>>
        /\ phase = "running" /\ phase' = "draining"
    BY <1>5 DEF Signal, uploadVars, downloadVars
  <2>2. Kept' /\ Kept
    BY <2>1 DEF Kept
  <2>3. TypeOK'
    BY <1>1, <1>2, <1>3, <2>1 DEF TypeOK
  <2>4. IndexedInv' /\ DiskInv' /\ RemovalInv'
    BY <1>1, <1>2, <2>1, <2>2 DEF IndexedInv, DiskInv, RemovalInv
  <2>5. RefInv'
    BY <1>1, <1>2, <2>1 DEF RefInv, Opened
  <2>q. QED BY <1>4, <2>3, <2>4, <2>5
<1>6. CASE RemoveFiles
  <2>1. /\ UNCHANGED <<there, upc, dpc>> /\ phase' = "removing"
        /\ disk' = [u \in Up |-> "none"]
        /\ atRemoval' = [u \in Up |-> IF Over(u) THEN "over"
                                      ELSE IF Early(u) THEN "early" ELSE "busy"]
    BY <1>6 DEF RemoveFiles, Removed, uploadVars, downloadVars
  <2>2. ~Kept'
    BY <2>1 DEF Kept
  <2>3. TypeOK'
    BY <1>1, <1>2, <1>3, <2>1 DEF TypeOK
  <2>4. IndexedInv' /\ DiskInv'
    BY <1>1, <1>2, <2>1, <2>2 DEF IndexedInv, DiskInv
  <2>6. RemovalInv'
    BY <1>1, <2>1 DEF RemovalInv, Over, Early, InHandler
  <2>5. RefInv'
    BY <1>1, <1>2, <2>1 DEF RefInv, Opened
  <2>q. QED BY <1>4, <2>3, <2>4, <2>5, <2>6
<1>8. CASE RemoveDir
  <2>1. /\ UNCHANGED <<disk, atRemoval, upc, dpc>> /\ there' \in BOOLEAN
        /\ phase = "removing" /\ phase' = "removed"
    BY <1>8 DEF RemoveDir, uploadVars, downloadVars
  <2>2. ~Kept' /\ ~Kept
    BY <2>1 DEF Kept
  <2>3. TypeOK'
    BY <1>1, <1>2, <1>3, <2>1 DEF TypeOK
  <2>4. IndexedInv' /\ DiskInv' /\ RemovalInv'
    BY <1>1, <1>2, <2>1, <2>2 DEF IndexedInv, DiskInv, RemovalInv, Early
  <2>5. RefInv'
    BY <1>1, <1>2, <2>1 DEF RefInv, Opened
  <2>q. QED BY <1>4, <2>3, <2>4, <2>5
<1>7. CASE Exit
  <2>1. /\ UNCHANGED <<disk, there, atRemoval>> /\ phase = "removed" /\ phase' = "exited"
        /\ upc' = [u \in Up |-> IF upc[u] \in InHandler THEN "failed" ELSE upc[u]]
        /\ dpc' = [d \in Down |-> IF dpc[d] \in InRequest THEN "error" ELSE dpc[d]]
    BY <1>7 DEF Exit
  <2>2. ~Kept' /\ ~Kept
    BY <2>1 DEF Kept
  <2>3. /\ upc \in [Up -> InHandler \cup {"idle", "ok", "conflict", "failed"}]
        /\ dpc \in [Down -> InRequest \cup {"idle", "getting", "saving", "done", "p2p", "error"}]
    BY DEF TypeOK
  <2>4. /\ upc' \in [Up -> InHandler \cup {"idle", "ok", "conflict", "failed"}]
        /\ dpc' \in [Down -> InRequest \cup {"idle", "getting", "saving", "done", "p2p", "error"}]
    BY <2>1, <2>3
  <2>5. TypeOK'
    BY <1>1, <1>2, <1>3, <2>1, <2>4 DEF TypeOK
  <2>6. IndexedInv'
    BY <1>1, <1>2, <2>1 DEF IndexedInv, InHandler
  <2>7. DiskInv'
    BY <2>1, <2>2 DEF DiskInv
  <2>10. RemovalInv'
    <3>1. \A u \in Up : ~Early(u)'
      BY <2>1, <2>3 DEF Early, InHandler
    <3>q. QED BY <1>1, <2>1, <2>2, <3>1 DEF RemovalInv
  <2>8. \A d \in Down : dpc'[d] \in {"headOpening", "getOpening"} => dpc[d] = dpc'[d]
    BY <2>1
  <2>9. RefInv'
    BY <1>1, <1>2, <2>8, Tables DEF RefInv, Opened
  <2>q. QED BY <1>4, <2>5, <2>6, <2>7, <2>9, <2>10
<1>q. QED BY <1>5, <1>6, <1>7, <1>8

LEMMA NextIInv == IInv /\ [Next]_vars => IInv'
<1> SUFFICES ASSUME IInv, [Next]_vars PROVE IInv'
  OBVIOUS
<1>1. ASSUME NEW u \in Up, UploadStep(u) PROVE IInv'
  BY <1>1, OwnFileIInv, SpilledIInv, IndexIInv DEF UploadStep
<1>2. ASSUME NEW d \in Down, DownloadStep(d) PROVE IInv'
  BY <1>2, DownloadIInv
<1>3. CASE GrowOld \/ CleanupTick
  BY <1>3, ExpiryIInv
<1>4. CASE Signal \/ RemoveFiles \/ RemoveDir \/ Exit
  BY <1>4, ShutdownIInv
<1>5. CASE UNCHANGED vars
  <2>1. (\A v : Indexed(v)' <=> Indexed(v)) /\ (Kept' <=> Kept)
        /\ InHandler' = InHandler /\ InRequest' = InRequest
    BY <1>5 DEF vars, Indexed, Kept, InHandler, InRequest
  <2>2. TypeOK'
    BY <1>5, <2>1 DEF IInv, TypeOK, vars, uploadVars, downloadVars
  <2>3. IndexedInv' /\ DiskInv' /\ RemovalInv' /\ OrderInv'
    BY <1>5, <2>1
    DEF IInv, IndexedInv, DiskInv, RemovalInv, Early, OrderInv, vars, uploadVars, downloadVars
  <2>4. RefInv' /\ ServedWhole'
    BY <1>5, <2>1
    DEF IInv, RefInv, ServedWhole, Opened, vars, uploadVars, downloadVars
  <2>q. QED BY <2>2, <2>3, <2>4 DEF IInv
<1>q. QED BY <1>1, <1>2, <1>3, <1>4, <1>5 DEF Next

LEMMA SpecIInv == Spec => []IInv
  BY InitIInv, NextIInv, PTL DEF Spec

-----------------------------------------------------------------------------

(* The store's tables, the requests' states and the list of indexed uploads *)
(* keep their shape, and the index holds under a token only blobs that were *)
(* indexed for it, however uploads, downloads, expiry and shutdown          *)
(* interleave.                                                              *)
THEOREM TypeCorrect == Spec => []TypeOK
<1>1. IInv => TypeOK
  BY DEF IInv
<1>q. QED BY <1>1, SpecIInv, PTL

(* A download never gets a torn blob or another token's, although the       *)
(* handler opens the file after the lock it looked it up under is released. *)
THEOREM DownloadsAreWhole == Spec => []ServedWhole
<1>1. IInv => ServedWhole
  BY DEF IInv
<1>q. QED BY <1>1, SpecIInv, PTL

(* An acknowledged upload's token has a whole blob until that upload is     *)
(* past its expiry, whatever else is uploaded under it or expires.          *)
THEOREM AckedTokenServed == Spec => []TokenStaysServed
<1>1. IInv => TokenStaysServed
  <2> SUFFICES ASSUME IInv, NEW u \in Up, upc[u] = "ok", ~Old(u), phase = "running"
               PROVE  files[utok[u]] # NoBlob /\ disk[files[utok[u]]] = "whole"
    BY DEF TokenStaysServed
  <2>1. PICK i \in 1 .. Len(added) : added[i] = u
    BY DEF IInv, IndexedInv, Indexed
  <2>2. ~(i <= old)
    BY <2>1 DEF IInv, TypeOK, Old
  <2>3. files[utok[u]] # NoBlob
    BY <2>1, <2>2 DEF IInv, OrderInv
  <2>q. QED BY <2>3 DEF IInv, TypeOK, DiskInv, Kept
<1>q. QED BY <1>1, SpecIInv, PTL

(* An orderly exit leaves files only of uploads that were running when the  *)
(* store was shut down: a blob only of one that had no file in the          *)
(* directory then, and so neither of an indexed upload nor of one that was  *)
(* being copied; a form only of one that net/http was not through with.     *)
THEOREM ExitLeavesOnlyLate == Spec => []ExitClean
<1>1. IInv => ExitClean
  BY DEF IInv, RemovalInv, Kept, ExitClean
<1>q. QED BY <1>1, SpecIInv, PTL

-----------------------------------------------------------------------------
(* What is saved.                                                           *)

(* What was accepted, drop send could pack.                                 *)
PackInv ==
    \A u \in Up :
       Indexed(u) \/ upc[u] \in {"receiving", "checking", "creating", "copying", "indexing"}
          => CanPack(sent[u])

(* A download writes only what it was served, one file after the other, and *)
(* no number it writes under is taken.                                      *)
SaveAt(d) ==
    /\ IsFiniteSet(dir[d]) /\ Existing \subseteq dir[d]
    /\ got[d] # NoBlob => Indexed(got[d])
    /\ dpc[d] \in {"fetching", "saving", "done"} => got[d] # NoBlob
    /\ dpc[d] \notin {"saving", "done", "error"} => saved[d] = 0
    /\ dpc[d] = "saving" => saved[d] < Len(sent[got[d]])
    /\ got[d] # NoBlob =>
          /\ saved[d] <= Len(sent[got[d]])
          /\ dpc[d] = "done" => saved[d] = Len(sent[got[d]])
          /\ \A k \in 1 .. saved[d] : \E f \in dir[d] :
                /\ f.name = sent[got[d]][k].name
                /\ f.content = sent[got[d]][k].content

SInv == PackInv /\ \A d \in Down : SaveAt(d)

(* There is a number to write under: the files of a name are finitely many, *)
(* and one more number than that is tried.                                  *)
LEMMA FreeNumber ==
  ASSUME NEW d \in Down, NEW name, IsFiniteSet(dir[d])
  PROVE  \A f \in dir[d] : f.name = name => f.no # FreeNo(d, name)
<1> DEFINE D == {f \in dir[d] : f.name = name}
           taken == {f.no : f \in D}
           c == Cardinality(taken)
<1>1. IsFiniteSet(D)
  BY FS_Subset
<1>2. IsFiniteSet(taken)
  <2> DEFINE h == [f \in D |-> f.no]
  <2>1. h \in Surjection(D, taken)
    BY DEF Surjection
  <2> QED BY <1>1, <2>1, FS_Surjection DEF ExistsSurjection
<1> HIDE DEF taken
<1>3. c \in Nat
  BY <1>2, FS_CardinalityType
<1>4. 0 .. c \ taken # {}
  <2> SUFFICES ASSUME 0 .. c \subseteq taken PROVE FALSE
    OBVIOUS
  <2>1. Cardinality(0 .. c) = c + 1
    BY <1>3, FS_Interval
  <2>2. Cardinality(0 .. c) <= c
    BY <1>2, FS_Subset
  <2> QED BY <1>3, <2>1, <2>2
<1>5. PICK m \in 0 .. c \ taken : \A k \in 0 .. c \ taken : m <= k
  <2> DEFINE U == 0 .. c \ taken
  <2>1. U \in SUBSET Nat /\ U # {}
    BY <1>3, <1>4
  <2> HIDE DEF U
  <2>2. \E m \in U : \A k \in U : m <= k
    BY <2>1, Least
  <2> QED BY <2>2 DEF U
<1>6. \A j \in 0 .. m - 1 : j \in taken
  BY <1>3, <1>5
<1> DEFINE P(i) == i \notin taken /\ \A j \in 0 .. i - 1 : j \in taken
<1>7. \E i \in 0 .. c : P(i)
  BY <1>5, <1>6
<1>8. FreeNo(d, name) = CHOOSE i \in 0 .. c : P(i)
  BY Zenon DEF FreeNo, taken
<1>9. FreeNo(d, name) \notin taken
  BY <1>7, <1>8
<1> QED BY <1>9 DEF taken

(* So os.WriteFile adds a file and truncates none.                          *)
LEMMA FileAdded ==
  ASSUME DOMAIN dir = Down, NEW d \in Down, NEW name, NEW content,
         IsFiniteSet(dir[d]), WriteFile(d, name, content)
  PROVE  /\ dir[d] \subseteq dir'[d] /\ IsFiniteSet(dir'[d])
         /\ \E f \in dir'[d] : f.name = name /\ f.content = content
         /\ \A e \in Down : e # d => dir'[e] = dir[e]
<1> DEFINE no == FreeNo(d, name)
           new == [name |-> name, no |-> no, content |-> content]
           kept == {f \in dir[d] : f.name # name \/ f.no # no}
<1>1. dir' = [dir EXCEPT ![d] = kept \cup {new}]
  BY Zenon DEF WriteFile
<1>2. dir'[d] = kept \cup {new} /\ \A e \in Down : e # d => dir'[e] = dir[e]
  BY <1>1
<1>3. kept = dir[d]
  BY FreeNumber
<1>4. dir'[d] = dir[d] \cup {new}
  BY <1>2, <1>3
<1>5. new.name = name /\ new.content = content
  OBVIOUS
<1> HIDE DEF new
<1>6. IsFiniteSet(dir'[d])
  BY <1>4, FS_AddElement
<1> QED BY <1>2, <1>4, <1>5, <1>6

(* What is unpacked is what was sent.                                       *)
LEMMA UnpackedIsSent ==
  ASSUME TypeOK, PackInv, NEW d \in Down, got[d] # NoBlob, Indexed(got[d])
  PROVE  /\ Unpacked(d).ok /\ Unpacked(d).files = sent[got[d]]
         /\ Len(sent[got[d]]) \in Nat \ {0}
<1> DEFINE fs == sent[got[d]]
<1>1. got[d] \in Up
  BY DEF TypeOK
<1>2. fs \in Selections /\ CanPack(fs)
  BY <1>1 DEF TypeOK, PackInv
<1>3. /\ fs \in Seq(Entry) /\ Len(fs) # 0
      /\ Len(fs) = 1 => Len(fs[1].name) \in 1 .. MaxFilenameLen
  BY <1>2, SelectionsAssumption
<1> HIDE DEF fs
<1>4. Decode(Pack(fs)) = Good(fs)
  BY <1>2, <1>3, RoundTrip
<1>5. Unpacked(d) = Good(fs)
  BY <1>4 DEF Unpacked, fs
<1>6. Good(fs).ok /\ Good(fs).files = fs
  BY DEF Good
<1> QED BY <1>3, <1>5, <1>6, LenProperties DEF fs


(* A step that writes nothing keeps what is saved, for a download that      *)
(* stays where it is, fails, or is not served yet.                          *)
LEMMA SaveKept ==
  ASSUME NEW d \in Down, SaveAt(d),
         sent' = sent, dir'[d] = dir[d], got'[d] = got[d], saved'[d] = saved[d],
         \A u : Indexed(u) => Indexed(u)',
         \/ dpc'[d] \in {dpc[d], "error"}
         \/ dpc[d] \in {"idle", "getting"} /\ dpc'[d] \in {"headOpening", "getOpening", "p2p"}
  PROVE  SaveAt(d)'
<1>1. sent'[got'[d]] = sent[got[d]]
  OBVIOUS
<1>2. \A k \in 1 .. saved'[d] : \A f \in dir'[d] : 
         f.name = sent'[got'[d]][k].name <=> f.name = sent[got[d]][k].name
  BY <1>1
<1> QED BY <1>1 DEF SaveAt

(* The relay's steps for uploads.                                           *)
LEMMA UploadSInv ==
  ASSUME IInv, SInv, NEW u \in Up, UploadStep(u)
  PROVE  SInv'
<1>1. UNCHANGED <<sent, dpc, dtok, ref, got, torn, saved, dir>>
  BY DEF UploadStep, ReceiveUpload, Spill, FormRead, CheckToken, CreateTemp, Copy, Index, Reply,
         Finish, uploadVars, downloadVars
<1>2. added \in Seq(Up) /\ (added' = added \/ (upc[u] = "indexing" /\ added' = Append(added, u)))
  BY DEF IInv, TypeOK, UploadStep, ReceiveUpload, Spill, FormRead, CheckToken, CreateTemp, Copy,
         Index, Copied, Reply, Finish
<1>3. \A v : Indexed(v) => Indexed(v)'
  <2>1. CASE added' = added
    BY <2>1 DEF Indexed
  <2>2. CASE added' = Append(added, u)
    BY <1>2, <2>2, AppendAdded DEF Indexed
  <2> QED BY <1>2, <2>1, <2>2
<1>4. \A v : Indexed(v)' => Indexed(v) \/ (v = u /\ upc[u] = "indexing")
  <2>1. CASE added' = added
    BY <2>1 DEF Indexed
  <2>2. CASE upc[u] = "indexing" /\ added' = Append(added, u)
    BY <1>2, <2>2, AppendAdded DEF Indexed
  <2> QED BY <1>2, <2>1, <2>2
<1>5. PackInv'
  <2> DEFINE Busy == {"receiving", "checking", "creating", "copying", "indexing"}
  <2>1. upc \in [Up -> InHandler \cup {"idle", "ok", "conflict", "failed"}]
    BY DEF IInv, TypeOK
  <2>2. \A v \in Up : v # u => upc'[v] = upc[v]
    BY <2>1 DEF UploadStep, ReceiveUpload, Spill, FormRead, CheckToken, CreateTemp, Copy, Index,
                Reply, Finish, uploadVars, Goto
  <2>3. upc'[u] \in Busy => upc[u] \in Busy \/ CanPack(sent[u])
    <3>1. CASE ReceiveUpload(u)
      BY <2>1, <3>1 DEF ReceiveUpload, Goto
    <3>2. CASE ~ReceiveUpload(u)
      <4>1. upc[u] # "replying" \/ upc'[u] \in {"ok", "failed"}
        BY <2>1, <3>2 DEF UploadStep, Spill, FormRead, CheckToken, CreateTemp, Copy, Index,
                          Copied, Reply, Finish, uploadVars, Goto
      <4>2. upc[u] \in Busy \cup {"replying"} \/ upc'[u] \notin Busy
        BY <3>2 DEF UploadStep, Spill, FormRead, CheckToken, CreateTemp, Copy, Index, Copied,
                    Reply, Finish, uploadVars
      <4> QED BY <4>1, <4>2
    <3> QED BY <3>1, <3>2
  <2>4. ASSUME NEW v \in Up, Indexed(v)' \/ upc'[v] \in Busy PROVE CanPack(sent[v])
    <3>1. Indexed(v) \/ upc[v] \in Busy \/ CanPack(sent[v])
      BY <1>4, <2>2, <2>3, <2>4
    <3> QED BY <3>1 DEF SInv, PackInv
  <2> QED BY <1>1, <2>4 DEF PackInv
<1>6. \A d \in Down : SaveAt(d)'
  BY <1>1, <1>3, SaveKept DEF SInv
<1> QED BY <1>5, <1>6 DEF SInv


(* Expiry and shutdown.                                                     *)
LEMMA RelaySInv ==
  ASSUME IInv, SInv, GrowOld \/ CleanupTick \/ Signal \/ RemoveFiles \/ RemoveDir \/ Exit
  PROVE  SInv'
<1>1. UNCHANGED <<added, sent, dtok, ref, got, torn, saved, dir>>
  BY DEF GrowOld, CleanupTick, Signal, RemoveFiles, RemoveDir, Exit, uploadVars, downloadVars
<1>2. \A v : Indexed(v)' <=> Indexed(v)
  BY <1>1 DEF Indexed
<1>3. /\ upc \in [Up -> InHandler \cup {"idle", "ok", "conflict", "failed"}]
      /\ DOMAIN dpc = Down
  BY DEF IInv, TypeOK
<1>4. \A u \in Up : upc'[u] \in {upc[u], "failed"}
  BY <1>3 DEF GrowOld, CleanupTick, Signal, RemoveFiles, RemoveDir, Exit, uploadVars
<1>5. \A d \in Down : dpc'[d] \in {dpc[d], "error"}
  BY <1>3 DEF GrowOld, CleanupTick, Signal, RemoveFiles, RemoveDir, Exit, downloadVars
<1>6. PackInv'
  BY <1>1, <1>2, <1>4 DEF SInv, PackInv
<1>7. \A d \in Down : SaveAt(d)'
  BY <1>1, <1>2, <1>5, SaveKept DEF SInv
<1> QED BY <1>6, <1>7 DEF SInv

(* One file written, wholly or not.                                         *)
LEMMA SaveSInv ==
  ASSUME IInv, SInv, NEW d \in Down, Save(d)
  PROVE  SaveAt(d)'
<1> DEFINE fs == sent[got[d]]
           f == Unpacked(d).files[saved[d] + 1]
<1>1. /\ dpc[d] = "saving" /\ UNCHANGED <<files, disk, added, sent, got>>
  BY DEF Save, uploadVars
<1>2. SaveAt(d) /\ TypeOK /\ PackInv
  BY DEF SInv, IInv
<1>3. got[d] # NoBlob /\ Indexed(got[d])
  BY <1>1, <1>2 DEF SaveAt
<1>4. Unpacked(d).files = fs /\ Len(fs) \in Nat
  BY <1>2, <1>3, UnpackedIsSent
<1>5. /\ dpc \in [Down -> InRequest \cup {"idle", "getting", "saving", "done", "p2p", "error"}]
      /\ saved \in [Down -> Nat] /\ DOMAIN dir = Down
  BY <1>2 DEF TypeOK
<1>6. saved[d] < Len(fs)
  BY <1>1, <1>2 DEF SaveAt
<1>7. Indexed(got[d])' /\ sent'[got'[d]] = fs
  BY <1>1, <1>3 DEF Indexed
<1>8. /\ IsFiniteSet(dir[d]) /\ Existing \subseteq dir[d]
      /\ \A k \in 1 .. saved[d] : \E g \in dir[d] : g.name = fs[k].name /\ g.content = fs[k].content
  BY <1>2, <1>3 DEF SaveAt
<1>9. CASE /\ WriteFile(d, f.name, f.content) /\ saved' = [saved EXCEPT ![d] = @ + 1]
           /\ Step(d, IF saved[d] + 1 = Len(Unpacked(d).files) THEN "done" ELSE "saving")
  <2>1. /\ dir[d] \subseteq dir'[d] /\ IsFiniteSet(dir'[d])
        /\ \E g \in dir'[d] : g.name = f.name /\ g.content = f.content
    BY <1>5, <1>8, <1>9, FileAdded
  <2>2. f = fs[saved[d] + 1]
    BY <1>4
  <2>3. saved'[d] = saved[d] + 1 /\ saved[d] \in Nat
    BY <1>5, <1>9
  <2>4. dpc'[d] = IF saved[d] + 1 = Len(fs) THEN "done" ELSE "saving"
    BY <1>4, <1>5, <1>9, Zenon DEF Step
  <2> HIDE DEF f, fs
  <2>5. ASSUME NEW k \in 1 .. saved'[d]
        PROVE  \E g \in dir'[d] : g.name = fs[k].name /\ g.content = fs[k].content
    <3>1. CASE k = saved[d] + 1
      BY <2>1, <2>2, <3>1
    <3>2. CASE k # saved[d] + 1
      <4>1. k \in 1 .. saved[d]
        BY <2>3, <3>2
      <4> QED BY <1>8, <2>1, <4>1
    <3> QED BY <3>1, <3>2
  <2>6. /\ saved'[d] <= Len(fs) /\ (dpc'[d] = "done" => saved'[d] = Len(fs))
        /\ (dpc'[d] = "saving" => saved'[d] < Len(fs)) /\ dpc'[d] \in {"saving", "done"}
    BY <1>4, <1>6, <2>3, <2>4
  <2>7. got'[d] # NoBlob /\ Existing \subseteq dir'[d]
    BY <1>1, <1>3, <1>8, <2>1
  <2> QED BY <1>7, <2>1, <2>5, <2>6, <2>7 DEF SaveAt
<1>10. CASE /\ WriteFile(d, f.name, << >>) \/ UNCHANGED dir
            /\ Step(d, "error") /\ UNCHANGED saved
  <2>1. dir[d] \subseteq dir'[d] /\ IsFiniteSet(dir'[d])
    <3>1. CASE WriteFile(d, f.name, << >>)
      BY <1>5, <1>8, <3>1, FileAdded
    <3>2. CASE UNCHANGED dir
      BY <1>8, <3>2
    <3> QED BY <1>10, <3>1, <3>2
  <2>2. dpc'[d] = "error" /\ saved'[d] = saved[d]
    BY <1>5, <1>10 DEF Step
  <2> HIDE DEF f, fs
  <2>3. \A k \in 1 .. saved'[d] : \E g \in dir'[d] :
           g.name = fs[k].name /\ g.content = fs[k].content
    BY <1>8, <2>1, <2>2
  <2>4. saved'[d] <= Len(fs) /\ saved[d] \in Nat
    BY <1>4, <1>5, <1>6, <2>2
  <2>5. got'[d] # NoBlob /\ Existing \subseteq dir'[d]
    BY <1>1, <1>3, <1>8, <2>1
  <2> QED BY <1>7, <2>1, <2>2, <2>3, <2>4, <2>5 DEF SaveAt
<1> QED BY <1>9, <1>10, Zenon DEF Save


(* drop download's steps.                                                   *)
LEMMA DownloadSInv ==
  ASSUME IInv, SInv, NEW d \in Down, DownloadStep(d)
  PROVE  SInv'
<1>1. UNCHANGED <<added, upc, sent>>
  BY DEF DownloadStep, Lookup, Unreachable, Open, Fetch, Save, uploadVars
<1>2. \A v : Indexed(v)' <=> Indexed(v)
  BY <1>1 DEF Indexed
<1>3. PackInv'
  BY <1>1, <1>2 DEF SInv, PackInv
<1>4. /\ dpc \in [Down -> InRequest \cup {"idle", "getting", "saving", "done", "p2p", "error"}]
      /\ ref \in [Down -> Up \cup {NoBlob}] /\ got \in [Down -> Up \cup {NoBlob}]
      /\ saved \in [Down -> Nat] /\ DOMAIN dir = Down
  BY DEF IInv, TypeOK
<1>5. SaveAt(d) /\ TypeOK /\ PackInv
  BY DEF SInv, IInv
<1>6. ASSUME NEW e \in Down, e # d PROVE SaveAt(e)'
  <2>1. SaveAt(e)
    BY DEF SInv
  <2>2. dpc'[e] = dpc[e] /\ got'[e] = got[e] /\ saved'[e] = saved[e]
    BY <1>4, <1>6 DEF DownloadStep, Lookup, Unreachable, Open, Fetch, Save, Step
  <2>3. dir'[e] = dir[e]
    <3>1. dir' = dir \/ \E v : dir' = [dir EXCEPT ![d] = v]
      BY Zenon DEF DownloadStep, Lookup, Unreachable, Open, Fetch, Save, WriteFile
    <3> QED BY <1>4, <1>6, <3>1
  <2> QED BY <1>1, <1>2, <2>1, <2>2, <2>3, SaveKept
<1>7. SaveAt(d)'
  <2>1. CASE Lookup(d) \/ Unreachable(d)
    <3>1. UNCHANGED <<got, saved, dir>>
      BY <2>1 DEF Lookup, Unreachable
    <3>2. /\ dpc[d] \in {"idle", "getting"}
          /\ dpc'[d] \in {"headOpening", "getOpening", "p2p", "error"}
      BY <1>4, <2>1, Tables DEF Lookup, Unreachable, Step
    <3> QED BY <1>1, <1>2, <1>5, <3>1, <3>2, SaveKept
  <2>2. CASE Open(d)
    <3>1. UNCHANGED <<saved, dir>> /\ dpc[d] \in {"headOpening", "getOpening"}
      BY <2>2, Tables DEF Open
    <3>2. ref[d] # NoBlob /\ Indexed(ref[d])
      BY <3>1, Tables DEF IInv, RefInv
    <3>3. CASE dpc'[d] = "error" /\ got' = got
      BY <1>1, <1>2, <1>5, <3>1, <3>3, SaveKept
    <3>4. CASE dpc'[d] \in {"getting", "fetching"} /\ got'[d] = ref[d]
      <4>1. saved'[d] = 0 /\ dir'[d] = dir[d]
        BY <1>5, <3>1 DEF SaveAt
      <4>2. Indexed(ref[d])'
        <5>1. ref' = ref
          BY <2>2 DEF Open
        <5> QED BY <1>1, <3>2, <5>1 DEF Indexed
      <4>3. Indexed(got[d])'
        <5>1. ref' = ref
          BY <2>2 DEF Open
        <5> QED BY <3>4, <4>2, <5>1
      <4>4. Len(sent'[got'[d]]) \in Nat
        <5>1. ref[d] \in Up
          BY <1>4, <3>2
        <5>2. sent[ref[d]] \in Selections
          BY <1>5, <5>1 DEF TypeOK
        <5>3. sent[ref[d]] \in Seq(Entry)
          BY <5>2, SelectionsAssumption
        <5> QED BY <1>1, <3>4, <5>3, LenProperties
      <4>5. IsFiniteSet(dir'[d]) /\ Existing \subseteq dir'[d]
        BY <1>5, <4>1 DEF SaveAt
      <4> QED BY <3>2, <3>4, <4>1, <4>3, <4>4, <4>5 DEF SaveAt
    <3>5. \/ dpc'[d] = "error" /\ got' = got
          \/ dpc'[d] \in {"getting", "fetching"} /\ got'[d] = ref[d]
      BY <1>4, <2>2, <3>1, Tables DEF Open, Step
    <3> QED BY <3>3, <3>4, <3>5
  <2>3. CASE Fetch(d)
    <3>1. UNCHANGED <<got, saved, dir>> /\ dpc[d] = "fetching" /\ dpc'[d] \in {"saving", "error"}
      BY <1>4, <2>3 DEF Fetch, Step
    <3>2. CASE dpc'[d] = "error"
      BY <1>1, <1>2, <1>5, <3>1, <3>2, SaveKept
    <3>3. CASE dpc'[d] = "saving"
      <4>1. got[d] # NoBlob /\ Indexed(got[d]) /\ saved[d] = 0
        BY <1>5, <3>1 DEF SaveAt
      <4>2. Len(sent[got[d]]) \in Nat \ {0}
        BY <1>5, <4>1, UnpackedIsSent
      <4>3. 0 < Len(sent[got[d]])
        BY <4>2
      <4>4. Indexed(got[d])'
        BY <1>1, <3>1, <4>1 DEF Indexed
      <4>5. /\ sent'[got'[d]] = sent[got[d]] /\ saved'[d] = 0 /\ dir'[d] = dir[d]
            /\ got'[d] = got[d]
        BY <1>1, <3>1, <4>1
      <4> QED BY <1>5, <3>3, <4>1, <4>2, <4>3, <4>4, <4>5 DEF SaveAt
    <3> QED BY <3>1, <3>2, <3>3
  <2>4. CASE Save(d)
    BY <2>4, SaveSInv
  <2> QED BY <2>1, <2>2, <2>3, <2>4 DEF DownloadStep
<1> QED BY <1>3, <1>6, <1>7 DEF SInv

LEMMA InitSInv == Init => SInv
<1> SUFFICES ASSUME Init PROVE SInv
  OBVIOUS
<1>1. PackInv
  BY DEF Init, PackInv, Indexed
<1>2. ASSUME NEW d \in Down PROVE SaveAt(d)
  BY SelectionsAssumption DEF Init, SaveAt
<1> QED BY <1>1, <1>2 DEF SInv

LEMMA NextSInv == IInv /\ SInv /\ [Next]_vars => SInv'
<1> SUFFICES ASSUME IInv, SInv, [Next]_vars PROVE SInv'
  OBVIOUS
<1>1. ASSUME NEW u \in Up, UploadStep(u) PROVE SInv'
  BY <1>1, UploadSInv
<1>2. ASSUME NEW d \in Down, DownloadStep(d) PROVE SInv'
  BY <1>2, DownloadSInv
<1>3. CASE GrowOld \/ CleanupTick \/ Signal \/ RemoveFiles \/ RemoveDir \/ Exit
  BY <1>3, RelaySInv
<1>4. CASE UNCHANGED vars
  <2>1. UNCHANGED <<added, upc, sent, dpc, got, saved, dir>>
    BY <1>4 DEF vars, uploadVars, downloadVars
  <2>2. \A v : Indexed(v)' <=> Indexed(v)
    BY <2>1 DEF Indexed
  <2>3. PackInv'
    BY <2>1, <2>2 DEF SInv, PackInv
  <2>4. \A d \in Down : SaveAt(d)'
    BY <2>1, <2>2, SaveKept DEF SInv
  <2> QED BY <2>3, <2>4 DEF SInv
<1> QED BY <1>1, <1>2, <1>3, <1>4 DEF Next

LEMMA SpecSInv == Spec => []SInv
  BY InitSInv, NextSInv, SpecIInv, PTL DEF Spec

(* What a download was served it can unpack, and what it has saved are the  *)
(* first of the files that were sent, whole and under their names, all of   *)
(* them when it is done, and the files that were there: no file it writes   *)
(* truncates another, whatever names and sizes the files have.              *)
THEOREM DownloadsSaveWhatWasSent == Spec => []SavedIsSent
<1>1. IInv /\ SInv => SavedIsSent
  <2> SUFFICES ASSUME IInv, SInv, NEW d \in Down, got[d] # NoBlob
               PROVE  /\ Unpacked(d).ok
                      /\ Existing \subseteq dir[d]
                      /\ saved[d] <= Len(sent[got[d]])
                      /\ dpc[d] = "done" => saved[d] = Len(sent[got[d]])
                      /\ \A k \in 1 .. saved[d] : \E f \in dir[d] :
                            /\ f.name = sent[got[d]][k].name
                            /\ f.content = sent[got[d]][k].content
    BY Zenon DEF SavedIsSent
  <2>1. SaveAt(d) /\ TypeOK /\ PackInv
    BY DEF IInv, SInv
  <2>2. Unpacked(d).ok
    BY <2>1, UnpackedIsSent DEF SaveAt
  <2> QED BY <2>1, <2>2 DEF SaveAt
<1> QED BY <1>1, SpecIInv, SpecSInv, PTL

=============================================================================
