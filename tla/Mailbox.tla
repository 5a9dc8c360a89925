------------------------------ MODULE Mailbox ------------------------------
(***************************************************************************)
(* Mailbox mode: the relay's FileStore (store.go) with the handlers that    *)
(* use it (POST /upload, HEAD and GET /raw/{token}), its one-minute cleanup *)
(* loop, its orderly shutdown (cmd/relay/main.go), and the CLI on both      *)
(* sides: an upload and a "drop download" are processes of one request, or  *)
(* two, each.                                                               *)
(*                                                                          *)
(* Every upload writes a temporary file of its own and the index maps a     *)
(* token to such a file, so a blob and its path are named by the upload.    *)
(* fs.mu is not a variable: Store takes it twice and the actions are what   *)
(* happens between two releases; the cleanup loop holds it for all its      *)
(* work, and the shutdown from the first file it removes to the directory,  *)
(* which is the phase "removing".                                           *)
(***************************************************************************)
EXTENDS Payload

CONSTANTS
    Up,        \* uploads
    Token,     \* tokens
    Down,      \* downloads, each into a directory of its own
    Selections,  \* what drop send is given: sequences of files
    Big,       \* those whose blob is over the 32 MB a form keeps in memory
    Unsafe,    \* names that a file can have and SafeFilename refuses
    Existing   \* files in each directory before

NoBlob == "none"    \* the index has no entry

ASSUME BlobAssumption == NoBlob \notin Up

(* A selection has a file, and a file a name that no system lets be empty   *)
(* or longer than an entry can have it; EncodeAMB2 looks again.             *)
ASSUME SelectionsAssumption ==
    /\ \A fs \in Selections :
          /\ fs \in Seq(Entry) /\ Len(fs) # 0
          /\ Len(fs) = 1 => Len(fs[1].name) \in 1 .. MaxFilenameLen
    /\ IsFiniteSet(Existing) /\ Big \subseteq Selections

VARIABLES
    files,     \* fs.files: token to blob, or NoBlob
    disk,      \* each blob's file: "none", "part" or "whole"
    added,     \* uploads in the order they were indexed (CreatedAt)
    old,       \* how many of those are past fs.expiry
    phase,     \* the relay: "running", "draining", "removing", "removed", "exited"
    there,     \* the directory of the blobs is
    spilled,   \* the form of an upload is in a file multipart-*, elsewhere
    atRemoval, \* each upload when the shutdown removed the files: "early",
               \* with no file yet, "busy", in a later step, or "over"
    upc,       \* where each upload is
    utok,      \* its token
    sent,      \* the files it is of
    dpc,       \* where each download is
    dtok,      \* its token
    ref,       \* the entry its handler got from the index
    got,       \* the blob it was served
    torn,      \* that was not whole
    saved,     \* how many of its files it has written
    dir        \* its directory: the files there, by name and number, in "name(1).x"

uploadVars == <<upc, utok, sent>>
downloadVars == <<dpc, dtok, ref, got, torn, saved, dir>>
vars == <<files, disk, added, old, phase, there, spilled, atRemoval,
          uploadVars, downloadVars>>

shutdownVars == <<phase, there, atRemoval>>

Init ==
    /\ files = [t \in Token |-> NoBlob]
    /\ disk = [u \in Up |-> "none"]
    /\ added = << >> /\ old = 0
    /\ phase = "running" /\ there = TRUE
    /\ spilled = [u \in Up |-> FALSE] /\ atRemoval = [u \in Up |-> "over"]
    /\ upc = [u \in Up |-> "idle"] /\ utok \in [Up -> Token]
    /\ sent \in [Up -> Selections]
    /\ dpc = [d \in Down |-> "idle"] /\ dtok \in [Down -> Token]
    /\ ref = [d \in Down |-> NoBlob] /\ got = [d \in Down |-> NoBlob]
    /\ torn = [d \in Down |-> FALSE] /\ saved = [d \in Down |-> 0]
    /\ dir = [d \in Down |-> Existing]

Goto(u, l) == upc' = [upc EXCEPT ![u] = l]
Step(d, l) == dpc' = [dpc EXCEPT ![d] = l]

Old(u) == \E i \in 1 .. old : added[i] = u

Alive == phase # "exited"

(* FileStore.Shutdown holds fs.mu while it removes.                         *)
Unlocked == phase \notin {"removing", "exited"}

-----------------------------------------------------------------------------
(* POST /upload.                                                            *)

(* drop send packs its files and sends them.                                *)
ReceiveUpload(u) ==
    /\ upc[u] = "idle" /\ phase = "running"
    /\ \/ CanPack(sent[u]) /\ Goto(u, "receiving")
       \/ Goto(u, "failed")
    /\ UNCHANGED <<files, disk, added, old, shutdownVars, spilled, utok, sent, downloadVars>>

(* r.FormFile keeps what is over 32 MB in a file of os.TempDir.             *)
Spill(u) ==
    /\ upc[u] = "receiving" /\ Alive
    /\ sent[u] \in Big /\ ~spilled[u]
    /\ spilled' = [spilled EXCEPT ![u] = TRUE]
    /\ UNCHANGED <<files, disk, added, old, shutdownVars, uploadVars, downloadVars>>

(* The form is read whole before Store is called; a request that is cut     *)
(* off, too large or has a malformed token is refused.                      *)
FormRead(u) ==
    /\ upc[u] = "receiving" /\ Alive
    /\ \/ (sent[u] \in Big => spilled[u]) /\ Goto(u, "checking")
       \/ Goto(u, "failed")
    /\ UNCHANGED <<files, disk, added, old, shutdownVars, spilled, utok, sent, downloadVars>>

(* Store: is the token taken?  Under the read lock, which is released.      *)
CheckToken(u) ==
    /\ upc[u] = "checking" /\ Unlocked
    /\ Goto(u, IF files[utok[u]] = NoBlob THEN "creating" ELSE "conflict")
    /\ UNCHANGED <<files, disk, added, old, shutdownVars, spilled, utok, sent, downloadVars>>

(* os.CreateTemp, without the lock: also while the shutdown removes files.  *)
CreateTemp(u) ==
    /\ upc[u] = "creating" /\ Alive
    /\ \/ /\ there
          /\ disk' = [disk EXCEPT ![u] = "part"]
          /\ Goto(u, "copying")
       \/ Goto(u, "failed") /\ UNCHANGED disk
    /\ UNCHANGED <<files, added, old, shutdownVars, spilled, utok, sent, downloadVars>>

AfterFailedCopyGoesOn == "indexing"  \* mutant: the error of io.Copy is ignored

AfterFailedCopy == "failed"

(* io.Copy, without the lock; into a file that the shutdown may have        *)
(* unlinked.                                                                *)
Copy(u) ==
    /\ upc[u] = "copying" /\ Alive
    /\ \/ /\ disk' = [disk EXCEPT ![u] = IF @ = "part" THEN "whole" ELSE @]
          /\ Goto(u, "indexing")
       \/ /\ disk' = [disk EXCEPT ![u] = "none"]
          /\ Goto(u, AfterFailedCopy)
    /\ UNCHANGED <<files, added, old, shutdownVars, spilled, utok, sent, downloadVars>>

CopiedOrNot(u) == upc[u] \in {"copying", "indexing"}  \* mutant: indexed while copying

Copied(u) == upc[u] = "indexing"

SlotShort(u) == CHOOSE t \in Token : TRUE  \* mutant: keyed by the shortened token

Slot(u) == utok[u]

(* Under the write lock; the token is not looked at again.                  *)
Index(u) ==
    /\ Copied(u) /\ Unlocked
    /\ files' = [files EXCEPT ![Slot(u)] = u]
    /\ added' = Append(added, u)
    /\ Goto(u, "replying")
    /\ UNCHANGED <<disk, old, shutdownVars, spilled, utok, sent, downloadVars>>

(* The handler looks the blob up for its counters and replies.  The reply   *)
(* may not reach the client, which then reports a failure.                  *)
Reply(u) ==
    /\ upc[u] = "replying" /\ Unlocked
    /\ Goto(u, "ok") \/ Goto(u, "failed")
    /\ UNCHANGED <<files, disk, added, old, shutdownVars, spilled, utok, sent, downloadVars>>

(* net/http removes the form's file when the handler has returned.          *)
Finish(u) ==
    /\ upc[u] \in {"ok", "conflict", "failed"} /\ spilled[u] /\ Alive
    /\ spilled' = [spilled EXCEPT ![u] = FALSE]
    /\ UNCHANGED <<files, disk, added, old, shutdownVars, uploadVars, downloadVars>>

-----------------------------------------------------------------------------
(* drop download: HEAD /raw/{token}, then GET /raw/{token}; each handler    *)
(* looks the token up under the lock and opens the file without it.         *)

Looks == [idle |-> "headOpening", getting |-> "getOpening"]
Missing == [idle |-> "p2p", getting |-> "error"]
Opened == [headOpening |-> "getting", getOpening |-> "fetching"]

(* Store.Get.  On 404 the probe turns to the live room, the fetch fails.    *)
Lookup(d) ==
    /\ dpc[d] \in DOMAIN Looks /\ phase = "running"
    /\ LET u == files[dtok[d]]
       IN  IF u = NoBlob THEN Step(d, Missing[dpc[d]]) /\ UNCHANGED ref
           ELSE Step(d, Looks[dpc[d]]) /\ ref' = [ref EXCEPT ![d] = u]
    /\ UNCHANGED <<files, disk, added, old, shutdownVars, spilled, uploadVars,
                    dtok, got, torn, saved, dir>>

(* The relay is gone or does not answer.                                    *)
Unreachable(d) ==
    /\ dpc[d] \in DOMAIN Looks
    /\ Step(d, "error")
    /\ UNCHANGED <<files, disk, added, old, shutdownVars, spilled, uploadVars,
                    dtok, ref, got, torn, saved, dir>>

(* os.Open; a file removed since Get is a 500.                              *)
Open(d) ==
    /\ dpc[d] \in DOMAIN Opened /\ Alive
    /\ \/ /\ disk[ref[d]] # "none"
          /\ Step(d, Opened[dpc[d]])
          /\ got' = [got EXCEPT ![d] = ref[d]]
          /\ torn' = [torn EXCEPT ![d] = disk[ref[d]] = "part"]
       \/ /\ disk[ref[d]] = "none"
          /\ Step(d, "error")
          /\ UNCHANGED <<got, torn>>
    /\ UNCHANGED <<files, disk, added, old, shutdownVars, spilled, uploadVars,
                    dtok, ref, saved, dir>>

Unpacked(d) == Decode(Pack(sent[got[d]]))

(* The open file is served whatever becomes of its name; the transfer may   *)
(* be cut off, and what is not a whole blob does not decrypt.               *)
Fetch(d) ==
    /\ dpc[d] = "fetching" /\ Alive
    /\ \/ ~torn[d] /\ Unpacked(d).ok /\ Step(d, "saving")
       \/ Step(d, "error")
    /\ UNCHANGED <<files, disk, added, old, shutdownVars, spilled, uploadVars,
                    dtok, ref, got, torn, saved, dir>>

FreeNoTaken(d, name) == 0  \* mutant: os.Stat is not asked

(* mailboxUniqueSavePath: "name", "name(1)", "name(2)", ...                 *)
FreeNo(d, name) ==
    LET taken == {f.no : f \in {f \in dir[d] : f.name = name}}
    IN  CHOOSE i \in 0 .. Cardinality(taken) :
           i \notin taken /\ \A j \in 0 .. i - 1 : j \in taken

(* os.WriteFile truncates what is there.                                    *)
WriteFile(d, name, content) ==
    LET no == FreeNo(d, name)
    IN  dir' = [dir EXCEPT ![d] =
                  {f \in @ : f.name # name \/ f.no # no}
                     \cup {[name |-> name, no |-> no, content |-> content]}]

(* One file after the other is written; an unsafe name or a failed write    *)
(* (that may have created the file) ends it, and leaves the files before.   *)
Save(d) ==
    LET f == Unpacked(d).files[saved[d] + 1]
    IN  /\ dpc[d] = "saving"
        /\ \/ /\ f.name \notin Unsafe /\ WriteFile(d, f.name, f.content)
              /\ saved' = [saved EXCEPT ![d] = @ + 1]
              /\ Step(d, IF saved[d] + 1 = Len(Unpacked(d).files) THEN "done" ELSE "saving")
           \/ /\ f.name \notin Unsafe /\ WriteFile(d, f.name, << >>)
              /\ Step(d, "error") /\ UNCHANGED saved
           \/ Step(d, "error") /\ UNCHANGED <<saved, dir>>
        /\ UNCHANGED <<files, disk, added, old, shutdownVars, spilled, uploadVars,
                    dtok, ref, got, torn>>

-----------------------------------------------------------------------------
(* Expiry and shutdown.                                                     *)

(* Time passes: blobs become old in the order they were indexed.            *)
GrowOld ==
    /\ old < Len(added) /\ phase = "running"
    /\ old' = old + 1
    /\ UNCHANGED <<files, disk, added, shutdownVars, spilled, uploadVars, downloadVars>>

ExpiredKept == {}  \* mutant: the entries go but not their files

Expired == {u \in Up : Old(u) /\ files[utok[u]] = u}

(* cleanupLoop: the old entries of the index and their files go.            *)
CleanupTick ==
    /\ phase = "running"
    /\ \E t \in Token : files[t] # NoBlob /\ Old(files[t])
    /\ files' = [t \in Token |->
                   IF files[t] # NoBlob /\ Old(files[t]) THEN NoBlob ELSE files[t]]
    /\ disk' = [u \in Up |-> IF u \in Expired THEN "none" ELSE disk[u]]
    /\ UNCHANGED <<added, old, shutdownVars, spilled, uploadVars, downloadVars>>

(* The signal ends the cleanup loop, and srv.Shutdown takes no request any  *)
(* more; running handlers get up to 30 s.                                   *)
Signal ==
    /\ phase = "running"
    /\ phase' = "draining"
    /\ UNCHANGED <<files, disk, added, old, there, spilled, atRemoval, uploadVars, downloadVars>>

InHandler == {"receiving", "checking", "creating", "copying", "indexing", "replying"}
InRequest == {"headOpening", "getOpening", "fetching"}

(* net/http is through with the request.                                    *)
Over(u) == upc[u] \notin InHandler /\ ~spilled[u]

(* The handler has created no file in the directory.                        *)
Early(u) == upc[u] \in {"receiving", "checking", "creating"}

RemovedIndexed == {files[t] : t \in Token}  \* mutant: no RemoveAll, only the index

Removed == Up

(* FileStore.Shutdown takes the lock, whether or not the handlers were done *)
(* in time, and removes every indexed file and what os.RemoveAll finds in   *)
(* the directory.  The index itself stays.                                  *)
RemoveFiles ==
    /\ phase = "draining"
    /\ phase' = "removing"
    /\ disk' = [u \in Up |-> IF u \in Removed THEN "none" ELSE disk[u]]
    /\ atRemoval' = [u \in Up |-> IF Over(u) THEN "over"
                               ELSE IF Early(u) THEN "early" ELSE "busy"]
    /\ UNCHANGED <<files, added, old, there, spilled, uploadVars, downloadVars>>

(* os.RemoveAll removes the directory, unless a file was created in it      *)
(* since; its error is ignored, and the lock released.                      *)
RemoveDir ==
    /\ phase = "removing"
    /\ phase' = "removed"
    /\ there' = \E u \in Up : disk[u] # "none"
    /\ UNCHANGED <<files, disk, added, old, spilled, atRemoval, uploadVars, downloadVars>>

(* The process ends, and with it what still runs; its clients see an error, *)
(* and what it has on disk stays there.                                     *)
Exit ==
    /\ phase = "removed"
    /\ phase' = "exited"
    /\ upc' = [u \in Up |-> IF upc[u] \in InHandler THEN "failed" ELSE upc[u]]
    /\ dpc' = [d \in Down |-> IF dpc[d] \in InRequest THEN "error" ELSE dpc[d]]
    /\ UNCHANGED <<files, disk, added, old, there, spilled, atRemoval, utok, sent, dtok, ref,
                    got, torn, saved, dir>>

-----------------------------------------------------------------------------
UploadStep(u) ==
    \/ ReceiveUpload(u) \/ Spill(u) \/ FormRead(u) \/ CheckToken(u) \/ CreateTemp(u)
    \/ Copy(u) \/ Index(u) \/ Reply(u) \/ Finish(u)

DownloadStep(d) == Lookup(d) \/ Unreachable(d) \/ Open(d) \/ Fetch(d) \/ Save(d)

Next ==
    \/ \E u \in Up : UploadStep(u)
    \/ \E d \in Down : DownloadStep(d)
    \/ GrowOld \/ CleanupTick \/ Signal \/ RemoveFiles \/ RemoveDir \/ Exit

Spec == Init /\ [][Next]_vars

(* The ticker fires, time passes, and a shutdown that began is finished.    *)
(* Clients owe nothing.                                                     *)
Fairness ==
    /\ WF_vars(GrowOld) /\ WF_vars(CleanupTick)
    /\ WF_vars(RemoveFiles) /\ WF_vars(RemoveDir) /\ WF_vars(Exit)

FairSpec == Spec /\ Fairness

-----------------------------------------------------------------------------
(* Properties.                                                              *)

Indexed(u) == \E i \in 1 .. Len(added) : added[i] = u

(* Every variable keeps its shape; the index holds, under its own token,    *)
(* only blobs that have been indexed.                                       *)
TypeOK ==
    /\ files \in [Token -> Up \cup {NoBlob}]
    /\ \A t \in Token : files[t] # NoBlob =>
          /\ utok[files[t]] = t
          /\ Indexed(files[t])
    /\ disk \in [Up -> {"none", "part", "whole"}]
    /\ added \in Seq(Up) /\ old \in 0 .. Len(added)
    /\ phase \in {"running", "draining", "removing", "removed", "exited"}
    /\ there \in BOOLEAN /\ spilled \in [Up -> BOOLEAN]
    /\ atRemoval \in [Up -> {"early", "busy", "over"}]
    /\ upc \in [Up -> InHandler \cup {"idle", "ok", "conflict", "failed"}]
    /\ utok \in [Up -> Token] /\ sent \in [Up -> Selections]
    /\ dpc \in [Down -> InRequest \cup {"idle", "getting", "saving", "done", "p2p", "error"}]
    /\ dtok \in [Down -> Token]
    /\ ref \in [Down -> Up \cup {NoBlob}] /\ got \in [Down -> Up \cup {NoBlob}]
    /\ torn \in [Down -> BOOLEAN]
    /\ saved \in [Down -> Nat] /\ DOMAIN dir = Down

(* What a download is served is one whole blob, uploaded for its token,     *)
(* although the file is opened after the lock is released and may have      *)
(* expired, or been overwritten in the index, by then.                      *)
ServedWhole ==
    \A d \in Down : got[d] # NoBlob => ~torn[d] /\ utok[got[d]] = dtok[d]

(* What was packed can be unpacked, and what a download has saved are the   *)
(* first of those files, all of them when it is done, under their names or  *)
(* with a number; two of one name, or a file that was there, do not         *)
(* overwrite each other.                                                    *)
SavedIsSent ==
    \A d \in Down : got[d] # NoBlob =>
       LET fs == sent[got[d]]
       IN  /\ Unpacked(d).ok
           /\ Existing \subseteq dir[d]
           /\ saved[d] <= Len(fs) /\ (dpc[d] = "done" => saved[d] = Len(fs))
           /\ \A k \in 1 .. saved[d] : \E f \in dir[d] :
                 f.name = fs[k].name /\ f.content = fs[k].content

(* A token whose upload was acknowledged has a whole blob for as long as    *)
(* that upload is not past its expiry: nothing else takes it away while the *)
(* relay runs.                                                              *)
TokenStaysServed ==
    \A u \in Up : upc[u] = "ok" /\ ~Old(u) /\ phase = "running" =>
       files[utok[u]] # NoBlob /\ disk[files[utok[u]]] = "whole"

(* What an orderly exit leaves on disk is of uploads whose request was not  *)
(* through when the store was shut down (srv.Shutdown waits 30 s for them): *)
(* nothing of the others, nor of an upload that was being copied or indexed *)
(* then.  A blob that stays was created since, before the directory went,   *)
(* and a form's file is one that net/http had not removed.                  *)
ExitClean ==
    phase = "exited" =>
       \A u \in Up :
          /\ disk[u] # "none" => atRemoval[u] = "early"
          /\ spilled[u] => atRemoval[u] # "over"

(* An indexed blob does not stay on disk: it expires, or goes with the      *)
(* relay, unless another upload of its token took its place in the index    *)
(* (then nobody knows its file any more), or its file was created while the *)
(* shutdown removed the others.                                             *)
BlobsGo ==
    \A u \in Up :
       files[utok[u]] = u ~>
          disk[u] = "none" \/ files[utok[u]] \notin {u, NoBlob} \/ atRemoval[u] = "early"

(* README.md: "the relay holds the encrypted file for 10 minutes": an       *)
(* upload the relay acknowledged is what its token stands for until it      *)
(* expires.                                                                 *)
AckedIsHeld ==
    \A u \in Up : upc[u] = "ok" /\ ~Old(u) /\ phase = "running" => files[utok[u]] = u
=============================================================================
