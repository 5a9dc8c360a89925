----------------------------- MODULE SelfUpdate -----------------------------
(***************************************************************************)
(* "drop update" (update.go): the new binary is written to one well-known   *)
(* temporary file and put in the place of the running one.  The steps of    *)
(* several updates interleave, every one may fail, and an update may be     *)
(* killed between any two.                                                  *)
(*                                                                          *)
(* A name stands for a file, and a program that has it open, or runs it,    *)
(* keeps that file when the name goes or changes.  External: on Windows a   *)
(* file that is open cannot be moved or removed, and one that is run can    *)
(* be moved but not removed or replaced.                                    *)
(***************************************************************************)
EXTENDS Integers, FiniteSets

CONSTANTS
    Updates,   \* processes of drop update
    MaxStarts  \* bound: updates started

ASSUME UpdatesAssumption == IsFiniteSet(Updates) /\ MaxStarts \in Nat

File == 1 .. 3 + 2 * Cardinality(Updates) + 1
NoFile == 0
Names == {"exec", "tmp", "old"}

VARIABLES
    sys,       \* "unix" or "windows"
    sameFs,    \* the temporary directory and the binary are on one file system
    owned,     \* the binary can be removed without sudo
    name,      \* the file of each name
    data,      \* the contents of each file: "v1", "new" or "part" of one
    pc,        \* where each update is
    image,     \* the file it runs from
    fd,        \* the file it is writing
    buf,       \* what copyFile has read
    starts,    \* updates started
    together   \* two of them at one time

vars == <<sys, sameFs, owned, name, data, pc, image, fd, buf, starts, together>>
fixed == <<sys, sameFs, owned, starts, together>>

Ended == {"idle", "done", "failed", "killed"}
Runs(p) == pc[p] \notin Ended

Init ==
    /\ sys \in {"unix", "windows"} /\ sameFs \in BOOLEAN /\ owned \in BOOLEAN
    /\ name = [n \in Names |-> IF n = "exec" THEN 1 ELSE NoFile]
    /\ data = [f \in File |-> "v1"]
    /\ pc = [p \in Updates |-> "idle"]
    /\ image = [p \in Updates |-> NoFile] /\ fd = [p \in Updates |-> NoFile]
    /\ buf = [p \in Updates |-> "v1"]
    /\ starts = 0 /\ together = FALSE

Exists(n) == name[n] # NoFile
Whole(n) == Exists(n) /\ data[name[n]] # "part"

Goto(p, l) == pc' = [pc EXCEPT ![p] = l]

Open(f) == \E p \in Updates : fd[p] = f
Run(f) == \E p \in Updates : Runs(p) /\ image[p] = f

CanMove(n) == Exists(n) /\ (sys = "windows" => ~Open(name[n]))
CanRemove(n) == CanMove(n) /\ (sys = "windows" => ~Run(name[n]))
CanReplace(n) == Exists(n) => CanRemove(n)

Removed(n) == IF CanRemove(n) THEN [name EXCEPT ![n] = NoFile] ELSE name

MoveKeeps(m, n) == name' = [name EXCEPT ![n] = name[m]]  \* mutant: the old name stays

Move(m, n) == name' = [name EXCEPT ![m] = NoFile, ![n] = name[m]]

Fresh ==
    CHOOSE f \in File : /\ f \notin {name[n] : n \in Names}
                        /\ \A p \in Updates : f # fd[p] /\ f # image[p]

(* The two halves of os.WriteFile.                                          *)
Truncate(p, n) ==
    LET f == IF Exists(n) THEN name[n] ELSE Fresh
    IN  /\ (Exists(n) /\ sys = "windows") => ~Run(name[n])
        /\ name' = [name EXCEPT ![n] = f]
        /\ data' = [data EXCEPT ![f] = "part"]
        /\ fd' = [fd EXCEPT ![p] = f]

Write(p, what) ==
    /\ data' = [data EXCEPT ![fd[p]] = what]
    /\ fd' = [fd EXCEPT ![p] = NoFile]

-----------------------------------------------------------------------------
(* Only a whole binary can be started.                                      *)
StartUpdate(p) ==
    /\ ~Runs(p) /\ starts < MaxStarts /\ Whole("exec")
    /\ Goto(p, "downloading")
    /\ image' = [image EXCEPT ![p] = name["exec"]]
    /\ starts' = starts + 1 /\ together' = (together \/ \E q \in Updates : Runs(q))
    /\ UNCHANGED <<sys, sameFs, owned, name, data, fd, buf>>

(* Everything is downloaded before anything is touched, and the binary is   *)
(* looked for: it may be gone by now.                                       *)
Download(p) ==
    /\ pc[p] = "downloading"
    /\ \/ Exists("exec") /\ Goto(p, "opening")
       \/ Goto(p, "failed")
    /\ UNCHANGED <<fixed, name, data, image, fd, buf>>

OpenTmp(p) ==
    /\ pc[p] = "opening"
    /\ \/ Truncate(p, "tmp") /\ Goto(p, "writing")
       \/ Goto(p, "failed") /\ UNCHANGED <<name, data, fd>>
    /\ UNCHANGED <<fixed, image, buf>>

WriteTmp(p) ==
    /\ pc[p] = "writing"
    /\ \/ Write(p, "new") /\ Goto(p, IF sys = "windows" THEN "cleaning" ELSE "removing")
       \/ Write(p, "part") /\ Goto(p, "failed")
    /\ UNCHANGED <<fixed, name, image, buf>>

(* os.Remove(execPath), or with sudo, which does not mind that it is gone   *)
(* and which the user may refuse.                                           *)
RemoveExec(p) ==
    /\ pc[p] = "removing"
    /\ \/ name' = Removed("exec") /\ Goto(p, "moving")
       \/ ~(owned /\ Exists("exec")) /\ Goto(p, "giving up") /\ UNCHANGED name
    /\ UNCHANGED <<fixed, data, image, fd, buf>>

(* Windows: the old binary of the last update goes, if it can.              *)
RemoveOld(p) ==
    /\ pc[p] = "cleaning"
    /\ name' \in {name, Removed("old")} /\ Goto(p, "aside")
    /\ UNCHANGED <<fixed, data, image, fd, buf>>

AsideLost(p) == name' = [name EXCEPT !["exec"] = NoFile]  \* mutant: removed as elsewhere

Aside(p) == Move("exec", "old")

MoveAside(p) ==
    /\ pc[p] = "aside"
    /\ \/ CanMove("exec") /\ CanReplace("old") /\ Aside(p) /\ Goto(p, "moving")
       \/ Goto(p, "giving up") /\ UNCHANGED name
    /\ UNCHANGED <<fixed, data, image, fd, buf>>

(* os.Rename, or mv.                                                        *)
MoveIn(p) ==
    /\ pc[p] = "moving"
    /\ \/ /\ sameFs /\ CanMove("tmp") /\ CanReplace("exec") /\ Move("tmp", "exec")
          /\ Goto(p, IF sys = "windows" THEN "done" ELSE "tidying")
       \/ Goto(p, "copying") /\ UNCHANGED name
    /\ UNCHANGED <<fixed, data, image, fd, buf>>

AfterFailedCopy == IF sys = "windows" THEN "restoring" ELSE "giving up"

(* copyFile.                                                                *)
CopyRead(p) ==
    /\ pc[p] = "copying"
    /\ \/ Exists("tmp") /\ buf' = [buf EXCEPT ![p] = data[name["tmp"]]] /\ Goto(p, "creating")
       \/ Goto(p, AfterFailedCopy) /\ UNCHANGED buf
    /\ UNCHANGED <<fixed, name, data, image, fd>>

CopyOpen(p) ==
    /\ pc[p] = "creating"
    /\ \/ Truncate(p, "exec") /\ Goto(p, "filling")
       \/ Goto(p, AfterFailedCopy) /\ UNCHANGED <<name, data, fd>>
    /\ UNCHANGED <<fixed, image, buf>>

AfterShortCopyGoesOn == "tidying"  \* mutant: copyFile loses the error of WriteFile

AfterShortCopy == AfterFailedCopy

CopyWrite(p) ==
    /\ pc[p] = "filling"
    /\ \/ Write(p, buf[p]) /\ Goto(p, "tidying")
       \/ Write(p, "part") /\ Goto(p, AfterShortCopy)
    /\ UNCHANGED <<fixed, name, image, buf>>

(* Windows: the old binary is put back, if that works.                      *)
Restore(p) ==
    /\ pc[p] = "restoring"
    /\ \/ CanMove("old") /\ CanReplace("exec") /\ Move("old", "exec")
       \/ UNCHANGED name
    /\ Goto(p, "giving up")
    /\ UNCHANGED <<fixed, data, image, fd, buf>>

RemoveTmp(p) ==
    /\ pc[p] \in {"tidying", "giving up"}
    /\ name' \in {name, Removed("tmp")}
    /\ Goto(p, IF pc[p] = "tidying" THEN "done" ELSE "failed")
    /\ UNCHANGED <<fixed, data, image, fd, buf>>

Killed(p) ==
    /\ Runs(p) /\ Goto(p, "killed")
    /\ fd' = [fd EXCEPT ![p] = NoFile]
    /\ UNCHANGED <<fixed, name, data, image, buf>>

Next ==
    \E p \in Updates :
       \/ StartUpdate(p) \/ Download(p) \/ OpenTmp(p) \/ WriteTmp(p)
       \/ RemoveExec(p) \/ RemoveOld(p) \/ MoveAside(p) \/ MoveIn(p)
       \/ CopyRead(p) \/ CopyOpen(p) \/ CopyWrite(p)
       \/ Restore(p) \/ RemoveTmp(p) \/ Killed(p)

Spec == Init /\ [][Next]_vars

-----------------------------------------------------------------------------
Places == {"downloading", "opening", "writing", "removing", "cleaning", "aside", "moving",
           "copying", "creating", "filling", "restoring", "tidying", "giving up"}

(* Every variable keeps its shape, and no file has two names.               *)
TypeOK ==
    /\ sys \in {"unix", "windows"} /\ sameFs \in BOOLEAN /\ owned \in BOOLEAN
    /\ name \in [Names -> File \cup {NoFile}]
    /\ \A m, n \in Names : m # n /\ Exists(m) => name[m] # name[n]
    /\ data \in [File -> {"v1", "new", "part"}]
    /\ pc \in [Updates -> Places \cup Ended]
    /\ image \in [Updates -> File \cup {NoFile}] /\ fd \in [Updates -> File \cup {NoFile}]
    /\ buf \in [Updates -> {"v1", "new", "part"}]
    /\ starts \in 0 .. MaxStarts /\ together \in BOOLEAN

(* On Windows there is a whole binary under its own name or as "old" at     *)
(* every moment, whatever fails, whenever an update is killed, and however  *)
(* two of them interleave: a running update is what keeps "old" there.      *)
OneIsKept == sys = "windows" => Whole("exec") \/ Whole("old")

(* Elsewhere the old binary is gone before the new one is in place, and     *)
(* what bridges the gap is the temporary file: killed at any point, an      *)
(* update leaves a whole binary behind, unless it was not the only one or   *)
(* one has failed, which then has removed the temporary file.               *)
GapIsBridged ==
    \/ together
    \/ \E p \in Updates : pc[p] = "failed"
    \/ \E n \in Names : Whole(n)

(* An update that reports success has put a whole new binary in place, if   *)
(* it was the only one (two share the temporary file), and it is still      *)
(* there after the next that does.                                          *)
SuccessIsNew ==
    /\ ~together
    /\ \A p \in Updates : pc[p] \in {"idle", "done"}
    /\ \E p \in Updates : pc[p] = "done"
    => Whole("exec") /\ data[name["exec"]] = "new"
=============================================================================
