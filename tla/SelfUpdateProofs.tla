-------------------------- MODULE SelfUpdateProofs --------------------------
(***************************************************************************)
(* Proofs about SelfUpdate, for any number of updates and of processes: its *)
(* type invariant, that Windows always has a whole binary, that a single    *)
(* update is never killed between two binaries, and that one that reports   *)
(* success has installed the new one.                                       *)
(***************************************************************************)
EXTENDS SelfUpdate, FiniteSetTheorems, TLAPS

-----------------------------------------------------------------------------
(* The inductive invariant.                                                 *)

(* A file is open only while it is written, and the two systems go two      *)
(* ways.                                                                    *)
StageInv ==
    \A p \in Updates :
       /\ fd[p] # NoFile <=> pc[p] \in {"writing", "filling"}
       /\ pc[p] \in {"cleaning", "aside", "restoring"} => sys = "windows"
       /\ pc[p] = "removing" => sys = "unix"
       /\ Runs(p) => image[p] # NoFile

(* Between moving the old binary aside and the end of its replacement.      *)
Within(p) == pc[p] \in {"moving", "copying", "creating", "filling", "restoring"}

(* Windows: what an update runs from is whole, and is the binary or the one *)
(* moved aside; it is the latter from the move until the update is done,    *)
(* which is why only one update at a time gets that far.                    *)
KeptInv ==
    sys = "windows" =>
       /\ \A p \in Updates : Runs(p) =>
             image[p] \in {name["exec"], name["old"]} /\ data[image[p]] # "part"
       /\ \A p \in Updates : Within(p) => image[p] = name["old"]
       /\ \A p, q \in Updates : Within(p) /\ Within(q) => p = q
       /\ \A p \in Updates : pc[p] = "writing" => fd[p] = name["tmp"]
       /\ \A p \in Updates : pc[p] = "filling" =>
             fd[p] = name["exec"] /\ data[fd[p]] = "part"
       /\ OneIsKept

New(n) == Exists(n) /\ data[name[n]] = "new"

(* One update after the other: by its stage, which name has a whole binary. *)
AloneInv ==
    ~together =>
       /\ \A p, q \in Updates : Runs(p) /\ Runs(q) => p = q
       /\ \A p \in Updates :
             /\ pc[p] \in {"downloading", "opening", "writing", "removing"} => Whole("exec")
             /\ pc[p] \in {"removing", "cleaning", "aside", "restoring", "giving up"}
                   \/ Within(p) => New("tmp")
             /\ pc[p] \in {"creating", "filling"} => buf[p] = "new"
             /\ pc[p] = "writing" => fd[p] = name["tmp"]
             /\ pc[p] = "filling" => fd[p] = name["exec"]
             /\ pc[p] = "tidying" => New("exec")

IInv ==
    TypeOK /\ StageInv /\ KeptInv /\ AloneInv /\ GapIsBridged /\ SuccessIsNew

-----------------------------------------------------------------------------

(* The values of a function on a finite set are no more than the set.       *)
LEMMA Values ==
  ASSUME NEW S, IsFiniteSet(S), NEW V, NEW f \in [S -> V], NEW T, T = {f[x] : x \in S}
  PROVE  IsFiniteSet(T) /\ Cardinality(T) \in Nat /\ Cardinality(T) <= Cardinality(S)
<1>1. f \in Surjection(S, T)
  BY DEF Surjection
<1>2. IsFiniteSet(T) /\ Cardinality(T) <= Cardinality(S)
  BY <1>1, FS_Surjection
<1> QED BY <1>2, FS_CardinalityType

(* There is always a file that nobody names, runs or writes.                *)
LEMMA FreshFile ==
  ASSUME TypeOK
  PROVE  /\ Fresh \in File /\ \A n \in Names : Fresh # name[n]
         /\ \A p \in Updates : Fresh # fd[p] /\ Fresh # image[p]
<1> DEFINE N == Cardinality(Updates)
           named == {name[n] : n \in Names}
           written == {fd[p] : p \in Updates}
           run == {image[p] : p \in Updates}
           used == (named \cup written) \cup run
<1>1. IsFiniteSet(Updates) /\ N \in Nat
  BY UpdatesAssumption, FS_CardinalityType DEF UpdatesAssumption
<1>2. /\ fd \in [Updates -> File \cup {NoFile}] /\ image \in [Updates -> File \cup {NoFile}]
  BY DEF TypeOK
<1>3. IsFiniteSet(named) /\ Cardinality(named) \in Nat /\ Cardinality(named) <= 3
  <2> DEFINE one == {name["exec"]}
             two == one \cup {name["tmp"]}
  <2>1. IsFiniteSet(one) /\ Cardinality(one) = 1
    BY FS_Singleton
  <2> HIDE DEF one
  <2>2. IsFiniteSet(two) /\ Cardinality(two) \in 1 .. 2
    BY <2>1, FS_AddElement
  <2> HIDE DEF two
  <2>3. IsFiniteSet(two \cup {name["old"]}) /\ Cardinality(two \cup {name["old"]}) \in 1 .. 3
    BY <2>2, FS_AddElement
  <2>4. named = two \cup {name["old"]}
    BY DEF one, two, Names
  <2> HIDE DEF named
  <2> QED BY <2>3, <2>4
<1>4. IsFiniteSet(written) /\ Cardinality(written) \in Nat /\ Cardinality(written) <= N
  <2>1. /\ IsFiniteSet(written) /\ Cardinality(written) \in Nat
        /\ Cardinality(written) <= Cardinality(Updates)
    BY <1>2, <1>1, Values, Zenon
  <2> QED BY <2>1, <1>1
<1>5. IsFiniteSet(run) /\ Cardinality(run) \in Nat /\ Cardinality(run) <= N
  <2>1. /\ IsFiniteSet(run) /\ Cardinality(run) \in Nat
        /\ Cardinality(run) <= Cardinality(Updates)
    BY <1>2, <1>1, Values, Zenon
  <2> QED BY <2>1, <1>1
<1> HIDE DEF N, named, written, run
<1>6. /\ IsFiniteSet(named \cup written)
      /\ Cardinality(named \cup written) \in Nat /\ Cardinality(named \cup written) <= 3 + N
  <2>1. Cardinality(named \cap written) \in Nat
    BY <1>3, FS_Intersection, FS_CardinalityType
  <2>2. /\ IsFiniteSet(named \cup written)
        /\ Cardinality(named \cup written)
              = Cardinality(named) + Cardinality(written) - Cardinality(named \cap written)
    BY <1>3, <1>4, FS_Union
  <2>3. Cardinality(named \cup written) \in Nat
    BY <2>2, FS_CardinalityType
  <2> QED BY <1>1, <1>3, <1>4, <2>1, <2>2, <2>3
<1>7. IsFiniteSet(used) /\ Cardinality(used) \in Nat /\ Cardinality(used) <= 3 + 2 * N
  <2> DEFINE A == named \cup written
  <2> HIDE DEF A
  <2>1. Cardinality(A \cap run) \in Nat
    BY <1>5, FS_Intersection, FS_CardinalityType
  <2>2. /\ IsFiniteSet(A \cup run)
        /\ Cardinality(A \cup run) = Cardinality(A) + Cardinality(run) - Cardinality(A \cap run)
    BY <1>5, <1>6, FS_Union DEF A
  <2>3. Cardinality(A \cup run) \in Nat
    BY <2>2, FS_CardinalityType
  <2>4. Cardinality(A \cup run) <= 3 + 2 * N
    BY <1>1, <1>5, <1>6, <2>1, <2>2, <2>3 DEF A
  <2> QED BY <2>2, <2>3, <2>4 DEF A
<1>8. Cardinality(File) = 3 + 2 * N + 1
  BY <1>1, FS_Interval DEF File, N
<1> HIDE DEF used
<1>9. PICK f \in File : f \notin used
  <2>1. ~(File \subseteq used)
    BY <1>1, <1>7, <1>8, FS_Subset
  <2> QED BY <2>1
<1>10. /\ f \notin {name[n] : n \in Names}
       /\ \A p \in Updates : f # fd[p] /\ f # image[p]
  BY <1>9 DEF used, named, written, run
<1>11. /\ Fresh \in File /\ Fresh \notin {name[n] : n \in Names}
       /\ \A p \in Updates : Fresh # fd[p] /\ Fresh # image[p]
  BY <1>10 DEF Fresh
<1> QED BY <1>11

LEMMA Files == NoFile \notin File
<1>1. Cardinality(Updates) \in Nat
  BY UpdatesAssumption, FS_CardinalityType DEF UpdatesAssumption
<1> QED BY <1>1 DEF File, NoFile
-----------------------------------------------------------------------------
(* The three names.                                                         *)

LEMMA ThreeNames ==
  ASSUME TypeOK
  PROVE  /\ name["exec"] \in File \cup {NoFile} /\ name["tmp"] \in File \cup {NoFile}
         /\ name["old"] \in File \cup {NoFile}
         /\ name["exec"] # NoFile => name["exec"] # name["tmp"] /\ name["exec"] # name["old"]
         /\ name["tmp"] # NoFile => name["tmp"] # name["exec"] /\ name["tmp"] # name["old"]
         /\ name["old"] # NoFile => name["old"] # name["exec"] /\ name["old"] # name["tmp"]
  BY DEF TypeOK, Names, Exists

WellNamed(nm) ==
    /\ nm \in [Names -> File \cup {NoFile}]
    /\ \A m, n \in Names : m # n /\ nm[m] # NoFile => nm[m] # nm[n]

LEMMA NamedWell == TypeOK => WellNamed(name)
  BY DEF TypeOK, WellNamed, Exists

(* Removing a name, moving it over another or giving it a new file leaves   *)
(* no file two names.                                                       *)
LEMMA RemovedNamed ==
  ASSUME TypeOK, NEW n \in Names
  PROVE  WellNamed(Removed(n))
  BY DEF TypeOK, WellNamed, Exists, Removed

LEMMA MoveNamed ==
  ASSUME TypeOK, NEW m \in Names, NEW n \in Names, m # n, Move(m, n)
  PROVE  WellNamed(name')
  BY DEF TypeOK, WellNamed, Exists, Move

(* Truncate opens the file of the name, or a new one.                       *)
LEMMA TruncateFile ==
  ASSUME TypeOK, NEW p \in Updates, NEW n \in Names, Truncate(p, n)
  PROVE  \E f \in File :
            /\ name' = [name EXCEPT ![n] = f]
            /\ data' = [data EXCEPT ![f] = "part"]
            /\ fd' = [fd EXCEPT ![p] = f]
            /\ \A m \in Names : m # n => name[m] # f
            /\ \/ f = name[n]
               \/ /\ \A m \in Names : name[m] # f
                  /\ \A q \in Updates : fd[q] # f /\ image[q] # f
            /\ sys = "windows" => \A q \in Updates : Runs(q) => image[q] # f
            /\ WellNamed(name')
<1>1. CASE Exists(n)
  <2>1. name[n] \in File
    BY <1>1 DEF TypeOK, Exists
  <2> USE <2>1
  <2> WITNESS name[n] \in File
  <2> QED BY <1>1, NamedWell DEF Truncate, TypeOK, Exists, Run, WellNamed
<1>2. CASE ~Exists(n)
  <2>1. Fresh \in File /\ (\A m \in Names : Fresh # name[m])
        /\ \A q \in Updates : Fresh # fd[q] /\ Fresh # image[q]
    BY FreshFile
  <2> USE <2>1
  <2> WITNESS Fresh \in File
  <2> QED BY <1>2, <2>1, Files DEF Truncate, TypeOK, Exists, WellNamed
<1> QED BY <1>1, <1>2

LEMMA WriteFile ==
  ASSUME TypeOK, NEW p \in Updates, fd[p] # NoFile, NEW what \in {"v1", "new", "part"},
         Write(p, what)
  PROVE  /\ data' \in [File -> {"v1", "new", "part"}] /\ data'[fd[p]] = what
         /\ \A f \in File : f # fd[p] => data'[f] = data[f]
         /\ fd' \in [Updates -> File \cup {NoFile}] /\ fd'[p] = NoFile
         /\ \A q \in Updates : q # p => fd'[q] = fd[q]
  BY DEF TypeOK, Write
-----------------------------------------------------------------------------
(* Every step keeps the shapes and the stages.                              *)

Stages == Places \cup Ended

LEMMA NoStep ==
  ASSUME TypeOK, StageInv, UNCHANGED vars
  PROVE  TypeOK' /\ StageInv'
<1>1. File' = File
  BY DEF File
<1> QED
  BY <1>1 DEF TypeOK, StageInv, vars, Exists, Runs, Ended

(* It is enough that a step leaves every variable in its set, no file with  *)
(* two names, and the update whose step it is in a proper stage.            *)
LEMMA StepKeepsTypes ==
  ASSUME TypeOK, StageInv, NEW p \in Updates, UNCHANGED fixed, NEW l \in Stages,
         WellNamed(name'), data' \in [File -> {"v1", "new", "part"}],
         pc' = [pc EXCEPT ![p] = l], image' = image,
         fd' \in [Updates -> File \cup {NoFile}],
         \A q \in Updates : q # p => fd'[q] = fd[q],
         buf' \in [Updates -> {"v1", "new", "part"}],
         fd'[p] # NoFile <=> l \in {"writing", "filling"},
         l \in {"cleaning", "aside", "restoring"} => sys = "windows",
         l = "removing" => sys = "unix",
         l \notin Ended => Runs(p)
  PROVE  TypeOK' /\ StageInv'
<1>1. pc \in [Updates -> Stages] /\ pc' \in [Updates -> Stages]
  BY DEF TypeOK, Stages
<1>2. pc'[p] = l /\ \A q \in Updates : q # p => pc'[q] = pc[q]
  BY <1>1
<1>3. TypeOK'
  BY <1>1 DEF TypeOK, WellNamed, Exists, Stages, fixed
<1>4. StageInv'
  <2> SUFFICES ASSUME NEW q \in Updates
               PROVE  /\ fd'[q] # NoFile <=> pc'[q] \in {"writing", "filling"}
                      /\ pc'[q] \in {"cleaning", "aside", "restoring"} => sys = "windows"
                      /\ pc'[q] = "removing" => sys = "unix"
                      /\ pc'[q] \notin Ended => image[q] # NoFile
    BY DEF StageInv, Runs, fixed
  <2>1. CASE q = p
    BY <2>1, <1>2 DEF StageInv, Runs
  <2>2. CASE q # p
    BY <2>2, <1>2 DEF StageInv, Runs
  <2> QED BY <2>1, <2>2
<1> QED BY <1>3, <1>4

LEMMA NextTypes ==
  ASSUME TypeOK, StageInv, Next
  PROVE  TypeOK' /\ StageInv'
<1> USE DEF Goto
<1>0. PICK p \in Updates :
         \/ StartUpdate(p) \/ Download(p) \/ OpenTmp(p) \/ WriteTmp(p)
         \/ RemoveExec(p) \/ RemoveOld(p) \/ MoveAside(p) \/ MoveIn(p)
         \/ CopyRead(p) \/ CopyOpen(p) \/ CopyWrite(p)
         \/ Restore(p) \/ RemoveTmp(p) \/ Killed(p)
  BY DEF Next
<1>a. /\ WellNamed(name) /\ data \in [File -> {"v1", "new", "part"}]
      /\ fd \in [Updates -> File \cup {NoFile}] /\ buf \in [Updates -> {"v1", "new", "part"}]
      /\ sys \in {"unix", "windows"} /\ pc \in [Updates -> Stages]
  BY NamedWell DEF TypeOK, Stages
<1>b. /\ fd[p] # NoFile <=> pc[p] \in {"writing", "filling"}
      /\ pc[p] \in {"cleaning", "aside", "restoring"} => sys = "windows"
      /\ pc[p] = "removing" => sys = "unix"
  BY DEF StageInv
<1>c. /\ Ended = {"idle", "done", "failed", "killed"}
      /\ Stages = {"downloading", "opening", "writing", "removing", "cleaning", "aside", "moving",
                   "copying", "creating", "filling", "restoring", "tidying", "giving up"}
                     \cup {"idle", "done", "failed", "killed"}
  BY DEF Ended, Stages, Places
<1>d. "exec" \in Names /\ "tmp" \in Names /\ "old" \in Names
  BY DEF Names
<1>1. CASE StartUpdate(p)
  <2>1. /\ name["exec"] \in File /\ pc' = [pc EXCEPT ![p] = "downloading"]
        /\ image' = [image EXCEPT ![p] = name["exec"]] /\ starts' = starts + 1
        /\ starts < MaxStarts /\ pc[p] \in Ended
        /\ together' \in BOOLEAN /\ UNCHANGED <<sys, sameFs, owned, name, data, fd, buf>>
    BY <1>1, <1>d DEF StartUpdate, Whole, Exists, TypeOK, Runs
  <2>2. starts' \in 0 .. MaxStarts
    BY <2>1, UpdatesAssumption DEF TypeOK, UpdatesAssumption
  <2>3. TypeOK'
    BY <2>1, <2>2, <1>c DEF TypeOK, Exists, Stages
  <2>4. \A q \in Updates : q # p => pc'[q] = pc[q] /\ image'[q] = image[q]
    BY <2>1
  <2>5. pc'[p] = "downloading" /\ image'[p] = name["exec"]
    BY <2>1, <1>a DEF TypeOK
  <2>6. StageInv'
    <3> SUFFICES ASSUME NEW q \in Updates
                 PROVE  /\ fd[q] # NoFile <=> pc'[q] \in {"writing", "filling"}
                        /\ pc'[q] \in {"cleaning", "aside", "restoring"} => sys = "windows"
                        /\ pc'[q] = "removing" => sys = "unix"
                        /\ pc'[q] \notin Ended => image'[q] # NoFile
      BY <2>1 DEF StageInv, Runs
    <3>1. CASE q = p
      <4>1. fd[p] = NoFile
        BY <1>b, <1>c, <2>1
      <4>2. name["exec"] # NoFile
        BY <2>1, Files
      <4> QED BY <3>1, <2>5, <4>1, <4>2
    <3>2. CASE q # p
      BY <3>2, <2>4 DEF StageInv, Runs
    <3> QED BY <3>1, <3>2
  <2> QED BY <2>3, <2>6
<1>2. CASE Download(p)
  <2>1. PICK l \in {"opening", "failed"} : pc' = [pc EXCEPT ![p] = l]
    BY <1>2 DEF Download
  <2> QED BY <1>2, <2>1, <1>a, <1>b, <1>c, StepKeepsTypes DEF Download, Runs
<1>3. CASE OpenTmp(p)
  <2>1. CASE Truncate(p, "tmp") /\ pc' = [pc EXCEPT ![p] = "writing"]
    <3>1. PICK f \in File : /\ WellNamed(name') /\ data' = [data EXCEPT ![f] = "part"]
                            /\ fd' = [fd EXCEPT ![p] = f]
      BY <2>1, <1>d, TruncateFile
    <3>2. /\ data' \in [File -> {"v1", "new", "part"}]
          /\ fd' \in [Updates -> File \cup {NoFile}] /\ fd'[p] # NoFile
          /\ \A q \in Updates : q # p => fd'[q] = fd[q]
      BY <3>1, <1>a, Files
    <3> QED BY <1>3, <2>1, <3>1, <3>2, <1>a, <1>c, StepKeepsTypes DEF OpenTmp, Runs
  <2>2. CASE UNCHANGED <<name, data, fd>> /\ pc' = [pc EXCEPT ![p] = "failed"]
    BY <1>3, <2>2, <1>a, <1>b, <1>c, StepKeepsTypes DEF OpenTmp, Runs, AfterFailedCopy
  <2> QED BY <1>3, <2>1, <2>2 DEF OpenTmp
<1>4. CASE WriteTmp(p)
  <2>1. PICK w \in {"v1", "new", "part"}, l \in Stages :
          /\ Write(p, w) /\ pc' = [pc EXCEPT ![p] = l]
          /\ l \notin {"writing", "filling"}
          /\ l \in {"cleaning", "aside", "restoring"} => sys = "windows"
          /\ l = "removing" => sys = "unix"
    <3> DEFINE Ends(w, l) == Write(p, w) /\ pc' = [pc EXCEPT ![p] = l]
    <3>1. \/ sys = "windows" /\ Ends("new", "cleaning")
          \/ sys = "unix" /\ Ends("new", "removing")
          \/ Ends("part", "failed")
      <4>1. \/ Write(p, "new") /\ pc' = [pc EXCEPT ![p] = IF sys = "windows" THEN "cleaning"
                                                           ELSE "removing"]
            \/ Write(p, "part") /\ pc' = [pc EXCEPT ![p] = "failed"]
        BY <1>4 DEF WriteTmp
      <4> QED BY <4>1, <1>a
    <3>2. "cleaning" \in Stages /\ "removing" \in Stages /\ "failed" \in Stages
      BY <1>c
    <3>3. CASE sys = "windows" /\ Ends("new", "cleaning")
      BY <3>2, <3>3
    <3>4. CASE sys = "unix" /\ Ends("new", "removing")
      BY <3>2, <3>4
    <3>5. CASE Ends("part", "failed")
      BY <3>2, <3>5
    <3> HIDE DEF Ends
    <3> QED BY <3>1, <3>3, <3>4, <3>5
  <2>2. fd[p] # NoFile
    BY <1>4, <1>b DEF WriteTmp
  <2>3. /\ data' \in [File -> {"v1", "new", "part"}]
        /\ fd' \in [Updates -> File \cup {NoFile}] /\ fd'[p] = NoFile
        /\ \A q \in Updates : q # p => fd'[q] = fd[q]
    BY <2>1, <2>2, WriteFile
  <2> QED BY <1>4, <2>1, <2>3, <1>a, <1>c, StepKeepsTypes DEF WriteTmp, Runs
<1>5. CASE RemoveExec(p)
  <2>1. PICK l \in Stages :
          /\ pc' = [pc EXCEPT ![p] = l] /\ UNCHANGED <<fixed, data, image, fd, buf>>
          /\ l \notin {"writing", "filling", "removing", "cleaning"}
          /\ l \in {"aside", "restoring"} => sys = "windows"
    BY <1>5, <1>b, <1>c, ZenonT(40) DEF RemoveExec
  <2>2. WellNamed(name')
    BY <1>5, <1>a, <1>d, RemovedNamed DEF RemoveExec
  <2>3. pc[p] \notin {"writing", "filling"} /\ Runs(p)
    BY <1>5, <1>c DEF RemoveExec, Runs
  <2> QED BY <2>1, <2>2, <2>3, <1>a, <1>b, StepKeepsTypes
<1>6. CASE RemoveOld(p)
  <2>1. PICK l \in Stages :
          /\ pc' = [pc EXCEPT ![p] = l] /\ UNCHANGED <<fixed, data, image, fd, buf>>
          /\ l \notin {"writing", "filling", "removing", "cleaning"}
          /\ l \in {"aside", "restoring"} => sys = "windows"
    BY <1>6, <1>b, <1>c DEF RemoveOld
  <2>2. WellNamed(name')
    BY <1>6, <1>a, <1>d, RemovedNamed DEF RemoveOld
  <2>3. pc[p] \notin {"writing", "filling"} /\ Runs(p)
    BY <1>6, <1>c DEF RemoveOld, Runs
  <2> QED BY <2>1, <2>2, <2>3, <1>a, <1>b, StepKeepsTypes
<1>7. CASE MoveAside(p)
  <2>1. PICK l \in Stages :
          /\ pc' = [pc EXCEPT ![p] = l] /\ UNCHANGED <<fixed, data, image, fd, buf>>
          /\ l \notin {"writing", "filling", "removing", "cleaning"}
          /\ l \in {"aside", "restoring"} => sys = "windows"
    BY <1>7, <1>b, <1>c DEF MoveAside
  <2>2. WellNamed(name')
    BY <1>7, <1>a, <1>d, MoveNamed DEF MoveAside, Aside
  <2>3. pc[p] \notin {"writing", "filling"} /\ Runs(p)
    BY <1>7, <1>c DEF MoveAside, Runs
  <2> QED BY <2>1, <2>2, <2>3, <1>a, <1>b, StepKeepsTypes
<1>8. CASE MoveIn(p)
  <2>1. PICK l \in Stages :
          /\ pc' = [pc EXCEPT ![p] = l] /\ UNCHANGED <<fixed, data, image, fd, buf>>
          /\ l \notin {"writing", "filling", "removing", "cleaning"}
          /\ l \in {"aside", "restoring"} => sys = "windows"
    BY <1>8, <1>b, <1>c DEF MoveIn
  <2>2. WellNamed(name')
    BY <1>8, <1>a, <1>d, MoveNamed DEF MoveIn
  <2>3. pc[p] \notin {"writing", "filling"} /\ Runs(p)
    BY <1>8, <1>c DEF MoveIn, Runs
  <2> QED BY <2>1, <2>2, <2>3, <1>a, <1>b, StepKeepsTypes
<1>9. CASE CopyRead(p)
  <2>1. PICK l \in Stages, w \in {"v1", "new", "part"} :
          /\ pc' = [pc EXCEPT ![p] = l] /\ buf' = [buf EXCEPT ![p] = w]
          /\ l \notin {"writing", "filling", "removing", "cleaning", "aside"}
          /\ l = "restoring" => sys = "windows"
    <3>1. CASE Exists("tmp") /\ buf' = [buf EXCEPT ![p] = data[name["tmp"]]]
               /\ pc' = [pc EXCEPT ![p] = "creating"]
      <4>1. data[name["tmp"]] \in {"v1", "new", "part"}
        BY <3>1, <1>d DEF TypeOK, Exists
      <4>2. "creating" \in Stages
        BY <1>c
      <4> WITNESS "creating" \in Stages, data[name["tmp"]] \in {"v1", "new", "part"}
      <4> QED BY <3>1
    <3>2. CASE UNCHANGED buf /\ pc' = [pc EXCEPT ![p] = AfterFailedCopy]
      <4>1. AfterFailedCopy \in Stages
        BY <1>c DEF AfterFailedCopy
      <4>2. AfterFailedCopy = "giving up" \/ (AfterFailedCopy = "restoring" /\ sys = "windows")
        BY DEF AfterFailedCopy
      <4>3. buf[p] \in {"v1", "new", "part"}
        BY <1>a
      <4>4. buf' = [buf EXCEPT ![p] = buf[p]]
        BY <3>2, <1>a
      <4> WITNESS AfterFailedCopy \in Stages, buf[p] \in {"v1", "new", "part"}
      <4> QED BY <3>2, <4>2, <4>4
    <3> QED BY <3>1, <3>2, <1>9 DEF CopyRead
  <2>2. buf' \in [Updates -> {"v1", "new", "part"}]
    BY <2>1, <1>a
  <2> QED BY <1>9, <2>1, <2>2, <1>a, <1>b, <1>c, StepKeepsTypes DEF CopyRead, Runs
<1>10. CASE CopyOpen(p)
  <2>1. CASE Truncate(p, "exec") /\ pc' = [pc EXCEPT ![p] = "filling"]
    <3>1. PICK f \in File : /\ WellNamed(name') /\ data' = [data EXCEPT ![f] = "part"]
                            /\ fd' = [fd EXCEPT ![p] = f]
      BY <2>1, <1>d, TruncateFile
    <3>2. /\ data' \in [File -> {"v1", "new", "part"}]
          /\ fd' \in [Updates -> File \cup {NoFile}] /\ fd'[p] # NoFile
          /\ \A q \in Updates : q # p => fd'[q] = fd[q]
      BY <3>1, <1>a, Files
    <3> QED BY <1>10, <2>1, <3>1, <3>2, <1>a, <1>c, StepKeepsTypes DEF CopyOpen, Runs
  <2>2. CASE UNCHANGED <<name, data, fd>> /\ pc' = [pc EXCEPT ![p] = AfterFailedCopy]
    BY <1>10, <2>2, <1>a, <1>b, <1>c, StepKeepsTypes DEF CopyOpen, Runs, AfterFailedCopy
  <2> QED BY <1>10, <2>1, <2>2 DEF CopyOpen
<1>11. CASE CopyWrite(p)
  <2>1. PICK w \in {"v1", "new", "part"}, l \in Stages :
          /\ Write(p, w) /\ pc' = [pc EXCEPT ![p] = l]
          /\ l \notin {"writing", "filling"}
          /\ l \in {"cleaning", "aside", "restoring"} => sys = "windows"
          /\ l = "removing" => sys = "unix"
    <3>1. CASE Write(p, buf[p]) /\ pc' = [pc EXCEPT ![p] = "tidying"]
      <4>1. buf[p] \in {"v1", "new", "part"} /\ "tidying" \in Stages
        BY <1>a, <1>c
      <4> QED BY <3>1, <4>1
    <3>2. CASE Write(p, "part") /\ pc' = [pc EXCEPT ![p] = AfterFailedCopy]
      <4>1. /\ AfterFailedCopy \in Stages /\ AfterFailedCopy \in {"restoring", "giving up"}
            /\ AfterFailedCopy = "restoring" => sys = "windows"
        BY <1>c DEF AfterFailedCopy
      <4> QED BY <3>2, <4>1
    <3> QED BY <1>11, <3>1, <3>2 DEF CopyWrite, AfterShortCopy
  <2>2. fd[p] # NoFile
    BY <1>11, <1>b DEF CopyWrite
  <2>3. /\ data' \in [File -> {"v1", "new", "part"}]
        /\ fd' \in [Updates -> File \cup {NoFile}] /\ fd'[p] = NoFile
        /\ \A q \in Updates : q # p => fd'[q] = fd[q]
    BY <2>1, <2>2, WriteFile
  <2> QED BY <1>11, <2>1, <2>3, <1>a, <1>c, StepKeepsTypes DEF CopyWrite, Runs
<1>12. CASE Restore(p)
  <2>1. PICK l \in Stages :
          /\ pc' = [pc EXCEPT ![p] = l] /\ UNCHANGED <<fixed, data, image, fd, buf>>
          /\ l \notin {"writing", "filling", "removing", "cleaning"}
          /\ l \in {"aside", "restoring"} => sys = "windows"
    BY <1>12, <1>b, <1>c DEF Restore
  <2>2. WellNamed(name')
    BY <1>12, <1>a, <1>d, MoveNamed DEF Restore
  <2>3. pc[p] \notin {"writing", "filling"} /\ Runs(p)
    BY <1>12, <1>c DEF Restore, Runs
  <2> QED BY <2>1, <2>2, <2>3, <1>a, <1>b, StepKeepsTypes
<1>13. CASE RemoveTmp(p)
  <2>1. PICK l \in Stages :
          /\ pc' = [pc EXCEPT ![p] = l] /\ UNCHANGED <<fixed, data, image, fd, buf>>
          /\ l \notin {"writing", "filling", "removing", "cleaning"}
          /\ l \in {"aside", "restoring"} => sys = "windows"
    <3>1. pc' = [pc EXCEPT ![p] = "done"] \/ pc' = [pc EXCEPT ![p] = "failed"]
      BY <1>13 DEF RemoveTmp
    <3> QED BY <1>13, <3>1, <1>c DEF RemoveTmp
  <2>2. WellNamed(name')
    BY <1>13, <1>a, <1>d, RemovedNamed DEF RemoveTmp
  <2>3. pc[p] \notin {"writing", "filling"} /\ Runs(p)
    BY <1>13, <1>c DEF RemoveTmp, Runs
  <2> QED BY <2>1, <2>2, <2>3, <1>a, <1>b, StepKeepsTypes
<1>14. CASE Killed(p)
  <2>1. /\ fd' \in [Updates -> File \cup {NoFile}] /\ fd'[p] = NoFile
        /\ \A q \in Updates : q # p => fd'[q] = fd[q]
    BY <1>14, <1>a DEF Killed
  <2> QED BY <1>14, <2>1, <1>a, <1>c, StepKeepsTypes DEF Killed
<1> QED
  BY <1>0, <1>1, <1>2, <1>3, <1>4, <1>5, <1>6, <1>7, <1>8, <1>9, <1>10, <1>11, <1>12, <1>13,
     <1>14
-----------------------------------------------------------------------------
(* Windows.                                                                 *)

(* What a step of p, other than a start, has to leave true of the names and *)
(* the files it changes; l is p's next stage.                               *)
KeptAfter(p, l) ==
    /\ pc' = [pc EXCEPT ![p] = l] /\ UNCHANGED <<sys, image>>
    /\ \A q \in Updates : q # p => fd'[q] = fd[q]
    /\ \A q \in Updates : Runs(q) =>
          image[q] \in {name'["exec"], name'["old"]} /\ data'[image[q]] # "part"
    /\ \A q \in Updates : Within(q) /\ q # p => image[q] = name'["old"]
    /\ l \in {"moving", "copying", "creating", "filling", "restoring"} =>
          image[p] = name'["old"] /\ \A q \in Updates : Within(q) => q = p
    /\ l = "writing" => fd'[p] = name'["tmp"]
    /\ l = "filling" => fd'[p] = name'["exec"] /\ data'[fd'[p]] = "part"
    /\ \A q \in Updates : pc[q] = "writing" /\ q # p => fd[q] = name'["tmp"]
    /\ \A q \in Updates : pc[q] = "filling" /\ q # p =>
          fd[q] = name'["exec"] /\ data'[fd[q]] = "part"
    /\ (Whole("exec") \/ Whole("old"))'

LEMMA StepKeeps ==
  ASSUME TypeOK, StageInv, KeptInv, sys = "windows", NEW p \in Updates, Runs(p),
         NEW l \in Stages, KeptAfter(p, l)
  PROVE  KeptInv'
<1> USE DEF KeptAfter
<1>1. /\ pc'[p] = l /\ \A q \in Updates : q # p => pc'[q] = pc[q]
  BY DEF TypeOK, Stages
<1>2. /\ \A q \in Updates : Runs(q)' => Runs(q)
      /\ \A q \in Updates : q # p => (Within(q)' <=> Within(q))
      /\ Within(p)' <=> l \in {"moving", "copying", "creating", "filling", "restoring"}
  BY <1>1 DEF Runs, Within
<1>3. \A q \in Updates : Runs(q)' =>
         image'[q] \in {name'["exec"], name'["old"]} /\ data'[image'[q]] # "part"
  BY <1>2
<1>4. /\ \A q \in Updates : Within(q)' => image'[q] = name'["old"]
      /\ \A q, r \in Updates : Within(q)' /\ Within(r)' => q = r
  BY <1>2 DEF KeptInv
<1>5. /\ \A q \in Updates : pc'[q] = "writing" => fd'[q] = name'["tmp"]
      /\ \A q \in Updates : pc'[q] = "filling" =>
            fd'[q] = name'["exec"] /\ data'[fd'[q]] = "part"
  BY <1>1
<1> QED BY <1>3, <1>4, <1>5 DEF KeptInv, OneIsKept

LEMMA StartKeeps ==
  ASSUME TypeOK, StageInv, KeptInv, NEW p \in Updates, StartUpdate(p)
  PROVE  KeptInv'
<1>1. /\ pc' = [pc EXCEPT ![p] = "downloading"] /\ image' = [image EXCEPT ![p] = name["exec"]]
      /\ data[name["exec"]] # "part" /\ UNCHANGED <<sys, name, data, fd>>
  BY DEF StartUpdate, Goto, Whole
<1>2. /\ pc'[p] = "downloading" /\ image'[p] = name["exec"]
      /\ \A q \in Updates : q # p => pc'[q] = pc[q] /\ image'[q] = image[q]
  BY <1>1 DEF TypeOK
<1>3. /\ \A q \in Updates : q # p => (Runs(q)' <=> Runs(q)) /\ (Within(q)' <=> Within(q))
      /\ ~Within(p)'
  BY <1>2 DEF Runs, Within
<1>4. /\ (Whole("exec")' <=> Whole("exec")) /\ (Whole("old")' <=> Whole("old"))
  BY <1>1 DEF Whole, Exists
<1> SUFFICES ASSUME sys = "windows" PROVE KeptInv'
  BY <1>1 DEF KeptInv
<1>5. \A q \in Updates : Runs(q)' =>
         image'[q] \in {name'["exec"], name'["old"]} /\ data'[image'[q]] # "part"
  BY <1>1, <1>2, <1>3 DEF KeptInv
<1>6. /\ \A q \in Updates : Within(q)' => image'[q] = name'["old"]
      /\ \A q, r \in Updates : Within(q)' /\ Within(r)' => q = r
  BY <1>1, <1>2, <1>3 DEF KeptInv
<1>7. /\ \A q \in Updates : pc'[q] = "writing" => fd'[q] = name'["tmp"]
      /\ \A q \in Updates : pc'[q] = "filling" =>
            fd'[q] = name'["exec"] /\ data'[fd'[q]] = "part"
  BY <1>1, <1>2 DEF KeptInv
<1> QED BY <1>1, <1>4, <1>5, <1>6, <1>7 DEF KeptInv, OneIsKept

LEMMA NextKeeps ==
  ASSUME TypeOK, StageInv, KeptInv, Next
  PROVE  KeptInv'
<1> USE DEF Goto
<1>0. PICK p \in Updates :
         \/ StartUpdate(p) \/ Download(p) \/ OpenTmp(p) \/ WriteTmp(p)
         \/ RemoveExec(p) \/ RemoveOld(p) \/ MoveAside(p) \/ MoveIn(p)
         \/ CopyRead(p) \/ CopyOpen(p) \/ CopyWrite(p)
         \/ Restore(p) \/ RemoveTmp(p) \/ Killed(p)
  BY DEF Next
<1>1. CASE StartUpdate(p)
  BY <1>1, StartKeeps
<1> SUFFICES ASSUME sys = "windows", ~StartUpdate(p) PROVE KeptInv'
  <2>1. sys' = sys
    BY <1>0 DEF StartUpdate, Download, OpenTmp, WriteTmp, RemoveExec, RemoveOld, MoveAside,
       MoveIn, CopyRead, CopyOpen, CopyWrite, Restore, RemoveTmp, Killed, fixed
  <2> QED BY <1>1, <2>1 DEF KeptInv
<1>a. /\ Ended = {"idle", "done", "failed", "killed"}
      /\ Stages = {"downloading", "opening", "writing", "removing", "cleaning", "aside", "moving",
                   "copying", "creating", "filling", "restoring", "tidying", "giving up"}
                     \cup {"idle", "done", "failed", "killed"}
  BY DEF Ended, Stages, Places
<1>b. /\ \A q \in Updates : Runs(q) =>
            /\ image[q] \in {name["exec"], name["old"]} /\ image[q] \in File
            /\ data[image[q]] # "part"
      /\ \A q \in Updates : Within(q) => image[q] = name["old"] /\ Runs(q)
      /\ \A q, r \in Updates : Within(q) /\ Within(r) => q = r
      /\ \A q \in Updates : pc[q] = "writing" => fd[q] = name["tmp"]
      /\ \A q \in Updates : pc[q] = "filling" =>
            fd[q] = name["exec"] /\ data[fd[q]] = "part" /\ Within(q)
      /\ \A q \in Updates : pc[q] \in {"writing", "filling"} => fd[q] \in File
      /\ (Whole("exec") \/ Whole("old"))
  BY Files DEF KeptInv, OneIsKept, Runs, Within, Ended, StageInv, TypeOK
<1>c. /\ name \in [Names -> File \cup {NoFile}] /\ data \in [File -> {"v1", "new", "part"}]
      /\ fd \in [Updates -> File \cup {NoFile}]
      /\ "exec" \in Names /\ "tmp" \in Names /\ "old" \in Names
  BY DEF TypeOK, Names
<1>2. CASE Download(p) \/ CopyRead(p) \/ Killed(p)
  <2>1. PICK l \in Stages : /\ pc' = [pc EXCEPT ![p] = l] /\ l \notin {"writing", "filling"}
                            /\ Within(p) \/ l \in {"opening"} \cup Ended
    <3>1. CASE Download(p)
      BY <3>1, <1>a DEF Download, Within
    <3>2. CASE CopyRead(p)
      <4>1. "creating" \in Stages /\ AfterFailedCopy \in Stages
            /\ AfterFailedCopy \notin {"writing", "filling"}
        BY <1>a DEF AfterFailedCopy
      <4>2. pc' = [pc EXCEPT ![p] = "creating"] \/ pc' = [pc EXCEPT ![p] = AfterFailedCopy]
        BY <3>2 DEF CopyRead
      <4>3. Within(p)
        BY <3>2 DEF CopyRead, Within
      <4> QED BY <4>1, <4>2, <4>3
    <3>3. CASE Killed(p)
      BY <3>3, <1>a DEF Killed
    <3> QED BY <1>2, <3>1, <3>2, <3>3
  <2>2. /\ UNCHANGED <<sys, name, data, image>> /\ \A q \in Updates : q # p => fd'[q] = fd[q]
        /\ Runs(p)
    BY <1>2, <1>a, <1>c DEF Download, CopyRead, Killed, fixed, Runs
  <2>3. (Whole("exec") \/ Whole("old"))'
    BY <1>b, <2>2 DEF Whole, Exists
  <2>4. KeptAfter(p, l)
    BY <1>a, <1>b, <2>1, <2>2, <2>3 DEF KeptAfter
  <2> QED BY <1>a, <2>1, <2>2, <2>4, StepKeeps
<1>3. CASE OpenTmp(p)
  <2>1. CASE pc' = [pc EXCEPT ![p] = "failed"] /\ UNCHANGED <<name, data, fd>>
    <3>1. (Whole("exec") \/ Whole("old"))'
      BY <1>b, <2>1 DEF Whole, Exists
    <3>2. Runs(p) /\ image' = image /\ sys' = sys
      BY <1>3, <1>a DEF OpenTmp, Runs, fixed
    <3>3. KeptAfter(p, "failed")
      BY <1>a, <1>b, <2>1, <3>1, <3>2 DEF KeptAfter
    <3> QED BY <1>a, <3>2, <3>3, StepKeeps
  <2>2. CASE Truncate(p, "tmp") /\ pc' = [pc EXCEPT ![p] = "writing"]
    <3>1. PICK f \in File :
            /\ name' = [name EXCEPT !["tmp"] = f] /\ data' = [data EXCEPT ![f] = "part"]
            /\ fd' = [fd EXCEPT ![p] = f] /\ \A m \in Names : m # "tmp" => name[m] # f
            /\ f = name["tmp"] \/ \A q \in Updates : fd[q] # f /\ image[q] # f
            /\ f = name["tmp"] \/ name["tmp"] = NoFile
      <4>1. Exists("tmp") => name'["tmp"] = name["tmp"]
        BY <1>c, <2>2 DEF Truncate
      <4>2. PICK f \in File :
              /\ name' = [name EXCEPT !["tmp"] = f] /\ data' = [data EXCEPT ![f] = "part"]
              /\ fd' = [fd EXCEPT ![p] = f] /\ \A m \in Names : m # "tmp" => name[m] # f
              /\ f = name["tmp"] \/ \A q \in Updates : fd[q] # f /\ image[q] # f
        BY <1>c, <2>2, TruncateFile
      <4> QED BY <1>c, <4>1, <4>2 DEF Exists
    <3>2. /\ name'["exec"] = name["exec"] /\ name'["old"] = name["old"] /\ name'["tmp"] = f
          /\ name["exec"] # f /\ name["old"] # f
          /\ \A g \in File : g # f => data'[g] = data[g]
          /\ fd'[p] = f /\ \A q \in Updates : q # p => fd'[q] = fd[q]
      BY <1>c, <3>1
    <3>3. (Whole("exec") \/ Whole("old"))'
      BY <1>b, <1>c, <3>2 DEF Whole, Exists
    <3>4. Runs(p) /\ image' = image /\ sys' = sys
      BY <1>3, <1>a DEF OpenTmp, Runs, fixed
    <3>5. \A q \in Updates : pc[q] = "writing" => fd[q] = f
      BY <1>b, <3>1, Files
    <3>6. \A q \in Updates : Runs(q) =>
             image[q] \in {name'["exec"], name'["old"]} /\ data'[image[q]] # "part"
      BY <1>b, <3>2
    <3>7. \A q \in Updates : pc[q] = "filling" /\ q # p =>
             fd[q] = name'["exec"] /\ data'[fd[q]] = "part"
      BY <1>b, <3>2
    <3>8. "writing" \in Stages
      BY <1>a
    <3>9. KeptAfter(p, "writing")
      BY <1>b, <2>2, <3>2, <3>3, <3>4, <3>5, <3>6, <3>7, <3>8 DEF KeptAfter
    <3> QED BY <3>4, <3>8, <3>9, StepKeeps
  <2> QED BY <1>3, <2>1, <2>2 DEF OpenTmp
<1>4. CASE WriteTmp(p)
  <2>1. PICK w \in {"v1", "new", "part"}, l \in {"cleaning", "failed"} :
          Write(p, w) /\ pc' = [pc EXCEPT ![p] = l]
    BY <1>4 DEF WriteTmp
  <2>2. /\ pc[p] = "writing" /\ Runs(p) /\ image' = image /\ sys' = sys /\ name' = name
        /\ fd[p] = name["tmp"] /\ fd[p] \in File
    BY <1>4, <1>a, <1>b DEF WriteTmp, Runs, fixed
  <2>3. /\ \A f \in File : f # name["tmp"] => data'[f] = data[f]
        /\ \A q \in Updates : q # p => fd'[q] = fd[q]
    BY <2>1, <2>2, Files, WriteFile
  <2>4. name["tmp"] # name["exec"] /\ name["tmp"] # name["old"]
    BY <2>2, Files, ThreeNames
  <2>5. (Whole("exec") \/ Whole("old"))'
    BY <1>b, <1>c, <2>2, <2>3, <2>4 DEF Whole, Exists
  <2>6. \A q \in Updates : Runs(q) =>
           image[q] \in {name'["exec"], name'["old"]} /\ data'[image[q]] # "part"
    BY <1>b, <2>2, <2>3, <2>4
  <2>7. \A q \in Updates : pc[q] = "filling" /\ q # p =>
           fd[q] = name'["exec"] /\ data'[fd[q]] = "part"
    BY <1>b, <2>2, <2>3, <2>4
  <2>8. l \in Stages
    BY <1>a
  <2>9. KeptAfter(p, l)
    BY <1>b, <2>1, <2>2, <2>3, <2>5, <2>6, <2>7, <2>8 DEF KeptAfter
  <2> QED BY <2>2, <2>8, <2>9, StepKeeps
<1>5. CASE RemoveExec(p)
  BY <1>5 DEF RemoveExec, StageInv
<1>6. CASE RemoveOld(p)
  <2>1. /\ Runs(p) /\ ~Within(p) /\ UNCHANGED <<image, sys, data, fd>>
        /\ pc' = [pc EXCEPT ![p] = "aside"]
    BY <1>6, <1>a DEF RemoveOld, Runs, Within, fixed
  <2>2. CASE name' = name
    <3>1. (Whole("exec") \/ Whole("old"))'
      BY <1>b, <2>1, <2>2 DEF Whole, Exists
    <3>2. KeptAfter(p, "aside")
      BY <1>a, <1>b, <2>1, <2>2, <3>1 DEF KeptAfter
    <3> QED BY <1>a, <2>1, <3>2, StepKeeps
  <2>3. CASE CanRemove("old") /\ name' = [name EXCEPT !["old"] = NoFile]
    <3>1. \A q \in Updates : Runs(q) => image[q] # name["old"]
      BY <2>3 DEF CanRemove, Run
    <3>2. name'["exec"] = name["exec"] /\ name'["tmp"] = name["tmp"]
      BY <1>c, <2>3
    <3>3. image[p] = name'["exec"] /\ image[p] \in File /\ data'[image[p]] # "part"
      BY <1>b, <2>1, <3>1, <3>2
    <3>4. (Whole("exec") \/ Whole("old"))'
      BY <3>3, Files DEF Whole, Exists
    <3>5. KeptAfter(p, "aside")
      BY <1>a, <1>b, <2>1, <3>1, <3>2, <3>4 DEF KeptAfter
    <3> QED BY <1>a, <2>1, <3>5, StepKeeps
  <2> QED BY <1>6, <2>2, <2>3 DEF RemoveOld, Removed
<1>7. CASE MoveAside(p)
  <2>1. Runs(p) /\ ~Within(p) /\ UNCHANGED <<image, sys, data, fd>>
    BY <1>7, <1>a DEF MoveAside, Runs, Within, fixed
  <2>2. CASE pc' = [pc EXCEPT ![p] = "giving up"] /\ name' = name
    <3>1. (Whole("exec") \/ Whole("old"))'
      BY <1>b, <2>1, <2>2 DEF Whole, Exists
    <3>2. KeptAfter(p, "giving up")
      BY <1>a, <1>b, <2>1, <2>2, <3>1 DEF KeptAfter
    <3> QED BY <1>a, <2>1, <3>2, StepKeeps
  <2>3. CASE /\ CanMove("exec") /\ CanReplace("old") /\ Move("exec", "old")
             /\ pc' = [pc EXCEPT ![p] = "moving"]
    <3>1. \A q \in Updates : Runs(q) => image[q] = name["exec"]
      BY <1>b, <2>3, Files DEF CanReplace, CanRemove, Run, Exists
    <3>2. name'["old"] = name["exec"] /\ name'["tmp"] = name["tmp"]
      BY <1>c, <2>3 DEF Move
    <3>3. \A q \in Updates : ~Within(q)
      BY <1>b, <2>3, <3>1, Files, ThreeNames
    <3>4. image[p] = name'["old"] /\ image[p] \in File /\ data'[image[p]] # "part"
      BY <1>b, <2>1, <3>1, <3>2
    <3>5. (Whole("exec") \/ Whole("old"))'
      BY <3>4, Files DEF Whole, Exists
    <3>6. \A q \in Updates : pc[q] # "filling"
      BY <3>3 DEF Within
    <3>7. KeptAfter(p, "moving")
      BY <1>a, <1>b, <2>1, <2>3, <3>1, <3>2, <3>3, <3>5, <3>6 DEF KeptAfter
    <3> QED BY <1>a, <2>1, <3>7, StepKeeps
  <2> QED BY <1>7, <2>2, <2>3 DEF MoveAside, Aside
<1>8. CASE MoveIn(p)
  <2>1. /\ Runs(p) /\ Within(p) /\ UNCHANGED <<image, sys, data, fd>>
        /\ image[p] = name["old"] /\ image[p] \in File /\ data[image[p]] # "part"
    BY <1>8, <1>a, <1>b DEF MoveIn, Runs, Within, fixed
  <2>2. CASE pc' = [pc EXCEPT ![p] = "copying"] /\ name' = name
    <3>1. (Whole("exec") \/ Whole("old"))'
      BY <1>b, <2>1, <2>2 DEF Whole, Exists
    <3>2. KeptAfter(p, "copying")
      BY <1>a, <1>b, <2>1, <2>2, <3>1 DEF KeptAfter
    <3> QED BY <1>a, <2>1, <3>2, StepKeeps
  <2>3. CASE /\ CanMove("tmp") /\ CanReplace("exec") /\ Move("tmp", "exec")
             /\ pc' = [pc EXCEPT ![p] = "done"]
    <3>1. \A q \in Updates : Runs(q) => image[q] = name["old"]
      BY <1>b, <2>3, Files DEF CanReplace, CanRemove, Run, Exists
    <3>2. name'["old"] = name["old"]
      BY <1>c, <2>3 DEF Move
    <3>3. \A q \in Updates : pc[q] # "writing"
      BY <1>b, <2>3 DEF CanMove, Open
    <3>4. \A q \in Updates : pc[q] = "filling" => q = p
      BY <1>b, <2>1
    <3>5. (Whole("exec") \/ Whole("old"))'
      BY <2>1, <3>2, Files DEF Whole, Exists
    <3>6. KeptAfter(p, "done")
      BY <1>a, <1>b, <2>1, <2>3, <3>1, <3>2, <3>3, <3>4, <3>5 DEF KeptAfter
    <3> QED BY <1>a, <2>1, <3>6, StepKeeps
  <2> QED BY <1>8, <2>2, <2>3 DEF MoveIn
<1>9. CASE CopyOpen(p)
  <2>1. /\ Runs(p) /\ Within(p) /\ UNCHANGED <<image, sys>>
        /\ image[p] = name["old"] /\ image[p] \in File /\ data[image[p]] # "part"
    BY <1>9, <1>a, <1>b DEF CopyOpen, Runs, Within, fixed
  <2>2. CASE pc' = [pc EXCEPT ![p] = "restoring"] /\ UNCHANGED <<name, data, fd>>
    <3>1. (Whole("exec") \/ Whole("old"))'
      BY <1>b, <2>1, <2>2 DEF Whole, Exists
    <3>2. KeptAfter(p, "restoring")
      BY <1>a, <1>b, <2>1, <2>2, <3>1 DEF KeptAfter
    <3> QED BY <1>a, <2>1, <3>2, StepKeeps
  <2>3. CASE Truncate(p, "exec") /\ pc' = [pc EXCEPT ![p] = "filling"]
    <3>1. PICK f \in File :
            /\ name' = [name EXCEPT !["exec"] = f] /\ data' = [data EXCEPT ![f] = "part"]
            /\ fd' = [fd EXCEPT ![p] = f] /\ \A m \in Names : m # "exec" => name[m] # f
            /\ f = name["exec"] \/ \A q \in Updates : fd[q] # f /\ image[q] # f
            /\ \A q \in Updates : Runs(q) => image[q] # f
      BY <1>c, <2>3, TruncateFile
    <3>2. /\ name'["exec"] = f /\ name'["old"] = name["old"] /\ name'["tmp"] = name["tmp"]
          /\ \A g \in File : g # f => data'[g] = data[g]
          /\ fd'[p] = f /\ data'[f] = "part" /\ \A q \in Updates : q # p => fd'[q] = fd[q]
      BY <1>c, <3>1
    <3>3. \A q \in Updates : pc[q] = "filling" => q = p
      BY <1>b, <2>1
    <3>4. \A q \in Updates : Runs(q) => image[q] = name["old"] /\ data'[image[q]] # "part"
      <4> SUFFICES ASSUME NEW q \in Updates, Runs(q)
                   PROVE  image[q] = name["old"] /\ data'[image[q]] # "part"
        OBVIOUS
      <4>1. image[q] # f /\ image[q] \in File /\ data[image[q]] # "part"
        BY <1>b, <3>1
      <4>2. CASE f = name["exec"]
        BY <1>b, <3>2, <4>1, <4>2
      <4>3. CASE name["exec"] = NoFile
        BY <1>b, <3>2, <4>1, <4>3, Files
      <4>4. f = name["exec"] \/ name["exec"] = NoFile
        BY <1>c, <2>3, <3>2 DEF Truncate, Exists
      <4> QED BY <4>2, <4>3, <4>4
    <3>5. (Whole("exec") \/ Whole("old"))'
      BY <2>1, <3>2, <3>4, Files DEF Whole, Exists
    <3>6. "filling" \in Stages
      BY <1>a
    <3>7. \A q \in Updates : Within(q) => q = p
      BY <1>b, <2>1
    <3>8. KeptAfter(p, "filling")
      BY <1>b, <2>1, <2>3, <3>2, <3>3, <3>4, <3>5, <3>6, <3>7 DEF KeptAfter
    <3> QED BY <2>1, <3>6, <3>8, StepKeeps
  <2> QED BY <1>9, <2>2, <2>3 DEF CopyOpen, AfterFailedCopy
<1>10. CASE CopyWrite(p)
  <2>1. /\ Runs(p) /\ Within(p) /\ UNCHANGED <<image, sys, name>>
        /\ image[p] = name["old"] /\ image[p] \in File /\ data[image[p]] # "part"
        /\ fd[p] = name["exec"] /\ fd[p] \in File /\ data[fd[p]] = "part"
    BY <1>10, <1>a, <1>b DEF CopyWrite, Runs, Within, fixed
  <2>2. PICK w \in {"v1", "new", "part"}, l \in {"tidying", "restoring"} :
          Write(p, w) /\ pc' = [pc EXCEPT ![p] = l]
    <3>1. buf[p] \in {"v1", "new", "part"}
      BY DEF TypeOK
    <3> QED BY <1>10, <3>1 DEF CopyWrite, AfterShortCopy, AfterFailedCopy
  <2>3. /\ \A f \in File : f # name["exec"] => data'[f] = data[f]
        /\ \A q \in Updates : q # p => fd'[q] = fd[q]
    BY <2>1, <2>2, Files, WriteFile
  <2>4. \A q \in Updates : Runs(q) => image[q] = name["old"] /\ data'[image[q]] # "part"
    BY <1>b, <2>1, <2>3
  <2>5. \A q \in Updates : pc[q] = "filling" => q = p
    BY <1>b, <2>1
  <2>6. (Whole("exec") \/ Whole("old"))'
    BY <2>1, <2>4, Files DEF Whole, Exists
  <2>7. l \in Stages /\ \A q \in Updates : Within(q) => q = p
    BY <1>a, <1>b, <2>1
  <2>8. KeptAfter(p, l)
    BY <1>b, <2>1, <2>2, <2>3, <2>4, <2>5, <2>6, <2>7 DEF KeptAfter
  <2> QED BY <2>1, <2>7, <2>8, StepKeeps
<1>11. CASE Restore(p)
  <2>1. /\ Runs(p) /\ Within(p) /\ UNCHANGED <<image, sys, data, fd>>
        /\ image[p] = name["old"] /\ image[p] \in File /\ data[image[p]] # "part"
        /\ pc' = [pc EXCEPT ![p] = "giving up"]
    BY <1>11, <1>a, <1>b DEF Restore, Runs, Within, fixed
  <2>2. CASE name' = name
    <3>1. (Whole("exec") \/ Whole("old"))'
      BY <1>b, <2>1, <2>2 DEF Whole, Exists
    <3>2. KeptAfter(p, "giving up")
      BY <1>a, <1>b, <2>1, <2>2, <3>1 DEF KeptAfter
    <3> QED BY <1>a, <2>1, <3>2, StepKeeps
  <2>3. CASE CanReplace("exec") /\ Move("old", "exec")
    <3>1. \A q \in Updates : Runs(q) => image[q] = name["old"]
      BY <1>b, <2>3, Files DEF CanReplace, CanRemove, Run, Exists
    <3>2. name'["exec"] = name["old"] /\ name'["tmp"] = name["tmp"]
      BY <1>c, <2>3 DEF Move
    <3>3. \A q \in Updates : Within(q) => q = p
      BY <1>b, <2>1
    <3>4. (Whole("exec") \/ Whole("old"))'
      BY <2>1, <3>2, Files DEF Whole, Exists
    <3>5. KeptAfter(p, "giving up")
      BY <1>a, <1>b, <2>1, <3>1, <3>2, <3>3, <3>4 DEF KeptAfter
    <3> QED BY <1>a, <2>1, <3>5, StepKeeps
  <2> QED BY <1>11, <2>2, <2>3 DEF Restore
<1>12. CASE RemoveTmp(p)
  <2>1. PICK l \in {"done", "failed"} : pc' = [pc EXCEPT ![p] = l]
    BY <1>12 DEF RemoveTmp
  <2>2. Runs(p) /\ UNCHANGED <<image, sys, data, fd>>
    BY <1>12, <1>a DEF RemoveTmp, Runs, fixed
  <2>3. name'["exec"] = name["exec"] /\ name'["old"] = name["old"]
    BY <1>12, <1>c DEF RemoveTmp, Removed
  <2>4. \A q \in Updates : pc[q] = "writing" => fd[q] = name'["tmp"]
    BY <1>12, <1>b DEF RemoveTmp, Removed, CanRemove, CanMove, Open
  <2>5. (Whole("exec") \/ Whole("old"))'
    BY <1>b, <2>2, <2>3 DEF Whole, Exists
  <2>6. KeptAfter(p, l)
    BY <1>a, <1>b, <2>1, <2>2, <2>3, <2>4, <2>5 DEF KeptAfter
  <2> QED BY <1>a, <2>1, <2>2, <2>6, StepKeeps
<1> QED
  BY <1>0, <1>2, <1>3, <1>4, <1>5, <1>6, <1>7, <1>8, <1>9, <1>10, <1>11, <1>12
-----------------------------------------------------------------------------
(* One update after the other.                                              *)

(* What a step of p, other than a start, has to make true; l is p's next    *)
(* stage.                                                                   *)
AloneAfter(p, l) ==
    /\ pc' = [pc EXCEPT ![p] = l] /\ together' = together /\ l # "idle"
    /\ l \in {"downloading", "opening", "writing", "removing"} => Whole("exec")'
    /\ l \in {"removing", "cleaning", "aside", "moving", "copying", "creating", "filling",
              "restoring", "giving up"} => New("tmp")'
    /\ l \in {"creating", "filling"} => buf'[p] = "new"
    /\ l = "writing" => fd'[p] = name'["tmp"]
    /\ l = "filling" => fd'[p] = name'["exec"]
    /\ l \in {"tidying", "done"} => New("exec")'
    /\ l = "killed" => UNCHANGED <<name, data>>

(* Nothing is asked of the others: they do not run.                         *)
LEMMA StepAlone ==
  ASSUME TypeOK, AloneInv, ~together, NEW p \in Updates, Runs(p), NEW l \in Stages,
         AloneAfter(p, l)
  PROVE  AloneInv' /\ GapIsBridged' /\ SuccessIsNew'
<1>1. /\ pc'[p] = l /\ \A q \in Updates : q # p => pc'[q] = pc[q] /\ pc'[q] \in Ended
  BY DEF AloneAfter, TypeOK, Stages, AloneInv, Runs
<1>2. \A q \in Updates : Runs(q)' => q = p
  BY <1>1 DEF Runs
<1>3. AloneInv'
  <2> SUFFICES ASSUME NEW q \in Updates
               PROVE  /\ pc'[q] \in {"downloading", "opening", "writing", "removing"}
                            => Whole("exec")'
                      /\ pc'[q] \in {"removing", "cleaning", "aside", "restoring", "giving up"}
                            \/ Within(q)' => New("tmp")'
                      /\ pc'[q] \in {"creating", "filling"} => buf'[q] = "new"
                      /\ pc'[q] = "writing" => fd'[q] = name'["tmp"]
                      /\ pc'[q] = "filling" => fd'[q] = name'["exec"]
                      /\ pc'[q] = "tidying" => New("exec")'
    BY <1>2 DEF AloneInv
  <2>1. CASE q = p
    BY <1>1, <2>1 DEF AloneAfter, Within
  <2>2. CASE q # p
    BY <1>1, <2>2 DEF Ended, Within
  <2> QED BY <2>1, <2>2
<1>4. GapIsBridged'
  <2>1. "exec" \in Names /\ "tmp" \in Names
    BY DEF Names
  <2>2. New("tmp")' => Whole("tmp")'
    BY DEF New, Whole
  <2>3. New("exec")' => Whole("exec")'
    BY DEF New, Whole
  <2>4. CASE l \in {"downloading", "opening", "writing", "tidying", "done"}
    BY <2>1, <2>3, <2>4 DEF AloneAfter, GapIsBridged
  <2>5. CASE l \in {"removing", "cleaning", "aside", "moving", "copying", "creating", "filling",
                    "restoring", "giving up"}
    BY <2>1, <2>2, <2>5 DEF AloneAfter, GapIsBridged
  <2>6. CASE l = "failed"
    BY <1>1, <2>6 DEF GapIsBridged
  <2>7. CASE l = "killed"
    <3>1. Whole("exec") \/ Whole("tmp")
      BY DEF AloneInv, Runs, Within, Ended, New, Whole, TypeOK, Places
    <3>2. (Whole("exec") \/ Whole("tmp"))'
      BY <2>7, <3>1 DEF AloneAfter, Whole, Exists
    <3> QED BY <2>1, <3>2 DEF GapIsBridged
  <2> QED BY <2>4, <2>5, <2>6, <2>7 DEF AloneAfter, Stages, Places, Ended
<1>5. SuccessIsNew'
  <2>1. CASE l = "done"
    BY <2>1 DEF AloneAfter, New, Whole, SuccessIsNew
  <2>2. CASE l # "done"
    BY <1>1, <2>2 DEF AloneAfter, SuccessIsNew
  <2> QED BY <2>1, <2>2
<1> QED BY <1>3, <1>4, <1>5

LEMMA StartAlone ==
  ASSUME TypeOK, AloneInv, GapIsBridged, SuccessIsNew, NEW p \in Updates, StartUpdate(p)
  PROVE  AloneInv' /\ GapIsBridged' /\ SuccessIsNew'
<1> SUFFICES ASSUME ~together' PROVE AloneInv' /\ GapIsBridged' /\ SuccessIsNew'
  BY DEF AloneInv, GapIsBridged, SuccessIsNew
<1>1. /\ pc' = [pc EXCEPT ![p] = "downloading"] /\ UNCHANGED <<name, data, fd, buf>>
      /\ Whole("exec") /\ ~together /\ \A q \in Updates : ~Runs(q)
  BY DEF StartUpdate, Goto
<1>2. /\ pc'[p] = "downloading" /\ \A q \in Updates : q # p => pc'[q] \in Ended
  BY <1>1 DEF TypeOK, Runs
<1>3. Whole("exec")'
  BY <1>1 DEF Whole, Exists
<1>4. AloneInv'
  BY <1>2, <1>3 DEF AloneInv, Runs, Within, Ended
<1>5. GapIsBridged'
  BY <1>3 DEF GapIsBridged, Names
<1>6. SuccessIsNew'
  BY <1>2 DEF SuccessIsNew
<1> QED BY <1>4, <1>5, <1>6

LEMMA NextAlone ==
  ASSUME TypeOK, StageInv, AloneInv, GapIsBridged, SuccessIsNew, Next
  PROVE  AloneInv' /\ GapIsBridged' /\ SuccessIsNew'
<1> USE DEF Goto
<1>0. PICK p \in Updates :
         \/ StartUpdate(p) \/ Download(p) \/ OpenTmp(p) \/ WriteTmp(p)
         \/ RemoveExec(p) \/ RemoveOld(p) \/ MoveAside(p) \/ MoveIn(p)
         \/ CopyRead(p) \/ CopyOpen(p) \/ CopyWrite(p)
         \/ Restore(p) \/ RemoveTmp(p) \/ Killed(p)
  BY DEF Next
<1>1. CASE StartUpdate(p)
  BY <1>1, StartAlone
<1> SUFFICES ASSUME ~together, ~StartUpdate(p)
             PROVE  AloneInv' /\ GapIsBridged' /\ SuccessIsNew'
  <2>1. ~StartUpdate(p) => together' = together
    BY <1>0 DEF Download, OpenTmp, WriteTmp, RemoveExec, RemoveOld, MoveAside,
       MoveIn, CopyRead, CopyOpen, CopyWrite, Restore, RemoveTmp, Killed, fixed
  <2> QED BY <1>1, <2>1 DEF AloneInv, GapIsBridged, SuccessIsNew
<1>a. /\ Ended = {"idle", "done", "failed", "killed"}
      /\ Stages = {"downloading", "opening", "writing", "removing", "cleaning", "aside", "moving",
                   "copying", "creating", "filling", "restoring", "tidying", "giving up"}
                     \cup {"idle", "done", "failed", "killed"}
  BY DEF Ended, Stages, Places
<1>b. /\ pc[p] \in {"downloading", "opening", "writing", "removing"} => Whole("exec")
      /\ pc[p] \in {"removing", "cleaning", "aside", "moving", "copying", "creating", "filling",
                    "restoring", "giving up"} => New("tmp")
      /\ pc[p] \in {"creating", "filling"} => buf[p] = "new"
      /\ pc[p] = "writing" => fd[p] = name["tmp"]
      /\ pc[p] = "filling" => fd[p] = name["exec"]
      /\ pc[p] = "tidying" => New("exec")
      /\ pc[p] \in {"writing", "filling"} => fd[p] \in File
  BY Files DEF AloneInv, Within, StageInv, TypeOK
<1>c. /\ name \in [Names -> File \cup {NoFile}] /\ data \in [File -> {"v1", "new", "part"}]
      /\ fd \in [Updates -> File \cup {NoFile}]
      /\ "exec" \in Names /\ "tmp" \in Names /\ "old" \in Names
  BY DEF TypeOK, Names
<1>2. CASE Download(p)
  <2>1. PICK l \in {"opening", "failed"} : pc' = [pc EXCEPT ![p] = l]
    BY <1>2 DEF Download
  <2>2. Whole("exec")' /\ Runs(p)
    BY <1>2, <1>a, <1>b DEF Download, Runs, Whole, Exists
  <2>3. AloneAfter(p, l)
    BY <1>2, <2>1, <2>2 DEF Download, AloneAfter, fixed
  <2> QED BY <1>a, <2>2, <2>3, StepAlone
<1>3. CASE OpenTmp(p)
  <2>1. Runs(p) /\ together' = together
    BY <1>3, <1>a DEF OpenTmp, Runs, fixed
  <2>2. CASE pc' = [pc EXCEPT ![p] = "failed"]
    <3>1. AloneAfter(p, "failed")
      BY <2>1, <2>2 DEF AloneAfter
    <3> QED BY <1>a, <2>1, <3>1, StepAlone
  <2>3. CASE Truncate(p, "tmp") /\ pc' = [pc EXCEPT ![p] = "writing"]
    <3>1. PICK f \in File :
            /\ name' = [name EXCEPT !["tmp"] = f] /\ data' = [data EXCEPT ![f] = "part"]
            /\ fd' = [fd EXCEPT ![p] = f] /\ \A m \in Names : m # "tmp" => name[m] # f
      BY <1>c, <2>3, TruncateFile
    <3>2. Whole("exec")
      BY <1>3, <1>b DEF OpenTmp
    <3>3. Whole("exec")'
      BY <1>c, <3>1, <3>2 DEF Whole, Exists
    <3>4. fd'[p] = name'["tmp"]
      BY <1>c, <3>1
    <3>5. AloneAfter(p, "writing")
      BY <2>1, <2>3, <3>3, <3>4 DEF AloneAfter
    <3> QED BY <1>a, <2>1, <3>5, StepAlone
  <2> QED BY <1>3, <2>2, <2>3 DEF OpenTmp
<1>4. CASE WriteTmp(p)
  <2>1. /\ Runs(p) /\ together' = together /\ name' = name
        /\ fd[p] = name["tmp"] /\ fd[p] \in File /\ Whole("exec")
    BY <1>4, <1>a, <1>b DEF WriteTmp, Runs, fixed
  <2>2. CASE pc' = [pc EXCEPT ![p] = "failed"]
    <3>1. AloneAfter(p, "failed")
      BY <2>1, <2>2 DEF AloneAfter
    <3> QED BY <1>a, <2>1, <3>1, StepAlone
  <2>3. CASE Write(p, "new") /\ \E l \in {"cleaning", "removing"} : pc' = [pc EXCEPT ![p] = l]
    <3>1. PICK l \in {"cleaning", "removing"} : pc' = [pc EXCEPT ![p] = l]
      BY <2>3
    <3>2. data' = [data EXCEPT ![name["tmp"]] = "new"]
      BY <2>1, <2>3 DEF Write
    <3>3. New("tmp")'
      BY <1>c, <2>1, <3>2, Files DEF New, Exists
    <3>4. name["exec"] # name["tmp"]
      BY <2>1, Files, ThreeNames
    <3>5. Whole("exec")'
      BY <1>c, <2>1, <3>2, <3>4 DEF Whole, Exists
    <3>6. AloneAfter(p, l)
      BY <2>1, <3>1, <3>3, <3>5 DEF AloneAfter
    <3> QED BY <1>a, <2>1, <3>6, StepAlone
  <2> QED BY <1>4, <2>2, <2>3 DEF WriteTmp
<1>5. CASE RemoveExec(p) \/ RemoveOld(p)
  <2>1. PICK l \in {"moving", "giving up", "aside"} : pc' = [pc EXCEPT ![p] = l]
    BY <1>5 DEF RemoveExec, RemoveOld
  <2>2. /\ Runs(p) /\ together' = together /\ data' = data /\ name'["tmp"] = name["tmp"]
        /\ New("tmp")
    BY <1>5, <1>a, <1>b, <1>c DEF RemoveExec, RemoveOld, Runs, Removed, fixed
  <2>3. AloneAfter(p, l)
    BY <2>1, <2>2 DEF AloneAfter, New, Exists
  <2> QED BY <1>a, <2>2, <2>3, StepAlone
<1>6. CASE MoveAside(p)
  <2>1. PICK l \in {"moving", "giving up"} : pc' = [pc EXCEPT ![p] = l]
    BY <1>6 DEF MoveAside
  <2>2. /\ Runs(p) /\ together' = together /\ data' = data /\ name'["tmp"] = name["tmp"]
        /\ New("tmp")
    BY <1>6, <1>a, <1>b, <1>c DEF MoveAside, Runs, Aside, Move, fixed
  <2>3. AloneAfter(p, l)
    BY <2>1, <2>2 DEF AloneAfter, New, Exists
  <2> QED BY <1>a, <2>2, <2>3, StepAlone
<1>7. CASE MoveIn(p)
  <2>1. Runs(p) /\ together' = together /\ data' = data /\ New("tmp")
    BY <1>7, <1>a, <1>b DEF MoveIn, Runs, fixed
  <2>2. CASE pc' = [pc EXCEPT ![p] = "copying"] /\ name' = name
    <3>1. AloneAfter(p, "copying")
      BY <2>1, <2>2 DEF AloneAfter, New, Exists
    <3> QED BY <1>a, <2>1, <3>1, StepAlone
  <2>3. CASE /\ Move("tmp", "exec")
             /\ \E l \in {"done", "tidying"} : pc' = [pc EXCEPT ![p] = l]
    <3>1. PICK l \in {"done", "tidying"} : pc' = [pc EXCEPT ![p] = l]
      BY <2>3
    <3>2. New("exec")'
      BY <1>c, <2>1, <2>3 DEF Move, New, Exists
    <3>3. AloneAfter(p, l)
      BY <2>1, <3>1, <3>2 DEF AloneAfter
    <3> QED BY <1>a, <2>1, <3>3, StepAlone
  <2> QED BY <1>7, <2>2, <2>3 DEF MoveIn
<1>8. CASE CopyRead(p)
  <2>1. PICK l \in {"creating", "restoring", "giving up"} : pc' = [pc EXCEPT ![p] = l]
    BY <1>8 DEF CopyRead, AfterFailedCopy
  <2>2. Runs(p) /\ together' = together /\ UNCHANGED <<name, data>> /\ New("tmp")
    BY <1>8, <1>a, <1>b DEF CopyRead, Runs, fixed
  <2>3. l = "creating" => buf'[p] = "new"
    <3>1. pc'[p] = l
      BY <2>1 DEF TypeOK
    <3>2. AfterFailedCopy # "creating"
      BY DEF AfterFailedCopy
    <3>3. pc' = [pc EXCEPT ![p] = AfterFailedCopy] => pc'[p] = AfterFailedCopy
      BY DEF TypeOK
    <3> QED BY <1>8, <2>2, <3>1, <3>2, <3>3 DEF CopyRead, New, TypeOK
  <2>4. AloneAfter(p, l)
    BY <2>1, <2>2, <2>3 DEF AloneAfter, New, Exists
  <2> QED BY <1>a, <2>2, <2>4, StepAlone
<1>9. CASE CopyOpen(p)
  <2>1. Runs(p) /\ together' = together /\ buf' = buf /\ buf[p] = "new" /\ New("tmp")
    BY <1>9, <1>a, <1>b DEF CopyOpen, Runs, fixed
  <2>2. CASE pc' = [pc EXCEPT ![p] = AfterFailedCopy] /\ UNCHANGED <<name, data>>
    <3>1. AfterFailedCopy \in {"restoring", "giving up"}
      BY DEF AfterFailedCopy
    <3>2. AloneAfter(p, AfterFailedCopy)
      BY <2>1, <2>2, <3>1 DEF AloneAfter, New, Exists
    <3> QED BY <1>a, <2>1, <3>1, <3>2, StepAlone
  <2>3. CASE Truncate(p, "exec") /\ pc' = [pc EXCEPT ![p] = "filling"]
    <3>1. PICK f \in File :
            /\ name' = [name EXCEPT !["exec"] = f] /\ data' = [data EXCEPT ![f] = "part"]
            /\ fd' = [fd EXCEPT ![p] = f] /\ \A m \in Names : m # "exec" => name[m] # f
      BY <1>c, <2>3, TruncateFile
    <3>2. New("tmp")'
      BY <1>c, <2>1, <3>1 DEF New, Exists
    <3>3. fd'[p] = name'["exec"]
      BY <1>c, <3>1
    <3>4. AloneAfter(p, "filling")
      BY <2>1, <2>3, <3>2, <3>3 DEF AloneAfter
    <3> QED BY <1>a, <2>1, <3>4, StepAlone
  <2> QED BY <1>9, <2>2, <2>3 DEF CopyOpen
<1>10. CASE CopyWrite(p)
  <2>1. /\ Runs(p) /\ together' = together /\ name' = name /\ buf[p] = "new" /\ New("tmp")
        /\ fd[p] = name["exec"] /\ fd[p] \in File
    BY <1>10, <1>a, <1>b DEF CopyWrite, Runs, fixed
  <2>2. CASE Write(p, buf[p]) /\ pc' = [pc EXCEPT ![p] = "tidying"]
    <3>1. data' = [data EXCEPT ![name["exec"]] = "new"]
      BY <2>1, <2>2 DEF Write
    <3>2. New("exec")'
      BY <1>c, <2>1, <3>1, Files DEF New, Exists
    <3>3. AloneAfter(p, "tidying")
      BY <2>1, <2>2, <3>2 DEF AloneAfter
    <3> QED BY <1>a, <2>1, <3>3, StepAlone
  <2>3. CASE Write(p, "part") /\ pc' = [pc EXCEPT ![p] = AfterFailedCopy]
    <3>1. data' = [data EXCEPT ![name["exec"]] = "part"]
      BY <2>1, <2>3 DEF Write
    <3>2. name["exec"] # name["tmp"]
      BY <2>1, Files, ThreeNames
    <3>3. New("tmp")'
      BY <1>c, <2>1, <3>1, <3>2 DEF New, Exists
    <3>4. AfterFailedCopy \in {"restoring", "giving up"}
      BY DEF AfterFailedCopy
    <3>5. AloneAfter(p, AfterFailedCopy)
      BY <2>1, <2>3, <3>3, <3>4 DEF AloneAfter
    <3> QED BY <1>a, <2>1, <3>4, <3>5, StepAlone
  <2> QED BY <1>10, <2>2, <2>3 DEF CopyWrite, AfterShortCopy
<1>11. CASE Restore(p)
  <2>1. /\ Runs(p) /\ together' = together /\ pc' = [pc EXCEPT ![p] = "giving up"]
        /\ data' = data /\ name'["tmp"] = name["tmp"] /\ New("tmp")
    BY <1>11, <1>a, <1>b, <1>c DEF Restore, Runs, Move, fixed
  <2>2. AloneAfter(p, "giving up")
    BY <2>1 DEF AloneAfter, New, Exists
  <2> QED BY <1>a, <2>1, <2>2, StepAlone
<1>12. CASE RemoveTmp(p)
  <2>1. /\ Runs(p) /\ together' = together /\ data' = data
        /\ name'["exec"] = name["exec"]
    BY <1>12, <1>a, <1>c DEF RemoveTmp, Runs, Removed, fixed
  <2>2. CASE pc[p] = "tidying" /\ pc' = [pc EXCEPT ![p] = "done"]
    <3>1. AloneAfter(p, "done")
      BY <1>b, <2>1, <2>2 DEF AloneAfter, New, Exists
    <3> QED BY <1>a, <2>1, <3>1, StepAlone
  <2>3. CASE pc' = [pc EXCEPT ![p] = "failed"]
    <3>1. AloneAfter(p, "failed")
      BY <2>1, <2>3 DEF AloneAfter
    <3> QED BY <1>a, <2>1, <3>1, StepAlone
  <2> QED BY <1>12, <2>2, <2>3 DEF RemoveTmp
<1>13. CASE Killed(p)
  <2>1. Runs(p) /\ AloneAfter(p, "killed")
    BY <1>13 DEF Killed, AloneAfter, fixed
  <2> QED BY <1>a, <2>1, StepAlone
<1> QED
  BY <1>0, <1>2, <1>3, <1>4, <1>5, <1>6, <1>7, <1>8, <1>9, <1>10, <1>11, <1>12, <1>13

-----------------------------------------------------------------------------

LEMMA InitIInv == Init => IInv
<1> SUFFICES ASSUME Init PROVE IInv
  OBVIOUS
<1>1. Cardinality(Updates) \in Nat
  BY UpdatesAssumption, FS_CardinalityType DEF UpdatesAssumption
<1>2. 1 \in File
  BY <1>1 DEF File
<1>3. /\ name \in [Names -> File \cup {NoFile}]
      /\ name["exec"] = 1 /\ name["tmp"] = NoFile /\ name["old"] = NoFile
      /\ data \in [File -> {"v1", "new", "part"}] /\ data[1] = "v1"
      /\ \A p \in Updates : pc[p] = "idle" /\ fd[p] = NoFile
  BY <1>2 DEF Init, Names
<1>4. Whole("exec") /\ \A p \in Updates : ~Runs(p) /\ ~Within(p)
  BY <1>3 DEF Whole, Exists, NoFile, Runs, Within, Ended
<1>5. TypeOK
  <2>1. 0 \in 0 .. MaxStarts
    BY UpdatesAssumption DEF UpdatesAssumption
  <2>2. \A m, n \in Names : m # n /\ Exists(m) => name[m] # name[n]
    BY <1>3 DEF Names, Exists, NoFile
  <2> QED BY <1>3, <2>1, <2>2 DEF TypeOK, Init, Ended, NoFile
<1>6. StageInv /\ KeptInv /\ AloneInv
  BY <1>3, <1>4 DEF StageInv, KeptInv, AloneInv, OneIsKept
<1>7. GapIsBridged /\ SuccessIsNew
  BY <1>3, <1>4 DEF GapIsBridged, SuccessIsNew, Names
<1> QED BY <1>5, <1>6, <1>7 DEF IInv

LEMMA NextIInv == IInv /\ [Next]_vars => IInv'
<1> SUFFICES ASSUME IInv, [Next]_vars PROVE IInv'
  OBVIOUS
<1>1. CASE Next
  BY <1>1, NextTypes, NextKeeps, NextAlone DEF IInv
<1>2. CASE UNCHANGED vars
  <2>1. TypeOK' /\ StageInv'
    BY <1>2, NoStep DEF IInv
  <2>2. KeptInv' /\ AloneInv'
    BY <1>2 DEF IInv, KeptInv, AloneInv, vars, OneIsKept, Whole, New, Exists, Runs, Within
  <2>3. GapIsBridged' /\ SuccessIsNew'
    BY <1>2 DEF IInv, GapIsBridged, SuccessIsNew, vars, Whole, Exists
  <2> QED BY <2>1, <2>2, <2>3 DEF IInv
<1> QED BY <1>1, <1>2

LEMMA SpecIInv == Spec => []IInv
  BY InitIInv, NextIInv, PTL DEF Spec

(* Every variable keeps its shape and no file ever has two names, however   *)
(* many updates interleave, fail or are killed.                             *)
THEOREM TypeCorrect == Spec => []TypeOK
<1>1. IInv => TypeOK
  BY DEF IInv
<1> QED BY <1>1, SpecIInv, PTL

(* Windows has a whole binary, under its own name or as "old", at every     *)
(* moment of any number of concurrent updates.                              *)
THEOREM WindowsKeepsOne == Spec => []OneIsKept
<1>1. IInv => OneIsKept
  BY DEF IInv, KeptInv, OneIsKept
<1> QED BY <1>1, SpecIInv, PTL

(* Updates that run one after the other leave a whole binary behind at any  *)
(* point at which one of them is killed.                                    *)
THEOREM KilledLeavesWhole == Spec => []GapIsBridged
<1>1. IInv => GapIsBridged
  BY DEF IInv
<1> QED BY <1>1, SpecIInv, PTL

(* Updates that run one after the other and report success have put the new *)
(* binary in place.                                                         *)
THEOREM SuccessInstalls == Spec => []SuccessIsNew
<1>1. IInv => SuccessIsNew
  BY DEF IInv
<1> QED BY <1>1, SpecIInv, PTL
=============================================================================
