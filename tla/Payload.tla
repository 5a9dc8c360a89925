------------------------------ MODULE Payload ------------------------------
(***************************************************************************)
(* What "drop send --mode mailbox" packs for the files it is given, and     *)
(* what "drop download" unpacks (mailbox/payload.go).  The length fields,   *)
(* of four and of eight bytes, are one element of the buffer each, and so   *)
(* is the magic; names and contents are sequences of bytes.  Payloads are   *)
(* encrypted with authentication, so what is unpacked has been packed.      *)
(***************************************************************************)
EXTENDS Integers, Sequences, FiniteSets

CONSTANTS
    MaxFilenameLen,    \* bytes of a name (4095)
    MaxFilesPerSend,   \* files of an AMB2 payload (256)
    MaxFilePayload     \* bytes of contents (500 MiB)

Magic == 1095582258    \* "AMB2" read as a length

ASSUME LimitsAssumption ==
    /\ MaxFilenameLen \in Nat /\ MaxFilenameLen < Magic
    /\ MaxFilesPerSend \in Nat \ {0} /\ MaxFilePayload \in Nat

Byte == 0 .. 255

(* A file of a payload.                                                     *)
Entry == [name : Seq(Byte), content : Seq(Byte)]

Bad == [ok |-> FALSE, files |-> << >>]
Good(fs) == [ok |-> TRUE, files |-> fs]

-----------------------------------------------------------------------------
(* Packing.                                                                 *)

(* sendMailbox writes the legacy layout itself, without EncodeV1's checks.  *)
PackV1(f) == <<Len(f.name)>> \o f.name \o f.content

(* The buffer and the sum of the sizes after the first i files.             *)
Written(fs) ==
    LET w[i \in 0 .. Len(fs)] ==
          IF i = 0 THEN [buf |-> <<Magic, Len(fs)>>, total |-> 0]
          ELSE LET f == fs[i]
               IN  [buf |-> w[i-1].buf \o <<Len(f.name)>> \o f.name
                                 \o <<Len(f.content)>> \o f.content,
                    total |-> w[i-1].total + Len(f.content)]
    IN  w[Len(fs)]

(* EncodeAMB2; a single file over the limit is over it in sum as well.      *)
Packable(fs) ==
    /\ Len(fs) <= MaxFilesPerSend
    /\ \A i \in 1 .. Len(fs) : Len(fs[i].name) \in 1 .. MaxFilenameLen
    /\ Written(fs).total <= MaxFilePayload

(* cmdSend: one file goes the legacy way, several are bundled.              *)
CanPack(fs) == Len(fs) = 1 \/ Packable(fs)
Pack(fs) == IF Len(fs) = 1 THEN PackV1(fs[1]) ELSE Written(fs).buf

-----------------------------------------------------------------------------
(* Unpacking.                                                               *)

DecodeLegacyV1(p) ==
    IF p[1] \in 1 .. MaxFilenameLen /\ Len(p) >= 1 + p[1]
    THEN Good(<<[name |-> SubSeq(p, 2, 1 + p[1]),
                 content |-> SubSeq(p, 2 + p[1], Len(p))]>>)
    ELSE Bad

AfterContentShort(at, n, m) == at + 2 + n + m - 1  \* mutant: one byte short

(* Where the entry ends that starts at `at`.                                *)
AfterContent(at, n, m) == at + 2 + n + m

(* One round of the loop of decodeAMB2, from position s.at of the payload.  *)
DecodeEntry(p, s) ==
    LET left == Len(p) - s.at + 1
        n == p[s.at]
        m == p[s.at + 1 + n]
    IN  IF ~s.ok \/ left < 1 THEN [s EXCEPT !.ok = FALSE]
        ELSE IF n \notin 1 .. MaxFilenameLen \/ left < 1 + n + 1 THEN [s EXCEPT !.ok = FALSE]
        ELSE IF left < 2 + n + m THEN [s EXCEPT !.ok = FALSE]
        ELSE [ok |-> TRUE, at |-> AfterContent(s.at, n, m),
              files |-> Append(s.files,
                          [name |-> SubSeq(p, s.at + 1, s.at + n),
                           content |-> SubSeq(p, s.at + 2 + n, s.at + 1 + n + m)])]

DecodeAMB2(p) ==
    LET read[i \in 0 .. p[2]] ==
          IF i = 0 THEN [ok |-> TRUE, at |-> 3, files |-> << >>]
          ELSE DecodeEntry(p, read[i-1])
        end == read[p[2]]
    IN  IF Len(p) < 2 \/ p[2] \notin 1 .. MaxFilesPerSend THEN Bad
        ELSE IF end.ok /\ end.at = Len(p) + 1 THEN Good(end.files) ELSE Bad

Decode(p) ==
    IF Len(p) < 1 THEN Bad
    ELSE IF p[1] = Magic THEN DecodeAMB2(p) ELSE DecodeLegacyV1(p)
=============================================================================
