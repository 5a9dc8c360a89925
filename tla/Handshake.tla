----------------------------- MODULE Handshake -----------------------------
(***************************************************************************)
(* How a sender and a receiver of one passphrase find each other: the      *)
(* programs up to the first message of a session, and the relay's room     *)
(* between them.  "live" is `drop send` or live-send.html with             *)
(* `drop download`, `drop discover` or download.html: WaitForPeer,         *)
(* ConnectLive, PeerJoin.  "announced" is `drop receive` with sender.html  *)
(* or Sender.Connect: Version, Ready.                                      *)
(*                                                                         *)
(* A program may be started again on the same passphrase; a connection is  *)
(* the side and the number of the start.  The room is what RelayRooms      *)
(* shows of it, with each critical section and what follows it one step;   *)
(* a frame that is already buffered outlives, as there, its client and its *)
(* client's place in the room, and is then "late".  Time is counted in     *)
(* minutes; what takes seconds is over before a minute is.                 *)
(***************************************************************************)
EXTENDS Integers, Sequences, FiniteSets

CONSTANTS
    Modes,            \* ways to meet: "live", "announced"
    Kinds,            \* programs: "cli" and the browser's "page"
    ProtocolVersion,  \* of the Go programs
    PageVersion,      \* PROTOCOL_VERSION of drop-protocol.js
    IdleLimit,        \* minutes before the relay closes a quiet room (10)
    PeerWait,         \* minutes of WaitForPeer in sendP2P (30)
    VersionWait,      \* minutes of Receiver.Connect (5)
    MaxStarts         \* bound: starts of each side's program

Sides == {"S", "R"}

(* A wait can be prolonged once, by a client that joins and stays silent.   *)
ASSUME TimesAssumption ==
    /\ IdleLimit \in Nat /\ VersionWait \in Nat
    /\ PeerWait \in Nat /\ PeerWait > 2 * (IdleLimit + 1)
    /\ MaxStarts \in [Sides -> Nat]

(* 0 stands for no version byte, which is what a page's PeerJoin has.       *)
ASSUME ProgramsAssumption ==
    /\ Modes \subseteq {"live", "announced"} /\ Kinds \subseteq {"cli", "page"}
    /\ ProtocolVersion # 0

Start == 0 .. MaxStarts["S"] + MaxStarts["R"]
Conn == {c \in Sides \X Start : 0 < c[2] /\ c[2] <= MaxStarts[c[1]]}

(* A frame: its type, the start of its sender, the version byte it carries, *)
(* and whether its client had lost its place when the relay passed it on.   *)
Frame == [type : {"resume", "join", "offer", "version", "ready"}, of : Start,
          v : {0, PageVersion, ProtocolVersion}, late : BOOLEAN]

NoFrame == [type |-> "none"]

VARIABLES
    mode,
    start,    \* how often each side's program has been started
    kind,     \* what it is
    pc,       \* where it is
    resumes,  \* the receiver found a resume candidate
    pending,  \* Sender.pendingResume
    peer,     \* the frame that let each side begin its session
    waited,   \* minutes in the wait it is in
    outbox,   \* frames written and not yet read by the relay
    inbox,    \* frames each side's program has still to read
    room,     \* connections in the room's list, open until they leave it
    quiet     \* minutes since lastActivity

progVars == <<start, kind, pc, resumes, pending, peer, waited>>
roomVars == <<room, quiet>>
vars == <<mode, progVars, outbox, inbox, roomVars>>

Init ==
    /\ mode \in Modes
    /\ start = [x \in Sides |-> 0] /\ kind = [x \in Sides |-> "cli"]
    /\ pc = [x \in Sides |-> "off"] /\ resumes = FALSE
    /\ pending = NoFrame /\ peer = [x \in Sides |-> NoFrame]
    /\ waited = [x \in Sides |-> 0]
    /\ outbox = [c \in Conn |-> << >>] /\ inbox = [x \in Sides |-> << >>]
    /\ room = {} /\ quiet = 0

Me(x) == <<x, start[x]>>
Running(x) == pc[x] \notin {"off", "gone"}
Connected(x) == Running(x) /\ Me(x) \in room
Version(x) == IF kind[x] = "cli" THEN ProtocolVersion ELSE PageVersion

Goto(x, l) ==
    /\ pc' = [pc EXCEPT ![x] = l]
    /\ waited' = [waited EXCEPT ![x] = 0]

(* A program ends, by itself or not; the relay has still to find out.       *)
End(x) ==
    /\ Goto(x, "gone")
    /\ inbox' = [inbox EXCEPT ![x] = << >>]

(* A write on a connection the relay has closed goes nowhere.               *)
Write(x, type, v) ==
    outbox' = IF Me(x) \in room
              THEN [outbox EXCEPT ![Me(x)] =
                       Append(@, [type |-> type, of |-> start[x], v |-> v, late |-> FALSE])]
              ELSE outbox

Next_(x) == Head(inbox[x])
Take(x) == inbox' = [inbox EXCEPT ![x] = Tail(@)]

-----------------------------------------------------------------------------
(* A program starts and dials: AddClient, at most two, or "room full".      *)

FirstState(x) ==
    CASE mode = "live" /\ x = "S" -> "waiting"
      [] mode = "live" /\ x = "R" -> "joining"
      [] mode = "announced" /\ x = "S" -> "announcing"
      [] mode = "announced" /\ x = "R" -> "version"

HasPlaceLate == Cardinality(room) <= 2  \* mutant: off by one

HasPlace == Cardinality(room) < 2

RefusedCounts == quiet' = 0  \* mutant: lastActivity is set before the room is found full

Refused == UNCHANGED quiet

StartProgram(x, k, r) ==
    /\ ~Running(x) /\ start[x] < MaxStarts[x]
    /\ k = "cli" \/ mode = "live" \/ x = "S"
    /\ r => x = "R" /\ k = "cli" /\ mode = "live"
    /\ start' = [start EXCEPT ![x] = @ + 1]
    /\ kind' = [kind EXCEPT ![x] = k]
    /\ peer' = [peer EXCEPT ![x] = NoFrame]
    /\ resumes' = IF x = "R" THEN r ELSE resumes
    /\ pending' = IF x = "S" THEN NoFrame ELSE pending
    /\ IF HasPlace
       THEN room' = room \cup {<<x, start[x] + 1>>} /\ quiet' = 0 /\ Goto(x, FirstState(x))
       ELSE Refused /\ Goto(x, "gone") /\ UNCHANGED room
    /\ UNCHANGED <<mode, outbox, inbox>>

(* Ctrl-C, a crash, a lost network, the end of the session.                 *)
Leave(x) ==
    /\ Running(x) /\ End(x)
    /\ UNCHANGED <<mode, start, kind, resumes, pending, peer, outbox, roomVars>>

(* A connection the relay has closed is noticed behind what it had sent     *)
(* before; download.html does not look at it while it waits for an offer,   *)
(* sender.html not before the user has chosen.                              *)
Heeds(x) == ~(kind[x] = "page" /\ pc[x] \in {"first", "announcing"})

ConnectionLost(x) ==
    /\ Running(x) /\ ~Connected(x) /\ inbox[x] = << >> /\ pc[x] # "session"
    /\ Heeds(x)
    /\ End(x)
    /\ UNCHANGED <<mode, start, kind, resumes, pending, peer, outbox, roomVars>>

-----------------------------------------------------------------------------
(* The live sender: WaitForPeer, or attachWS of live-send.html, which looks *)
(* neither at resume requests nor at the version.                           *)

ReadResume ==
    /\ pc["S"] = "waiting" /\ inbox["S"] # << >> /\ Next_("S").type = "resume"
    /\ pending' = IF kind["S"] = "cli" THEN Next_("S") ELSE pending
    /\ Take("S")
    /\ UNCHANGED <<mode, start, kind, pc, resumes, peer, waited, outbox, roomVars>>

AcceptsAny(m) == TRUE  \* mutant: the version byte is not looked at

Accepts(m) == kind["S"] = "page" \/ m.v = ProtocolVersion

ReadJoin ==
    /\ pc["S"] = "waiting" /\ inbox["S"] # << >> /\ Next_("S").type = "join"
    /\ IF Accepts(Next_("S"))
       THEN /\ Goto("S", IF kind["S"] = "cli" THEN "offering" ELSE "choosing")
            /\ peer' = [peer EXCEPT !["S"] = Next_("S")]
            /\ inbox' = [inbox EXCEPT !["S"] = << >>]
       ELSE End("S") /\ UNCHANGED peer
    /\ UNCHANGED <<mode, start, kind, resumes, pending, outbox, roomVars>>

(* Both read on; so does sender.html, which awaits nothing yet.  The limit  *)
(* of WaitForPeer itself, PeerWait, has no action: see RelayEndsTheWait.    *)
IgnoreOther ==
    /\ inbox["S"] # << >>
    /\ \/ pc["S"] = "waiting" /\ Next_("S").type \notin {"resume", "join"}
       \/ pc["S"] = "announcing" /\ kind["S"] = "page"
    /\ Take("S")
    /\ UNCHANGED <<mode, progVars, outbox, roomVars>>

(* The page's user chooses files only now.                                  *)
Choose ==
    /\ pc["S"] = "choosing" /\ Goto("S", "offering")
    /\ UNCHANGED <<mode, start, kind, resumes, pending, peer, outbox, inbox, roomVars>>

SendOffer ==
    /\ pc["S"] = "offering" /\ Connected("S")
    /\ Write("S", "offer", 0) /\ Goto("S", "session")
    /\ UNCHANGED <<mode, start, kind, resumes, pending, peer, inbox, roomVars>>

(* The live receiver: ConnectLive writes the resume request, then PeerJoin, *)
(* in which the page puts no version.                                       *)
SendResume ==
    /\ pc["R"] = "joining" /\ resumes
    /\ Write("R", "resume", 0) /\ Goto("R", "resumed")
    /\ UNCHANGED <<mode, start, kind, resumes, pending, peer, inbox, roomVars>>

SendJoin ==
    /\ pc["R"] = IF resumes THEN "resumed" ELSE "joining"
    /\ Write("R", "join", IF kind["R"] = "cli" THEN ProtocolVersion ELSE 0)
    /\ Goto("R", "first")
    /\ UNCHANGED <<mode, start, kind, resumes, pending, peer, inbox, roomVars>>

-----------------------------------------------------------------------------
(* openReceiveSession, by its first message, and the page's onmessage,      *)
(* which ignores what it does not know.                                     *)

ReadOffer ==
    /\ pc["R"] = "first" /\ inbox["R"] # << >> /\ Next_("R").type = "offer"
    /\ Goto("R", "session")
    /\ peer' = IF mode = "live" THEN [peer EXCEPT !["R"] = Next_("R")] ELSE peer
    /\ inbox' = [inbox EXCEPT !["R"] = << >>]
    /\ UNCHANGED <<mode, start, kind, resumes, pending, outbox, roomVars>>

ReadUnexpected ==
    /\ pc["R"] = "first" /\ inbox["R"] # << >> /\ Next_("R").type \in {"resume", "join"}
    /\ IF kind["R"] = "cli" THEN End("R") ELSE Take("R") /\ UNCHANGED <<pc, waited>>
    /\ UNCHANGED <<mode, start, kind, resumes, pending, peer, outbox, roomVars>>

(* Nothing on its way will be the message waited for.                       *)
Nothing(x, y) ==
    /\ inbox[x] = << >> /\ \A c \in Conn : outbox[c] = << >>
    /\ Running(y) => inbox[y] = << >>

(* 30 s without a first message.                                            *)
FirstMessageEnds ==
    /\ pc["R"] = "first" /\ kind["R"] = "cli"
    /\ Nothing("R", "S") /\ pc["S"] # "offering"
    /\ End("R")
    /\ UNCHANGED <<mode, start, kind, resumes, pending, peer, outbox, roomVars>>

-----------------------------------------------------------------------------
(* The announced way.  The CLI announces itself at once, the page when its  *)
(* user has chosen.                                                         *)

SendVersion ==
    /\ pc["S"] = "announcing"
    /\ Write("S", "version", Version("S")) /\ Goto("S", "await")
    /\ UNCHANGED <<mode, start, kind, resumes, pending, peer, inbox, roomVars>>

CheckedNot(m) == TRUE  \* mutant: any version is answered with Ready

Checked(m) == m.v = ProtocolVersion

(* Receiver.Connect, and reHandshake in openReceiveSession.                 *)
ReadVersion ==
    /\ pc["R"] \in {"version", "first"} /\ mode = "announced" /\ inbox["R"] # << >>
    /\ Next_("R").type # "offer" \/ pc["R"] = "version"
    /\ IF Next_("R").type = "version" /\ Checked(Next_("R"))
       THEN /\ Write("R", "ready", 0) /\ Goto("R", "first") /\ Take("R")
            /\ peer' = [peer EXCEPT !["R"] = Next_("R")]
       ELSE End("R") /\ UNCHANGED <<outbox, peer>>
    /\ UNCHANGED <<mode, start, kind, resumes, pending, roomVars>>

ConnectEnds ==
    /\ pc["R"] = "version" /\ waited["R"] >= VersionWait
    /\ End("R")
    /\ UNCHANGED <<mode, start, kind, resumes, pending, peer, outbox, roomVars>>

(* WaitForReceiver: anything but Ready is an error; the page waits on.      *)
ReadReady ==
    /\ pc["S"] = "await" /\ inbox["S"] # << >>
    /\ IF Next_("S").type = "ready"
       THEN /\ Goto("S", "offering")
            /\ peer' = [peer EXCEPT !["S"] = Next_("S")]
            /\ inbox' = [inbox EXCEPT !["S"] = << >>]
       ELSE /\ IF kind["S"] = "cli" THEN End("S") ELSE Take("S") /\ UNCHANGED <<pc, waited>>
            /\ UNCHANGED peer
    /\ UNCHANGED <<mode, start, kind, resumes, pending, outbox, roomVars>>

(* 30 s without Ready.                                                      *)
ReadyEnds ==
    /\ pc["S"] = "await" /\ Nothing("S", "R")
    /\ End("S")
    /\ UNCHANGED <<mode, start, kind, resumes, pending, peer, outbox, roomVars>>

-----------------------------------------------------------------------------
(* The relay.                                                               *)

(* Programs that are negotiating or at a prompt do not keep such frames.    *)
Reading(x) == Running(x) /\ pc[x] \notin {"choosing", "offering", "session"}

(* handleWebSocket reads a frame and broadcasts it to the clients of the    *)
(* room, whether its own client is still one of them or not.                *)
Relay(c) ==
    LET m == [Head(outbox[c]) EXCEPT !.late = c \notin room] IN
    /\ outbox[c] # << >>
    /\ outbox' = [outbox EXCEPT ![c] = Tail(@)]
    /\ inbox' = [x \in Sides |->
                    IF Me(x) \in room \ {c} /\ Reading(x)
                    THEN Append(inbox[x], m) ELSE inbox[x]]
    /\ quiet' = 0
    /\ UNCHANGED <<mode, progVars, room>>

(* The handler of a client that lost its place ends before it has read all, *)
(* or its room was not the one its token has now.                           *)
DropFrames(c) ==
    /\ outbox[c] # << >> /\ c \notin room
    /\ outbox' = [outbox EXCEPT ![c] = << >>]
    /\ UNCHANGED <<mode, progVars, inbox, roomVars>>

Alive(c) == Running(c[1]) /\ c = Me(c[1])

RemainingStays(c) == room \ {c}  \* mutant: the other one is not kicked

Remaining(c) == {}

(* RemoveClient, when the handler finds out that its client is gone: the    *)
(* other one is dropped and kicked as well.                                 *)
RemoveClient(c) ==
    /\ c \in room /\ ~Alive(c) /\ outbox[c] = << >>
    /\ room' = Remaining(c)
    /\ UNCHANGED <<mode, progVars, outbox, inbox, quiet>>

ExpiredEmpty == quiet > IdleLimit /\ \A c \in room : ~Alive(c)  \* mutant: only dead rooms

Expired == quiet > IdleLimit

(* cleanupLoop.                                                             *)
Cleanup ==
    /\ room # {} /\ Expired
    /\ room' = {}
    /\ UNCHANGED <<mode, progVars, outbox, inbox, quiet>>

(* The relay stops and starts again: every connection is lost.              *)
RelayRestarts ==
    /\ room # {}
    /\ room' = {} /\ outbox' = [c \in Conn |-> << >>]
    /\ UNCHANGED <<mode, progVars, inbox, quiet>>

(* A minute passes once everything is done that takes seconds.              *)
Brief(x) ==
    \/ pc[x] \in {"joining", "resumed", "offering", "await"}
    \/ pc[x] \in {"first", "announcing"} /\ kind[x] = "cli"
    \/ Running(x) /\ inbox[x] # << >>
    \/ Running(x) /\ ~Connected(x) /\ pc[x] # "session" /\ Heeds(x)
    \/ pc[x] = "version" /\ waited[x] >= VersionWait

Timed(x) == pc[x] = "version" \/ (pc[x] = "waiting" /\ kind[x] = "cli")

Minute ==
    /\ room # {} /\ quiet <= IdleLimit
    /\ \A c \in Conn : outbox[c] = << >>
    /\ \A x \in Sides : ~Brief(x)
    /\ quiet' = quiet + 1
    /\ waited' = [x \in Sides |-> IF Timed(x) THEN waited[x] + 1 ELSE waited[x]]
    /\ UNCHANGED <<mode, start, kind, pc, resumes, pending, peer, outbox, inbox, room>>

-----------------------------------------------------------------------------
SenderStep ==
    \/ ReadResume \/ ReadJoin \/ IgnoreOther \/ SendOffer \/ ReadReady \/ ReadyEnds
    \/ ConnectionLost("S")

ReceiverStep ==
    \/ SendResume \/ SendJoin \/ ReadOffer \/ ReadUnexpected \/ FirstMessageEnds
    \/ ReadVersion \/ ConnectEnds \/ ConnectionLost("R")

RelayStep == \E c \in Conn : Relay(c) \/ DropFrames(c)

User ==
    \/ \E x \in Sides, k \in Kinds, r \in BOOLEAN : StartProgram(x, k, r)
    \/ \E x \in Sides : Leave(x)
    \/ Choose \/ SendVersion

Next ==
    \/ SenderStep \/ ReceiverStep \/ User
    \/ RelayStep \/ Cleanup \/ RelayRestarts \/ Minute
    \/ \E c \in Conn : RemoveClient(c)

Spec == Init /\ [][Next]_vars

(* Programs run on, the relay passes frames on, minutes pass and the        *)
(* cleanup ticker fires.  Users owe nothing, and nothing tells the relay    *)
(* that a client has vanished.                                              *)
Fairness ==
    /\ WF_vars(SenderStep) /\ WF_vars(ReceiverStep) /\ WF_vars(RelayStep)
    /\ WF_vars(SendVersion /\ kind["S"] = "cli")
    /\ WF_vars(Minute) /\ WF_vars(Cleanup)

FairSpec == Spec /\ Fairness

-----------------------------------------------------------------------------
SenderStates == {"off", "waiting", "choosing", "announcing", "await", "offering",
                 "session", "gone"}
ReceiverStates == {"off", "joining", "resumed", "version", "first", "session", "gone"}

(* Every variable keeps its shape; a room lists at most two connections,    *)
(* and of a client started again perhaps the old one.                       *)
TypeOK ==
    /\ mode \in Modes
    /\ start \in [Sides -> Start] /\ kind \in [Sides -> {"cli", "page"}]
    /\ DOMAIN pc = Sides /\ pc["S"] \in SenderStates /\ pc["R"] \in ReceiverStates
    /\ resumes \in BOOLEAN
    /\ pending \in Frame \cup {NoFrame} /\ peer \in [Sides -> Frame \cup {NoFrame}]
    /\ waited \in [Sides -> Nat]
    /\ outbox \in [Conn -> Seq(Frame)] /\ inbox \in [Sides -> Seq(Frame)]
    /\ room \subseteq Conn /\ Cardinality(room) <= 2 /\ quiet \in Nat

(* The resume request a sender acts on is its peer's: a receiver that dies  *)
(* between its resume request and its PeerJoin takes the sender with it     *)
(* (RemoveClient kicks), so no later receiver, who may hold no partial      *)
(* file, is sent the rest of a file it does not have.  Frames that outlived *)
(* their client's place in the room are the exception.                      *)
InSession(x) == pc[x] \in {"offering", "choosing", "session"}

ResumeIsPeers ==
    InSession("S") /\ pending # NoFrame =>
        pending.of = peer["S"].of \/ pending.late \/ peer["S"].late

(* The two sides of one session.                                            *)
Paired ==
    /\ pc["S"] = "session" /\ pc["R"] = "session"
    /\ peer["S"].of = start["R"] /\ peer["R"].of = start["S"]

(* A Go program that makes the check is never in a session with a program   *)
(* of another version: `drop send` with a browser's PeerJoin, `drop         *)
(* receive` with a browser's Version, also when the page asks again.        *)
ChecksFailClosed ==
    Paired /\ Version("S") # Version("R") => mode = "live" /\ kind["S"] = "page"

(* sendP2P waits 30 minutes, the relay closes a room after ten quiet ones:  *)
(* however many receivers come and vanish, are refused, or wait themselves, *)
(* the sender's own limit is never reached; the relay always ends the wait. *)
RelayEndsTheWait == waited["S"] < PeerWait

(* Nobody waits for ever, whichever side vanishes at whatever point and     *)
(* whether the relay notices or not: a deadline of its own or the relay's   *)
(* idle limit releases every program but download.html, which does not look *)
(* at its connection while it waits for an offer.                           *)
Waits(x) ==
    /\ pc[x] \in {"waiting", "choosing", "joining", "resumed", "version", "first", "await",
                  "offering"}
    /\ Heeds(x)

Released == \A x \in Sides : Waits(x) ~> ~Waits(x)

(* protocol.go:29-32 says that a peer of an older version does not          *)
(* understand a resume request "so mixed versions must fail closed on the   *)
(* PeerJoin check".  Only the sender makes that check.                      *)
MixedVersionsFailClosed == Paired => Version("S") = Version("R")
=============================================================================
