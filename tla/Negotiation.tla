---------------------------- MODULE Negotiation ----------------------------
(***************************************************************************)
(* How the two sides of a session agree on a transport: negotiateOrReuse    *)
(* and negotiateSender, openReceiveSession, negotiateReceiver, tailReader,  *)
(* with the goroutines they start: on both sides the one that trickles ICE  *)
(* candidates and on the receiver the one that reads the WebSocket.  WebRTC *)
(* is external: a data channel may open on each side once the answer is     *)
(* applied, and a peer may fail at any time.                                *)
(*                                                                          *)
(* gorilla/websocket allows one writer of a connection at a time.  A        *)
(* candidate goroutine nobody waits for may be inside conn.WriteMessage     *)
(* while the main goroutine writes: gorilla panics when it notices, and     *)
(* what the two wrote may be torn when it does not.                         *)
(*                                                                          *)
(* The files are one: its Metadata (chunks come and go as it does), its     *)
(* Complete, and the SessionEnd, enough for recvFile and receiveBatch,      *)
(* which treat a stray signalling message differently.                      *)
(***************************************************************************)
EXTENDS Integers, Sequences

CONSTANTS
    Buffer,       \* capacity of startWSReader's channel (16)
    MaxExtras     \* bound: ICE candidates found plus reloads of the sender

ASSUME BoundAssumption ==
    Buffer \in Nat \ {0} /\ MaxExtras \in Nat

Side == {"S", "R"}
Other(x) == IF x = "S" THEN "R" ELSE "S"

Stream == <<"Metadata", "Complete", "SessionEnd">>
Signals == {"Version", "Ready", "Offer", "Answer", "OldAnswer", "Cand", "P2PReady", "P2PFail"}
Message == {Stream[i] : i \in 1 .. 3} \cup Signals \cup {"Torn", "error"}

Gen == 1 .. MaxExtras + 1

VARIABLES
    pc,        \* the main goroutine of each side
    ws,        \* messages on the WebSocket towards each side
    wsGone,    \* the WebSocket is closed: after what is in ws, reads fail
    opened,    \* dataChannelOpen of each side's peer is closed (OnOpen ran)
    closed,    \* each side's peer is closed
    expired,   \* each side's negCtx ran out
    answered,  \* the sender has applied the answer
    trickle,   \* each side's candidate goroutine
    found,     \* candidates the peers have found so far
    sPos,      \* how much of the Stream the sender has sent
    restarts,  \* reloads of the sender so far
    dc,        \* data-channel messages towards the receiver
    dcOpen,    \* negotiateReceiver: openCh has fired
    p2pReady,  \* negotiateReceiver: P2PReady was read
    gen,       \* receive sessions that started a reader goroutine
    reader,    \* those goroutines: where each is,
    out,       \* what each has passed on,
    stopped,   \* and whether its stopCh is closed
    peek,      \* receiveBatch reads after a file (TRUE), or recvFile reads
    got        \* how much of the Stream the receiver has taken in

wsVars == <<ws, wsGone>>
peerVars == <<opened, closed, expired, answered, trickle, found>>
senderVars == <<sPos, restarts, dc>>
recvVars == <<dcOpen, p2pReady, gen, reader, out, stopped, peek, got>>
vars == <<pc, wsVars, peerVars, senderVars, recvVars>>

Init ==
    /\ pc = [x \in Side |-> IF x = "S" THEN "offer" ELSE "first"]
    /\ ws = [x \in Side |-> << >>] /\ wsGone = FALSE
    /\ opened = [x \in Side |-> FALSE] /\ closed = [x \in Side |-> FALSE]
    /\ expired = [x \in Side |-> FALSE] /\ answered = FALSE
    /\ trickle = [x \in Side |-> "off"] /\ found = 0
    /\ sPos = 0 /\ restarts = 0 /\ dc = << >>
    /\ dcOpen = FALSE /\ p2pReady = FALSE
    /\ gen = 0 /\ reader = [g \in Gen |-> "off"]
    /\ out = [g \in Gen |-> << >>] /\ stopped = [g \in Gen |-> FALSE]
    /\ peek = FALSE /\ got = 0

Goto(x, l) == pc' = [pc EXCEPT ![x] = l]

(* A write on a WebSocket that is gone is lost or an error; where an error  *)
(* matters the actions say so.  The sender reads only while it negotiates   *)
(* or waits for Ready: what comes at other times is not kept.               *)
Written(x, m) ==
    IF wsGone \/ (x = "R" /\ pc["S"] \notin {"trying", "await"})
    THEN ws ELSE [ws EXCEPT ![Other(x)] = Append(@, m)]

(* A message of the main goroutine, with its candidate goroutine perhaps    *)
(* writing at the same time: one that does not decrypt may come of it.      *)
Sent(x, m) ==
    {Written(x, m)} \cup IF trickle[x] = "writing" THEN {Written(x, "Torn")} ELSE {}

ClosePeer(x) == closed' = [closed EXCEPT ![x] = TRUE]

(* A negotiation is over: what only it looked at is forgotten.              *)
Forget(x) ==
    /\ opened' = [opened EXCEPT ![x] = FALSE]
    /\ expired' = [expired EXCEPT ![x] = FALSE]
    /\ ws' = IF x = "S" THEN [ws EXCEPT !["S"] = << >>] ELSE ws
    /\ UNCHANGED <<wsGone, answered, trickle, found>>

-----------------------------------------------------------------------------
(* The candidate goroutine: a select over a candidate, negCtx.Done and      *)
(* peer.Closed, any of those that are ready.  It is "writing" from the      *)
(* candidate's arrival until conn.WriteMessage returns.  The goroutine of   *)
(* an earlier negotiation is followed until the next one starts.            *)

Cancelled(x) ==
    \/ expired[x] \/ closed[x]
    \/ x = "S" /\ pc[x] # "trying"
    \/ x = "R" /\ (pc[x] # "trying" \/ (dcOpen /\ p2pReady))

TrickleTake(x) ==
    /\ trickle[x] = "select" /\ found + restarts < MaxExtras
    /\ found' = found + 1
    /\ trickle' = [trickle EXCEPT ![x] = "writing"]
    /\ UNCHANGED <<pc, wsVars, opened, closed, expired, answered, senderVars, recvVars>>

TrickleWrite(x) ==
    /\ trickle[x] = "writing"
    /\ ws' = Written(x, "Cand")
    /\ trickle' = [trickle EXCEPT ![x] = "select"]
    /\ UNCHANGED <<pc, wsGone, opened, closed, expired, answered, found, senderVars,
                   recvVars>>

TrickleStop(x) ==
    /\ trickle[x] = "select" /\ Cancelled(x)
    /\ trickle' = [trickle EXCEPT ![x] = "done"]
    /\ UNCHANGED <<pc, wsVars, opened, closed, expired, answered, found, senderVars, recvVars>>

-----------------------------------------------------------------------------
(* The sender.                                                              *)

(* The offer is created and written; if that fails, it is "failing" at once.*)
SendOffer ==
    /\ pc["S"] = "offer"
    /\ \/ /\ ~wsGone
          /\ ws' = Written("S", "Offer")
          /\ trickle' = [trickle EXCEPT !["S"] = "select"]
          /\ Goto("S", "trying")
          /\ UNCHANGED closed
       \/ /\ ClosePeer("S")
          /\ Goto("S", "failing")
          /\ UNCHANGED <<ws, trickle>>
    /\ UNCHANGED <<wsGone, opened, expired, answered, found, senderVars, recvVars>>

SenderReads ==
    /\ pc["S"] = "trying" /\ ws["S"] # << >> /\ Head(ws["S"]) # "Torn"
    /\ answered' = (answered \/ Head(ws["S"]) = "Answer")
    /\ ws' = [ws EXCEPT !["S"] = Tail(@)]
    /\ UNCHANGED <<pc, wsGone, opened, closed, expired, trickle, found, senderVars, recvVars>>

AnswerFails ==
    /\ pc["S"] = "trying" /\ ws["S"] # << >> /\ Head(ws["S"]) \in {"Answer", "OldAnswer"}
    /\ ClosePeer("S") /\ Goto("S", "failing")
    /\ Forget("S")
    /\ UNCHANGED <<senderVars, recvVars>>

(* openCh fires when the channel is open, and also when WaitOpen gave up.   *)
OpenCh(x) == opened[x] \/ expired[x] \/ closed[x]

SenderOpenCh ==
    /\ pc["S"] = "trying" /\ OpenCh("S")
    /\ \/ /\ opened["S"]
          /\ Goto("S", "joining")
          /\ UNCHANGED closed
       \/ /\ ~opened["S"]
          /\ ClosePeer("S") /\ Goto("S", "failing")
    /\ Forget("S")
    /\ UNCHANGED <<senderVars, recvVars>>

(* negCtx.Done or a read error.                                             *)
SenderGivesUp ==
    /\ pc["S"] = "trying"
    /\ \/ expired["S"]
       \/ IF ws["S"] = << >> THEN wsGone ELSE Head(ws["S"]) = "Torn"
    /\ ClosePeer("S") /\ Goto("S", "failing")
    /\ Forget("S")
    /\ UNCHANGED <<senderVars, recvVars>>

(* cancel(), <-trickleDone, and P2PReady.                                   *)
SendP2PReady ==
    /\ pc["S"] = "joining" /\ trickle["S"] = "done"
    /\ \/ /\ ~wsGone
          /\ ws' = Written("S", "P2PReady")
          /\ Goto("S", "p2p")
          /\ UNCHANGED <<wsGone, closed>>
       \/ /\ wsGone
          /\ ClosePeer("S") /\ Goto("S", "dead")
          /\ UNCHANGED wsVars
    /\ UNCHANGED <<opened, expired, answered, trickle, found, senderVars, recvVars>>

(* On failure the candidate goroutine is not waited for.                    *)
SendP2PFail ==
    /\ pc["S"] = "failing"
    /\ ws' \in Sent("S", "P2PFail")
    /\ Goto("S", "ws")
    /\ UNCHANGED <<wsGone, peerVars, senderVars, recvVars>>

StreamWS ==
    /\ pc["S"] = "ws" /\ sPos < 3
    /\ \/ /\ ~wsGone
          /\ ws' \in Sent("S", Stream[sPos + 1])
          /\ sPos' = sPos + 1
          /\ UNCHANGED pc
       \/ wsGone /\ Goto("S", "dead") /\ UNCHANGED <<ws, sPos>>
    /\ UNCHANGED <<wsGone, peerVars, restarts, dc, recvVars>>

(* Over a data channel whose other end is closed a Send still succeeds.     *)
StreamP2P ==
    /\ pc["S"] = "p2p" /\ sPos < 3
    /\ \/ /\ ~closed["S"]
          /\ sPos' = sPos + 1
          /\ dc' = IF closed["R"] THEN dc ELSE Append(dc, Stream[sPos + 1])
          /\ UNCHANGED pc
       \/ closed["S"] /\ Goto("S", "dead") /\ UNCHANGED <<sPos, dc>>
    /\ UNCHANGED <<wsVars, peerVars, restarts, recvVars>>

(* A sender that failed exits; one that is done closes when the user does.  *)
SenderExits ==
    /\ pc["S"] = "dead" \/ (pc["S"] \in {"ws", "p2p"} /\ sPos = 3)
    /\ ~wsGone
    /\ wsGone' = TRUE
    /\ ClosePeer("S") /\ Goto("S", "dead")
    /\ UNCHANGED <<ws, opened, expired, answered, trickle, found, senderVars, recvVars>>

(* The sender's page is reloaded: it announces its version and waits for    *)
(* Ready; what was on its way to it is gone, and its peer with it.          *)
Restart ==
    /\ found + restarts < MaxExtras /\ ~wsGone /\ pc["S"] # "dead"
    /\ restarts' = restarts + 1
    /\ ws' = [Written("S", "Version") EXCEPT !["S"] = << >>]
    /\ Goto("S", "await")
    /\ opened' = [opened EXCEPT !["S"] = FALSE]
    /\ closed' = [closed EXCEPT !["S"] = FALSE]
    /\ expired' = [expired EXCEPT !["S"] = FALSE]
    /\ trickle' = [trickle EXCEPT !["S"] = "off"]
    /\ answered' = FALSE /\ sPos' = 0
    /\ UNCHANGED <<wsGone, found, dc, recvVars>>

(* WaitForReceiver: one message, which has to be Ready, or its timeout.     *)
AwaitReady ==
    /\ pc["S"] = "await"
    /\ \/ /\ ws["S"] # << >>
          /\ Goto("S", IF Head(ws["S"]) = "Ready" THEN "offer" ELSE "dead")
          /\ ws' = [ws EXCEPT !["S"] = Tail(@)]
       \/ ws["S"] = << >> /\ Goto("S", "dead") /\ UNCHANGED ws
    /\ UNCHANGED <<wsGone, peerVars, senderVars, recvVars>>

-----------------------------------------------------------------------------
(* The receiver's goroutine that reads the WebSocket, one per offer.        *)

(* ReadMessage, by whoever calls it.  Once the receiver is on the data      *)
(* channel or has ended, what its reader reads is of no consequence.        *)
Take(m) ==
    \/ /\ ws["R"] # << >> /\ m = Head(ws["R"])
       /\ ws' = [ws EXCEPT !["R"] = Tail(@)]
    \/ ws["R"] = << >> /\ wsGone /\ m = "error" /\ UNCHANGED ws

ReaderReads(g) ==
    /\ reader[g] = "reading" /\ pc["R"] \notin {"p2p", "ok", "dead"}
    /\ \E m \in Message :
          /\ Take(m)
          /\ reader' = [reader EXCEPT ![g] = m]
    /\ UNCHANGED <<pc, wsGone, peerVars, senderVars, dcOpen, p2pReady, gen, out, stopped,
                   peek, got>>

Next_(m) == IF m \in {"error", "Torn"} THEN "done" ELSE "reading"

HasRoomUncounted(g) == Len(out[g]) <= Buffer  \* mutant: one more than the buffer

HasRoom(g) == Len(out[g]) < Buffer

ReaderPasses(g) ==
    /\ reader[g] \in Message
    /\ \/ /\ HasRoom(g)
          /\ out' = [out EXCEPT ![g] = Append(@, reader[g])]
          /\ reader' = [reader EXCEPT ![g] = Next_(reader[g])]
       \/ /\ stopped[g]
          /\ reader' = [reader EXCEPT ![g] = "done"]
          /\ UNCHANGED out
    /\ UNCHANGED <<pc, wsVars, peerVars, senderVars, dcOpen, p2pReady, gen, stopped, peek,
                   got>>

Stop(g) == stopped' = [h \in Gen |-> h = g \/ stopped[h]]

-----------------------------------------------------------------------------
(* The receiver.                                                            *)

(* The offer at the head of ws is still the one the sender waits with.  The *)
(* answer to one from before a reload is applied as any other, but no       *)
(* channel opens with it: it has another peer's credentials.                *)
OfferIsCurrent ==
    /\ pc["S"] = "trying"
    /\ \A i \in 2 .. Len(ws["R"]) : ws["R"][i] \notin {"Version", "Offer"}

AnswerToOffer == IF OfferIsCurrent THEN "Answer" ELSE "OldAnswer"

(* openReceiveSession, by its first message.                                *)
ReceiveFirst ==
    /\ pc["R"] = "first" /\ ws["R"] # << >>
    /\ LET m == Head(ws["R"])
           rest == [ws EXCEPT !["R"] = Tail(@)]
       IN  \/ /\ m = "Version"
              /\ \E w \in Sent("R", "Ready") : ws' = [rest EXCEPT !["S"] = w["S"]]
              /\ UNCHANGED <<pc, opened, closed, expired, trickle, dcOpen, p2pReady, gen,
                             reader, dc, got>>
           \/ /\ m = "Offer"
              /\ \E w \in Sent("R", AnswerToOffer) : ws' = [rest EXCEPT !["S"] = w["S"]]
              /\ gen' = gen + 1
              /\ reader' = [reader EXCEPT ![gen + 1] = "reading"]
              /\ opened' = [opened EXCEPT !["R"] = FALSE]
              /\ closed' = [closed EXCEPT !["R"] = FALSE]
              /\ expired' = [expired EXCEPT !["R"] = FALSE]
              /\ trickle' = [trickle EXCEPT !["R"] = "select"]
              /\ dcOpen' = FALSE /\ p2pReady' = FALSE /\ dc' = << >>
              /\ Goto("R", "trying")
              /\ UNCHANGED got
           \/ /\ m = "P2PFail" /\ Goto("R", "ws")
              /\ ws' = rest
              /\ UNCHANGED <<opened, closed, expired, trickle, dcOpen, p2pReady, gen,
                             reader, dc, got>>
           \/ /\ m = "Metadata" /\ Goto("R", "ws")
              /\ ws' = rest /\ got' = 1
              /\ UNCHANGED <<opened, closed, expired, trickle, dcOpen, p2pReady, gen,
                             reader, dc>>
           \/ /\ m \notin {"Version", "Offer", "P2PFail", "Metadata"} /\ Goto("R", "dead")
              /\ ws' = rest
              /\ UNCHANGED <<opened, closed, expired, trickle, dcOpen, p2pReady, gen,
                             reader, dc, got>>
    /\ UNCHANGED <<wsGone, answered, found, sPos, restarts, out, stopped, peek>>

(* The sender has nothing to send for as long as a read deadline (30 s for  *)
(* the first message, then 5 minutes).                                      *)
SenderIdle == pc["S"] \in {"await", "dead"} \/ sPos = 3

(* The offer does not apply, the read fails or its 30 s run out.            *)
ReceiveFirstFails ==
    /\ pc["R"] = "first"
    /\ \/ ws["R"] = << >> /\ (wsGone \/ SenderIdle)
       \/ ws["R"] # << >> /\ Head(ws["R"]) = "Offer"
    /\ Goto("R", "dead")
    /\ UNCHANGED <<wsVars, peerVars, senderVars, recvVars>>

AgreedEarly == dcOpen  \* mutant: P2PReady is not waited for

Agreed == dcOpen /\ p2pReady

Trying == pc["R"] = "trying" /\ ~Agreed

ReceiverOpenCh ==
    /\ Trying /\ ~dcOpen /\ OpenCh("R")
    /\ dcOpen' = TRUE
    /\ UNCHANGED <<pc, wsVars, peerVars, senderVars, p2pReady, gen, reader, out, stopped,
                   peek, got>>

(* A signal of the reader goroutine.  One that is not expected here, a      *)
(* Version too, is dropped.                                                 *)
ReceiverSignal ==
    /\ Trying /\ out[gen] # << >>
    /\ out' = [out EXCEPT ![gen] = Tail(@)]
    /\ LET m == Head(out[gen])
       IN  \/ /\ m = "P2PReady" /\ p2pReady' = TRUE
              /\ UNCHANGED <<pc, wsVars, peerVars, dcOpen, stopped>>
           \/ /\ m = "P2PFail" /\ ClosePeer("R") /\ Goto("R", "tail")
              /\ Forget("R") /\ dcOpen' = FALSE /\ p2pReady' = FALSE
              /\ UNCHANGED stopped
           \/ /\ m \in {"error", "Torn"}
              /\ ClosePeer("R") /\ Stop(gen) /\ Goto("R", "dead")
              /\ Forget("R") /\ dcOpen' = FALSE /\ p2pReady' = FALSE
           \/ /\ m \notin {"P2PReady", "P2PFail", "error", "Torn"}
              /\ UNCHANGED <<pc, wsVars, peerVars, dcOpen, p2pReady, stopped>>
    /\ UNCHANGED <<senderVars, gen, reader, peek, got>>

GiveUpToDead == "dead"  \* mutant: the receiver's own timeout is an error

GiveUpToWS == "ws"  \* mutant: the receiver reads the connection itself

GiveUpTo == "tail"

ReceiverGivesUp ==
    /\ Trying /\ expired["R"]
    /\ ClosePeer("R") /\ Goto("R", GiveUpTo)
    /\ Forget("R") /\ dcOpen' = FALSE /\ p2pReady' = FALSE
    /\ UNCHANGED <<senderVars, gen, reader, out, stopped, peek, got>>

ReceiverAgrees ==
    /\ pc["R"] = "trying" /\ Agreed /\ trickle["R"] = "done"
    /\ Stop(gen) /\ Goto("R", "p2p")
    /\ Forget("R") /\ dcOpen' = FALSE /\ p2pReady' = FALSE
    /\ UNCHANGED <<closed, senderVars, gen, reader, out, peek, got>>

(* recvFile and receiveBatch take m.                                        *)
InFile(m) ==
    \/ /\ m = "Metadata" /\ got' = 1
       /\ UNCHANGED <<pc, peek>>
    \/ /\ m = "Complete" /\ got = 1 /\ got' = 2 /\ peek' = TRUE
       /\ UNCHANGED pc
    \/ /\ \/ m \in {"SessionEnd", "error", "Torn"}
          \/ m = "Complete" /\ got # 1
       /\ Goto("R", "dead") /\ UNCHANGED <<peek, got>>
    \/ /\ m \in Signals /\ m # "Version"
       /\ UNCHANGED <<pc, peek, got>>

AfterFile(m) ==
    \/ /\ m = "SessionEnd" /\ got' = 3 /\ Goto("R", "ok")
       /\ UNCHANGED peek
    \/ /\ m = "Metadata" /\ got' = 1 /\ peek' = FALSE
       /\ UNCHANGED pc
    \/ /\ m = "error" /\ Goto("R", "ok") /\ UNCHANGED <<peek, got>>
    \/ /\ m \in Signals \cup {"Complete", "Torn"} /\ m # "Version"
       /\ Goto("R", "dead") /\ UNCHANGED <<peek, got>>

RehandshakeIgnored(m) ==  \* mutant: a Version is ignored as other signals are
    m = "Version" /\ UNCHANGED <<pc, peek, got>>

(* A Version in either place: Ready, clean-up, and a new session.           *)
Rehandshake(m) ==
    /\ m = "Version"
    /\ got' = 0 /\ peek' = FALSE /\ Goto("R", "first")

Consume(m) ==
    \/ ~peek /\ InFile(m) /\ UNCHANGED stopped
    \/ peek /\ AfterFile(m) /\ UNCHANGED stopped
    \/ Rehandshake(m) /\ Stop(gen)

AndReady(m, w) ==
    IF m = "Version" THEN {[w EXCEPT !["S"] = v["S"]] : v \in Sent("R", "Ready")} ELSE {w}

ReadTail ==
    /\ pc["R"] = "tail" /\ out[gen] # << >>
    /\ Consume(Head(out[gen]))
    /\ out' = [out EXCEPT ![gen] = Tail(@)]
    /\ ws' \in AndReady(Head(out[gen]), ws)
    /\ UNCHANGED <<wsGone, peerVars, senderVars, dcOpen, p2pReady, gen, reader>>

ReadWS ==
    /\ pc["R"] = "ws"
    /\ \/ /\ ws["R"] # << >> /\ Consume(Head(ws["R"]))
          /\ ws' \in AndReady(Head(ws["R"]), [ws EXCEPT !["R"] = Tail(@)])
       \/ ws["R"] = << >> /\ wsGone /\ Consume("error") /\ UNCHANGED ws
    /\ UNCHANGED <<wsGone, peerVars, senderVars, dcOpen, p2pReady, gen, reader, out>>

(* Messages() of a closed peer ends, what was still on its way is lost.     *)
ReadP2P ==
    /\ pc["R"] = "p2p"
    /\ \/ dc # << >> /\ Consume(Head(dc)) /\ dc' = Tail(dc)
       \/ closed["R"] /\ Consume("error") /\ dc' = << >>
    /\ UNCHANGED <<wsVars, peerVars, sPos, restarts, dcOpen, p2pReady, gen, reader, out>>

(* wsReader and peerReader have a deadline, tailReader has none.            *)
ReadDeadline ==
    /\ SenderIdle
    /\ \/ pc["R"] = "ws" /\ ws["R"] = << >>
       \/ pc["R"] = "p2p" /\ dc = << >>
    /\ Goto("R", "dead")
    /\ UNCHANGED <<wsVars, peerVars, senderVars, recvVars>>

(* The receiver has ended, its process and connection with it.              *)
ReceiverExits ==
    /\ pc["R"] \in {"ok", "dead"} /\ ~wsGone
    /\ wsGone' = TRUE /\ ClosePeer("R")
    /\ UNCHANGED <<pc, ws, opened, expired, answered, trickle, found, senderVars, recvVars>>

(* What the main goroutine of x writes next without waiting for its         *)
(* candidate goroutine: the fallback and what is streamed after it, or the  *)
(* answer to a Version or an Offer.                                         *)
WritesNext(x) ==
    IF x = "S"
    THEN pc["S"] = "failing" \/ (pc["S"] = "ws" /\ sPos < 3)
    ELSE \/ /\ pc["R"] \in {"first", "ws"} /\ ws["R"] # << >>
            /\ \/ Head(ws["R"]) = "Version"
               \/ Head(ws["R"]) = "Offer" /\ pc["R"] = "first"
         \/ pc["R"] = "tail" /\ out[gen] # << >> /\ Head(out[gen]) = "Version"

(* gorilla notices two writers and panics: the program is gone, and its     *)
(* connection with it.                                                      *)
ConcurrentWrite(x) ==
    /\ trickle[x] = "writing" /\ WritesNext(x)
    /\ trickle' = [trickle EXCEPT ![x] = "done"]
    /\ wsGone' = TRUE /\ ClosePeer(x) /\ Goto(x, "dead")
    /\ UNCHANGED <<ws, opened, expired, answered, found, senderVars, recvVars>>

-----------------------------------------------------------------------------
(* The network and time.                                                    *)

(* Once the answer is applied the two ends open, each in its own time.      *)
Opens(x) ==
    /\ answered /\ pc[x] = "trying" /\ pc[Other(x)] \in {"trying", "joining", "p2p"}
    /\ ~opened[x] /\ \A y \in Side : ~closed[y]
    /\ opened' = [opened EXCEPT ![x] = TRUE]
    /\ UNCHANGED <<pc, wsVars, closed, expired, answered, trickle, found, senderVars,
                   recvVars>>

(* A peer notices that the connection failed, or that the other end closed. *)
PeerFails(x) ==
    /\ ~closed[x]
    /\ \/ x = "S" /\ pc[x] \in {"trying", "joining", "p2p"}
       \/ x = "R" /\ pc[x] \in {"trying", "p2p"}
    /\ ClosePeer(x)
    /\ UNCHANGED <<pc, wsVars, opened, expired, answered, trickle, found, senderVars,
                   recvVars>>

HasTimeoutNot(x) == FALSE  \* mutant: no timeout on the negotiation

(* negCtx runs out, the receiver's after the sender's: it starts later and  *)
(* is as long.                                                              *)
HasTimeout(x) == x = "R" => pc["S"] # "trying" \/ expired["S"]

TimeOut(x) ==
    /\ pc[x] = "trying" /\ ~expired[x] /\ HasTimeout(x)
    /\ expired' = [expired EXCEPT ![x] = TRUE]
    /\ UNCHANGED <<pc, wsVars, opened, closed, answered, trickle, found, senderVars, recvVars>>

(* The WebSocket breaks: a suffix of what is under way is lost.             *)
LoseWS ==
    /\ ~wsGone
    /\ wsGone' = TRUE
    /\ \E n \in 0 .. Len(ws["R"]) : ws' = [ws EXCEPT !["R"] = SubSeq(@, 1, n)]
    /\ UNCHANGED <<pc, peerVars, senderVars, recvVars>>

-----------------------------------------------------------------------------
SenderStep ==
    \/ SendOffer \/ SenderReads \/ AnswerFails \/ SenderOpenCh \/ SenderGivesUp
    \/ SendP2PReady \/ SendP2PFail \/ StreamWS \/ StreamP2P

ReceiverStep ==
    \/ ReceiveFirst \/ ReceiverOpenCh \/ ReceiverSignal \/ ReceiverGivesUp
    \/ ReceiverAgrees \/ ReadTail \/ ReadWS \/ ReadP2P

TrickleStep(x) == TrickleTake(x) \/ TrickleWrite(x) \/ TrickleStop(x)

ReaderStep(g) == ReaderReads(g) \/ ReaderPasses(g)

Next ==
    \/ SenderStep \/ SenderExits \/ Restart \/ AwaitReady
    \/ ReceiverStep \/ ReceiveFirstFails \/ ReadDeadline \/ ReceiverExits
    \/ \E x \in Side : TrickleStep(x) \/ ConcurrentWrite(x)
    \/ \E x \in Side : Opens(x) \/ PeerFails(x) \/ TimeOut(x)
    \/ \E g \in Gen : ReaderStep(g)
    \/ LoseWS

Spec == Init /\ [][Next]_vars

(* Every goroutine runs on while it can, and timers fire.                   *)
Fairness ==
    /\ WF_vars(SenderStep) /\ WF_vars(ReceiverStep)
    /\ \A x \in Side : WF_vars(TrickleStep(x)) /\ WF_vars(TimeOut(x))
    /\ \A g \in Gen : WF_vars(ReaderStep(g))

FairSpec == Spec /\ Fairness

-----------------------------------------------------------------------------
(* Properties.                                                              *)

(* Every variable keeps its shape; only started reader goroutines run.      *)
TypeOK ==
    /\ pc["S"] \in {"offer", "trying", "joining", "failing", "ws", "p2p", "await", "dead"}
    /\ pc["R"] \in {"first", "trying", "tail", "ws", "p2p", "ok", "dead"}
    /\ DOMAIN pc = Side
    /\ ws \in [Side -> Seq(Message \ {"error"})] /\ wsGone \in BOOLEAN
    /\ opened \in [Side -> BOOLEAN] /\ closed \in [Side -> BOOLEAN]
    /\ expired \in [Side -> BOOLEAN] /\ answered \in BOOLEAN
    /\ trickle \in [Side -> {"off", "select", "writing", "done"}]
    /\ found \in 0 .. MaxExtras
    /\ sPos \in 0 .. 3 /\ restarts \in 0 .. MaxExtras
    /\ dc \in Seq({Stream[i] : i \in 1 .. 3})
    /\ dcOpen \in BOOLEAN /\ p2pReady \in BOOLEAN
    /\ gen \in 0 .. MaxExtras + 1
    /\ reader \in [Gen -> {"off", "reading", "done"} \cup Message]
    /\ \A g \in Gen : reader[g] # "off" => g <= gen
    /\ out \in [Gen -> Seq(Message)] /\ \A g \in Gen : Len(out[g]) <= Buffer
    /\ stopped \in [Gen -> BOOLEAN]
    /\ peek \in BOOLEAN /\ got \in 0 .. 3

(* The two sides never part ways: while the sender streams over the         *)
(* WebSocket the receiver never settles on the data channel, whichever      *)
(* timer fires first, whenever the channel opens and whoever reloads.       *)
NoSplit == ~(pc["S"] = "ws" /\ pc["R"] = "p2p")

(* Negotiating ends, with an agreement or a fallback, on both sides.        *)
NegotiationEnds == \A x \in Side : pc[x] = "trying" ~> pc[x] # "trying"

(* What is streamed over the WebSocket after a failed negotiation arrives:  *)
(* from P2PFail on, the receiver comes to take in the whole batch,          *)
(* although its own timeout may come before P2PFail and signals are mixed   *)
(* with the files.  It does not when the connection ends, the sender is     *)
(* reloaded or the receiver could not apply the offer, nor when the         *)
(* candidate goroutine nobody waits for is still at work: it writes at the  *)
(* same time as the sender (which then panics, and the connection ends, or  *)
(* sends a torn message), or between Complete and SessionEnd (receiveBatch  *)
(* then gives up).                                                          *)
TornWrite == \E i \in 1 .. Len(ws["R"]) : ws["R"][i] = "Torn"

StrayCandidate == sPos = 2 /\ ws["R"] # << >> /\ ws["R"][Len(ws["R"])] = "Cand"

FallbackArrives ==
    pc["S"] = "failing" ~>
       \/ got = 3 \/ wsGone \/ restarts > 0
       \/ TornWrite \/ StrayCandidate
       \/ pc["R"] = "dead" /\ gen = 0

(* Nothing of the session before a reload counts in the one after it: the   *)
(* receiver is never further than the sender, unless it still has to read   *)
(* the Version that announces the reload, or will never get to read it:     *)
(* the connection is gone, or, from the second reload on, the reader that a *)
(* Version has stopped takes the next one and drops it.                     *)
VersionAhead ==
    \/ wsGone
    \/ \E i \in 1 .. Len(ws["R"]) : ws["R"][i] = "Version"
    \/ gen > 0 /\ (reader[gen] = "Version" \/ \E i \in 1 .. Len(out[gen]) : out[gen][i] = "Version")

VersionTaken == restarts > 1 /\ \E g \in Gen : stopped[g]

NoLeftovers == pc["R"] \in {"tail", "ws"} /\ got > sPos => VersionAhead \/ VersionTaken

(* "one goroutine reads conn; gorilla panics on multiple readers"           *)
(* (signaling.go): the reader goroutine of a negotiation that fell back     *)
(* stays the only one in ReadMessage, since the receiver goes on through    *)
(* tailReader.  A reload of the sender is the exception: the goroutine has  *)
(* passed the Version on and looks at stopCh only after its next read,      *)
(* while the receiver reads the next session's first message itself.        *)
MainReads == pc["R"] \in {"first", "ws"}

OneReader ==
    restarts = 0 => \A g \in Gen : reader[g] = "reading" => ~MainReads /\ g = gen
=============================================================================
