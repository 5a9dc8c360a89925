-------------------------------- MODULE Peer --------------------------------
(***************************************************************************)
(* p2p.Peer on both sides of a session, from the agreement on the data      *)
(* channel to the end of both programs: Send with its back-pressure,        *)
(* WaitDrain, Close with its sync.Once, the callbacks OnMessage, OnClose    *)
(* and OnConnectionStateChange, and the programs that use them: SendBatch   *)
(* and CloseTransport, peerReader and the cleanup of a receive session.     *)
(* Data flows from the sender "S" to the receiver "R".                      *)
(*                                                                          *)
(* pion is external: a reliable ordered channel between two buffers, a read *)
(* loop that calls OnMessage one message at a time and OnClose after the    *)
(* last, and a state change to Failed some time after the link or the other *)
(* side is gone.  Messages are numbered in the order they are sent.         *)
(***************************************************************************)
EXTENDS Integers, Sequences

CONSTANTS
    BatchSize,    \* messages of a batch; the last is its SessionEnd
    MaxBatches,   \* bound: batches of the sender
    HighMark,     \* cfg.BackpressureHighMark (8 MiB), in messages
    Window,       \* pion's receive window, in messages
    Capacity      \* capacity of p.incoming (32)

ASSUME SizeAssumption ==
    /\ BatchSize \in Nat \ {0} /\ MaxBatches \in Nat \ {0}
    /\ HighMark \in Nat /\ Window \in Nat \ {0} /\ Capacity \in Nat \ {0}

Sides == {"S", "R"}
Other(p) == IF p = "S" THEN "R" ELSE "S"

VARIABLES
    sPc,        \* the sending program
    sent,       \* messages dc.Send has accepted
    reported,   \* batches SendBatch has returned nil for
    drained,    \* how many had left when WaitDrain last found the buffer empty
    buffer,     \* accepted by dc.Send and not yet acknowledged
    link,       \* the network between the two
    stage,      \* how far each side's Close has come
    reset,      \* each side's closing of the data channel, on its way
    arrived,    \* in the receiver's pion, not yet given to OnMessage
    hand,       \* the message deliver holds between its check and its select
    loopEnded,  \* pion's read loop at the receiver has ended
    incoming,   \* p.incoming of the receiver
    incClosed,  \* p.incClosed of the receiver
    panicked,   \* the receiving program died of a send on a closed channel
    rPc,        \* the receiving program: "reading", then "leaving" of its own and
                \* "left", or "ended" with p.incoming and "done"
    got         \* what it has read

senderVars == <<sPc, sent, reported, drained>>
netVars == <<buffer, link, stage, reset>>
recvVars == <<arrived, hand, loopEnded, incoming, incClosed, panicked, rPc, got>>
vars == <<senderVars, netVars, recvVars>>

Init ==
    /\ sPc = "send" /\ sent = 0 /\ reported = 0 /\ drained = 0
    /\ buffer = << >> /\ link = "up"
    /\ stage = [p \in Sides |-> "open"] /\ reset = [p \in Sides |-> "no"]
    /\ arrived = << >> /\ hand = << >> /\ loopEnded = FALSE
    /\ incoming = << >> /\ incClosed = FALSE /\ panicked = FALSE
    /\ rPc = "reading" /\ got = << >>

EndsBatch(m) == m % BatchSize = 0

-----------------------------------------------------------------------------
(* Close.  Its body runs once, whoever calls it; a later caller waits.      *)

Signalled(p) == stage[p] # "open"                 \* p.closed is closed
DcClosed(p) == stage[p] \in {"dc", "pc", "done"}
PcClosed(p) == stage[p] \in {"pc", "done"}

(* Failed comes when the other side no longer answers.                      *)
Unreachable(p) == link = "broken" \/ PcClosed(Other(p))

Signal(p) == stage' = [stage EXCEPT ![p] = IF @ = "open" THEN "signalled" ELSE @]

CloseDCAndIncoming(p) ==  \* mutant: closeIncoming before pc.Close
    /\ stage[p] = "signalled"
    /\ stage' = [stage EXCEPT ![p] = "dc"]
    /\ reset' = [reset EXCEPT ![p] = "sent"]
    /\ incClosed' = (incClosed \/ p = "R")
    /\ UNCHANGED <<senderVars, buffer, link, arrived, hand, loopEnded, incoming,
                   panicked, rPc, got>>

CloseDC(p) ==
    /\ stage[p] = "signalled"
    /\ stage' = [stage EXCEPT ![p] = "dc"]
    /\ reset' = [reset EXCEPT ![p] = "sent"]
    /\ UNCHANGED <<senderVars, buffer, link, recvVars>>

ClosePC(p) ==
    /\ stage[p] = "dc"
    /\ stage' = [stage EXCEPT ![p] = "pc"]
    /\ UNCHANGED <<senderVars, buffer, link, reset, recvVars>>

(* closeIncoming; nothing reads p.incoming of the sender.                   *)
CloseIncoming(p) ==
    /\ stage[p] = "pc"
    /\ stage' = [stage EXCEPT ![p] = "done"]
    /\ incClosed' = (incClosed \/ p = "R")
    /\ UNCHANGED <<senderVars, buffer, link, reset, arrived, hand, loopEnded,
                   incoming, panicked, rPc, got>>

StateChangeMissed(p) == p \in {} /\ UNCHANGED vars  \* mutant: Failed is ignored

(* OnConnectionStateChange: Failed.                                         *)
StateChange(p) ==
    /\ stage[p] = "open" /\ Unreachable(p)
    /\ Signal(p)
    /\ UNCHANGED <<senderVars, buffer, link, reset, recvVars>>

-----------------------------------------------------------------------------
(* pion and the network.                                                    *)

Connected == link = "up" /\ \A p \in Sides : ~PcClosed(p)

Transmit ==
    /\ Connected /\ buffer # << >> /\ Len(arrived) < Window
    /\ arrived' = Append(arrived, Head(buffer))
    /\ buffer' = Tail(buffer)
    /\ UNCHANGED <<senderVars, link, stage, reset, hand, loopEnded, incoming,
                   incClosed, panicked, rPc, got>>

(* A reset is queued behind the messages; it may outrun the closing side's  *)
(* own pc.Close.                                                            *)
ResetArrives(p) ==
    /\ reset[p] = "sent" /\ link = "up" /\ ~PcClosed(Other(p))
    /\ p = "S" => buffer = << >>
    /\ reset' = [reset EXCEPT ![p] = "arrived"]
    /\ UNCHANGED <<senderVars, buffer, link, stage, recvVars>>

LinkBreaks ==
    /\ link = "up" /\ link' = "broken"
    /\ UNCHANGED <<senderVars, buffer, stage, reset, recvVars>>

(* The read loop sees the other side's reset behind the last message, or    *)
(* the end of its own channel at any time; then it starts OnClose.          *)
LoopEnds ==
    /\ ~loopEnded /\ hand = << >>
    /\ \/ reset["S"] = "arrived" /\ arrived = << >>
       \/ DcClosed("R")
    /\ loopEnded' = TRUE
    /\ UNCHANGED <<senderVars, netVars, arrived, hand, incoming, incClosed, panicked, rPc,
                   got>>

-----------------------------------------------------------------------------
(* The callbacks of the receiver's data channel.                            *)

(* OnMessage, and deliver up to the release of incomingMu.                  *)
OnMessage ==
    /\ ~loopEnded /\ hand = << >> /\ arrived # << >>
    /\ arrived' = Tail(arrived)
    /\ hand' = IF incClosed THEN << >> ELSE <<Head(arrived)>>
    /\ UNCHANGED <<senderVars, netVars, loopEnded, incoming, incClosed, panicked, rPc, got>>

(* The select of deliver: any arm that is ready.                            *)
DeliverPuts ==
    /\ hand # << >> /\ ~incClosed /\ Len(incoming) < Capacity
    /\ incoming' = Append(incoming, hand[1])
    /\ hand' = << >>
    /\ UNCHANGED <<senderVars, netVars, arrived, loopEnded, incClosed, panicked, rPc, got>>

DeliverGivesUpFull ==  \* mutant: a full channel drops, as for candidates
    /\ hand # << >> /\ (Signalled("R") \/ Len(incoming) = Capacity)
    /\ hand' = << >>
    /\ UNCHANGED <<senderVars, netVars, arrived, loopEnded, incoming, incClosed, panicked,
                   rPc, got>>

DeliverGivesUp ==
    /\ hand # << >> /\ Signalled("R")
    /\ hand' = << >>
    /\ UNCHANGED <<senderVars, netVars, arrived, loopEnded, incoming, incClosed, panicked,
                   rPc, got>>

DeliverPanics ==
    /\ hand # << >> /\ incClosed
    /\ panicked' = TRUE /\ link' = "broken"
    /\ UNCHANGED <<senderVars, buffer, stage, reset, arrived, hand, loopEnded,
                   incoming, incClosed, rPc, got>>

OnClose ==
    /\ loopEnded /\ ~incClosed
    /\ incClosed' = TRUE
    /\ UNCHANGED <<senderVars, netVars, arrived, hand, loopEnded, incoming, panicked, rPc,
                   got>>

-----------------------------------------------------------------------------
(* The receiving program: peerReader and what ends it.                      *)

(* After a SessionEnd ReceiveFiles leaves and ReceiveBatches reads on.      *)
Read ==
    /\ rPc = "reading" /\ incoming # << >>
    /\ got' = Append(got, Head(incoming))
    /\ incoming' = Tail(incoming)
    /\ rPc' \in {"reading"} \cup (IF EndsBatch(Head(incoming)) THEN {"leaving"} ELSE {})
    /\ UNCHANGED <<senderVars, netVars, arrived, hand, loopEnded, incClosed, panicked>>

Leave ==
    /\ rPc = "reading" /\ rPc' = "leaving"
    /\ UNCHANGED <<senderVars, netVars, arrived, hand, loopEnded, incoming, incClosed,
                   panicked, got>>

(* p.incoming is closed and empty.                                          *)
ReadEnds ==
    /\ rPc = "reading" /\ incoming = << >> /\ incClosed
    /\ rPc' = "ended"
    /\ UNCHANGED <<senderVars, netVars, arrived, hand, loopEnded, incoming, incClosed,
                   panicked, got>>

(* Five minutes pass only when nothing is on its way.                       *)
ReadTimeout ==
    /\ incoming = << >> /\ hand = << >> /\ arrived = << >>
    /\ buffer = << >> \/ link = "broken"
    /\ sPc # "send"
    /\ Leave

(* A frame that does not decrypt, or an error of the disk.                  *)
ReceiverFails == Leave

(* The deferred cleanup: Close.                                             *)
ReceiverCloses ==
    /\ rPc \in {"leaving", "ended"} /\ stage["R"] = "open"
    /\ Signal("R")
    /\ UNCHANGED <<senderVars, buffer, link, reset, recvVars>>

ReceiverDone ==
    /\ rPc \in {"leaving", "ended"} /\ stage["R"] = "done"
    /\ rPc' = IF rPc = "leaving" THEN "left" ELSE "done"
    /\ UNCHANGED <<senderVars, netVars, arrived, hand, loopEnded, incoming, incClosed,
                   panicked, got>>

-----------------------------------------------------------------------------
(* The sending program: Send in SendBatch, WaitDrain, CloseTransport.       *)

DcOpen == ~DcClosed("S") /\ reset["R"] # "arrived"

MaySendLate == Len(buffer) <= HighMark + 1  \* mutant: one message too many

(* BufferedAmount() <= BackpressureHighMark.                                *)
MaySend == Len(buffer) <= HighMark

(* The batch's last message is followed by WaitDrain.                       *)
Send ==
    /\ sPc = "send" /\ MaySend /\ DcOpen
    /\ sent' = sent + 1
    /\ buffer' = Append(buffer, sent + 1)
    /\ sPc' = IF EndsBatch(sent + 1) THEN "drain" ELSE "send"
    /\ UNCHANGED <<reported, drained, link, stage, reset, recvVars>>

SendFailsUnwatched ==  \* mutant: the back-pressure loop ignores p.closed
    /\ sPc = "send"
    /\ MaySend /\ ~DcOpen
    /\ sPc' = "leave"
    /\ UNCHANGED <<sent, reported, drained, netVars, recvVars>>

(* "peer closed" out of the back-pressure loop, or dc.Send's error.         *)
SendFails ==
    /\ sPc = "send"
    /\ IF MaySend THEN ~DcOpen ELSE Signalled("S")
    /\ sPc' = "leave"
    /\ UNCHANGED <<sent, reported, drained, netVars, recvVars>>

(* BufferedAmount() is 0, the ten seconds are over, or p.closed is closed.  *)
DrainSeen == IF buffer = << >> THEN sent ELSE drained

(* SendBatch returns nil whichever it was.                                  *)
BatchDrained ==
    /\ sPc = "drain"
    /\ sPc' = "prompt" /\ reported' = reported + 1
    /\ drained' = DrainSeen
    /\ UNCHANGED <<sent, netVars, recvVars>>

(* A next batch: IsOpen has been true since the channel opened.             *)
NextBatch ==
    /\ sPc = "prompt" /\ sent < BatchSize * MaxBatches
    /\ sPc' = "send"
    /\ UNCHANGED <<sent, reported, drained, netVars, recvVars>>

Finish ==
    /\ sPc = "prompt"
    /\ sPc' = "leave"
    /\ UNCHANGED <<sent, reported, drained, netVars, recvVars>>

(* WaitDrain of CloseTransport, or of SendBatch after an error.             *)
LastDrain ==
    /\ sPc = "leave"
    /\ sPc' = "closing"
    /\ drained' = DrainSeen
    /\ UNCHANGED <<sent, reported, netVars, recvVars>>

SenderCloses ==
    /\ sPc = "closing" /\ stage["S"] = "open"
    /\ Signal("S")
    /\ UNCHANGED <<senderVars, buffer, link, reset, recvVars>>

SenderDone ==
    /\ sPc = "closing" /\ stage["S"] = "done"
    /\ sPc' = "done"
    /\ UNCHANGED <<sent, reported, drained, netVars, recvVars>>

-----------------------------------------------------------------------------
CloseStep(p) == CloseDC(p) \/ ClosePC(p) \/ CloseIncoming(p)
LoopStep == OnMessage \/ DeliverPuts \/ DeliverGivesUp \/ DeliverPanics \/ LoopEnds
ReceiverStep == Read \/ ReadEnds \/ ReceiverCloses \/ ReceiverDone
SenderStep == Send \/ SendFails \/ BatchDrained \/ LastDrain \/ SenderCloses \/ SenderDone

(* A process that has panicked does nothing more.                           *)
ReceiverSide ==
    ~panicked /\ (\/ CloseStep("R") \/ StateChange("R") \/ LoopStep \/ OnClose
                  \/ ReceiverStep \/ ReadTimeout \/ ReceiverFails)

SenderSide == CloseStep("S") \/ StateChange("S") \/ SenderStep \/ NextBatch \/ Finish

Network == Transmit \/ LinkBreaks \/ \E p \in Sides : ResetArrives(p)

Next == SenderSide \/ ReceiverSide \/ Network

Spec == Init /\ [][Next]_vars

(* Every goroutine runs on; what is on an unbroken link arrives; a side     *)
(* that has lost the other is told Failed; WaitDrain's ten seconds end.     *)
(* Nothing relies on the read timeout or on the user's answer.              *)
FairSpec ==
    /\ Spec
    /\ WF_vars(SenderStep) /\ WF_vars(CloseStep("S")) /\ WF_vars(StateChange("S"))
    /\ WF_vars(Transmit) /\ \A p \in Sides : WF_vars(ResetArrives(p))
    /\ WF_vars(~panicked /\ LoopStep) /\ WF_vars(~panicked /\ OnClose)
    /\ WF_vars(~panicked /\ ReceiverStep)
    /\ WF_vars(~panicked /\ CloseStep("R")) /\ WF_vars(~panicked /\ StateChange("R"))

-----------------------------------------------------------------------------
Numbers == 1 .. BatchSize * MaxBatches

(* The shape of the state.  The buffer holds at most one message more than  *)
(* the high-water mark, the channel and pion's queue no more than they can, *)
(* and deliver one message at a time.                                       *)
TypeOK ==
    /\ sPc \in {"send", "drain", "prompt", "leave", "closing", "done"}
    /\ sent \in Numbers \cup {0} /\ drained \in 0 .. sent
    /\ reported \in Nat /\ reported * BatchSize <= sent
    /\ buffer \in Seq(Numbers) /\ Len(buffer) <= HighMark + 1
    /\ link \in {"up", "broken"}
    /\ stage \in [Sides -> {"open", "signalled", "dc", "pc", "done"}]
    /\ reset \in [Sides -> {"no", "sent", "arrived"}]
    /\ arrived \in Seq(Numbers) /\ Len(arrived) <= Window
    /\ hand \in Seq(Numbers) /\ Len(hand) <= 1
    /\ loopEnded \in BOOLEAN /\ incClosed \in BOOLEAN /\ panicked \in BOOLEAN
    /\ incoming \in Seq(Numbers) /\ Len(incoming) <= Capacity
    /\ rPc \in {"reading", "leaving", "left", "ended", "done"}
    /\ got \in Seq(Numbers)

(* Everything that was sent, from the program that has read it back to the  *)
(* one that sent it.                                                        *)
Flow == got \o incoming \o hand \o arrived \o buffer

(* deliver neither loses, nor doubles, nor reorders a message while the     *)
(* receiver's own peer is open: the flow is 1, 2, ... up to what was sent.  *)
(* Once p.closed is closed the select of deliver may choose that arm for    *)
(* one message and the channel for a later one, so only the order is left.  *)
InOrder ==
    /\ \A i, j \in 1 .. Len(Flow) : i < j => Flow[i] < Flow[j]
    /\ ~Signalled("R") => /\ \A i \in 1 .. Len(Flow) : Flow[i] = i
                          /\ Len(Flow) = sent

(* deliver sends on p.incoming after it has let go of incomingMu, so        *)
(* closeIncoming may close it in between, and the program dies.  That takes *)
(* the end of a Close of the receiver's own peer, which is that of a        *)
(* program that has stopped reading, or of Failed, after the link broke or  *)
(* the sender closed.  A receiver that reads from an open sender never      *)
(* panics: OnClose, which any closing of the channel starts, comes after    *)
(* the last OnMessage.                                                      *)
PanicsOnlyInClose ==
    panicked \/ (hand # << >> /\ incClosed) =>
       stage["R"] = "done" /\ (rPc # "reading" \/ Unreachable("R"))

(* SendBatch always comes back, from the back-pressure loop as well,        *)
(* whichever side closes and whatever breaks.                               *)
SenderReturns == sPc = "send" ~> sPc \in {"prompt", "done"}

(* Once the sender is gone the receiving program ends without its five      *)
(* minutes: p.incoming is closed, behind the last message or by Failed, and *)
(* a Close that has begun is held up by neither incomingMu nor deliver.     *)
ReceiverEnds == sPc = "done" ~> (rPc \in {"left", "done"} \/ panicked)

(* The receiving program stopped reading for a reason of its own.           *)
LeftItself == rPc \in {"leaving", "left"}

(* Failed closed the receiver's peer: the link broke, or the sender closed. *)
CutOff == Signalled("R") /\ (link = "broken" \/ PcClosed("S"))

(* What had left the sender's buffer when WaitDrain returned is read by the *)
(* receiving program, the end of the channel behind it, unless the program  *)
(* stops by itself or Failed comes first.  That is all WaitDrain gives: the *)
(* Close that CloseTransport runs next, with nothing broken, brings Failed  *)
(* about, and deliver may then drop what was drained.                       *)
DrainedArrives ==
    \A n \in Numbers : drained >= n ~> (Len(got) >= n \/ LeftItself \/ CutOff)

(* peer.go:265-266: "Call before Close() so the Complete message isn't      *)
(* dropped."  SendBatch and CloseTransport do call it, and go on when its   *)
(* ten seconds are over: a batch reported as sent is cut off by Close, in   *)
(* the sender's buffer, with the link up and the receiver listening.        *)
CompleteNotDropped ==
    reported * BatchSize = sent /\ link = "up" /\ ~Signalled("R")
        => ~(PcClosed("S") /\ buffer # << >>)
=============================================================================
