----------------------------- MODULE PeerProofs -----------------------------
(***************************************************************************)
(* Peer.tla for every size of batches, buffers and channels: the shape of   *)
(* the state, that the flow of messages stays in order, and that only a     *)
(* Close of its own can make the receiving program panic.                   *)
(***************************************************************************)
EXTENDS Peer, SequenceTheorems, TLAPS

-----------------------------------------------------------------------------
(* Arithmetic of batches.                                                   *)

(* A product is at least its first factor.                                  *)
LEMMA ProductBound ==
    ASSUME NEW b \in Nat \ {0}, NEW d \in Int, d >= 1
    PROVE  b * d >= b
<1>1. b * d = b * (d - 1) + b
  BY SMT
<1>2. b * (d - 1) >= 0
  BY SMT
<1> QED BY <1>1, <1>2, SMT

(* The last message of a batch is the one whose number is a multiple of the *)
(* batch's size.                                                            *)
LEMMA LastOfBatch ==
    ASSUME NEW b \in Nat \ {0}, NEW r \in Nat, NEW k \in 1 .. b
    PROVE  (r * b + k) % b = 0 <=> k = b
<1> DEFINE n == r * b + k
           q == n \div b
           m == n % b
<1>1. n \in Int /\ r * b \in Int
  BY SMT
<1>2. q \in Int /\ m \in 0 .. b - 1 /\ n = b * q + m
  BY <1>1, SMT
<1> HIDE DEF q, m
<1>3. b * (q - r) = k - m
  <2>1. b * (q - r) = b * q - b * r /\ b * r = r * b
    BY <1>2, SMT
  <2> QED BY <2>1, <1>2, <1>1, SMT
<1>4. q - r <= 1
  <2> SUFFICES ASSUME q - r >= 2 PROVE FALSE
    BY <1>2, SMT
  <2>1. b * (q - r - 1) >= b
    BY ProductBound, <1>2, SMT
  <2>2. b * (q - r) = b * (q - r - 1) + b
    BY <1>2, SMT
  <2> QED BY <2>1, <2>2, <1>3, <1>2, SMT
<1>5. q - r >= 0
  <2> SUFFICES ASSUME q - r <= -1 PROVE FALSE
    BY <1>2, SMT
  <2>1. b * (r - q) >= b
    BY ProductBound, <1>2, SMT
  <2>2. b * (q - r) = -(b * (r - q))
    BY <1>2, SMT
  <2> QED BY <2>1, <2>2, <1>3, <1>2, SMT
<1>6. CASE q - r = 0
  <2>1. b * (q - r) = 0
    BY <1>6, SMT
  <2> QED BY <2>1, <1>3, <1>2, SMT DEF m
<1>7. CASE q - r = 1
  <2>1. b * (q - r) = b
    BY <1>7, SMT
  <2> QED BY <2>1, <1>3, <1>2, SMT DEF m
<1> QED BY <1>4, <1>5, <1>6, <1>7, <1>2, SMT

-----------------------------------------------------------------------------
(* Type correctness.                                                        *)

(* Where the sender is in its batches: what TypeOK needs to be inductive.   *)
Counts ==
    /\ reported <= MaxBatches
    /\ sPc = "send" => /\ reported < MaxBatches
                       /\ sent < (reported + 1) * BatchSize
    /\ sPc = "drain" => /\ reported < MaxBatches
                        /\ sent = (reported + 1) * BatchSize
    /\ sPc = "prompt" => sent = reported * BatchSize

TypeInv == TypeOK /\ Counts

(* A number of the batches still to be completed is within all of them.     *)
LEMMA WithinBatches ==
    ASSUME NEW r \in Nat, r < MaxBatches
    PROVE  /\ (r + 1) * BatchSize \in Nat
           /\ (r + 1) * BatchSize = r * BatchSize + BatchSize
           /\ r * BatchSize \in Nat
           /\ (r + 1) * BatchSize <= BatchSize * MaxBatches
<1> USE SizeAssumption
<1>1. /\ (r + 1) * BatchSize \in Nat /\ r * BatchSize \in Nat
      /\ (r + 1) * BatchSize = r * BatchSize + BatchSize
  BY SMT
<1>2. BatchSize * MaxBatches = (r + 1) * BatchSize + BatchSize * (MaxBatches - r - 1)
  BY SMT
<1>3. BatchSize * (MaxBatches - r - 1) >= 0
  BY SMT
<1> QED BY <1>1, <1>2, <1>3, SMT

LEMMA TypeInit == Init => TypeInv
<1> USE SizeAssumption DEF Init, TypeInv, Counts
<1> SUFFICES ASSUME Init PROVE TypeInv
  OBVIOUS
<1>1. (0 + 1) * BatchSize = BatchSize /\ 0 * BatchSize = 0
  BY SMT
<1>2. /\ << >> \in Seq(Numbers) /\ Len(<< >>) = 0
  BY EmptySeq
<1>3. TypeOK
  <2>1. /\ sent \in Numbers \cup {0} /\ drained \in 0 .. sent
        /\ reported \in Nat /\ reported * BatchSize <= sent
    BY <1>1, SMT
  <2>2. /\ buffer \in Seq(Numbers) /\ Len(buffer) <= HighMark + 1
        /\ arrived \in Seq(Numbers) /\ Len(arrived) <= Window
        /\ hand \in Seq(Numbers) /\ Len(hand) <= 1
        /\ incoming \in Seq(Numbers) /\ Len(incoming) <= Capacity
        /\ got \in Seq(Numbers)
    BY <1>2, SMT
  <2> QED BY <2>1, <2>2 DEF TypeOK, Sides
<1>4. Counts
  BY <1>1, SMT
<1> QED BY <1>3, <1>4

(* A message is sent: the batch goes on, or it was its last.                *)
LEMMA TypeSend == TypeInv /\ Send => TypeInv'
<1> SUFFICES ASSUME TypeInv, Send PROVE TypeInv'
  OBVIOUS
<1> USE SizeAssumption
<1>1. /\ sPc = "send" /\ reported \in Nat /\ reported < MaxBatches /\ sent \in Nat
      /\ reported * BatchSize <= sent /\ sent < (reported + 1) * BatchSize
  BY SMT DEF TypeInv, TypeOK, Counts, Send, Numbers
<1> DEFINE k == sent + 1 - reported * BatchSize
<1>2. k \in 1 .. BatchSize /\ sent + 1 = reported * BatchSize + k
  BY <1>1, WithinBatches, SMT
<1>3. sent + 1 \in Numbers
  BY <1>1, <1>2, WithinBatches, SMT DEF Numbers
<1>4. EndsBatch(sent + 1) <=> k = BatchSize
  <2>1. (reported * BatchSize + k) % BatchSize = 0 <=> k = BatchSize
    <3>1. BatchSize \in Nat \ {0} /\ reported \in Nat /\ k \in 1 .. BatchSize
      BY <1>1, <1>2
    <3> HIDE DEF k
    <3> QED BY <3>1, LastOfBatch, Zenon
  <2>2. EndsBatch(sent + 1) <=> (reported * BatchSize + k) % BatchSize = 0
    <3> HIDE DEF k
    <3> QED BY <1>2 DEF EndsBatch
  <2> QED BY <2>1, <2>2
<1>5. buffer' \in Seq(Numbers) /\ Len(buffer') <= HighMark + 1
  BY <1>3, AppendProperties, SMT DEF TypeInv, TypeOK, Send, MaySend
<1>6. Counts'
  BY <1>1, <1>2, <1>4, WithinBatches, SMT DEF Counts, Send
<1>7. sPc' \in {"send", "drain"} /\ sent' = sent + 1 /\ drained' = drained /\ reported' = reported
  BY DEF Send
<1>8. drained' \in 0 .. sent' /\ sent' \in Numbers \cup {0} /\ reported' * BatchSize <= sent'
  BY <1>1, <1>3, <1>7, SMT DEF TypeInv, TypeOK
<1> QED BY <1>1, <1>3, <1>5, <1>6, <1>7, <1>8 DEF TypeInv, TypeOK, Send, netVars, recvVars

(* A step that leaves the sending program where it is keeps Counts, and one *)
(* that leaves the messages in their places keeps their shape.              *)
Places == <<buffer, arrived, hand, incoming, got>>

LEMMA TypeSender ==
    ASSUME TypeInv,
           \/ SendFails \/ BatchDrained \/ NextBatch \/ Finish
           \/ LastDrain \/ SenderCloses \/ SenderDone
    PROVE  TypeInv'
<1> USE SizeAssumption DEF TypeInv
<1>1. DrainSeen \in 0 .. sent /\ sent \in Nat /\ reported \in Nat
  BY SMT DEF TypeOK, DrainSeen, Numbers
<1>2. CASE SendFails
  BY <1>2, SMT DEF TypeOK, Counts, SendFails, netVars, recvVars
<1>3. CASE BatchDrained
  <2>1. reported < MaxBatches /\ sent = (reported + 1) * BatchSize
    BY <1>3 DEF Counts, BatchDrained
  <2>2. Counts' /\ reported' \in Nat /\ reported' * BatchSize <= sent' /\ sent' \in Nat
    BY <2>1, <1>1, <1>3, SMT DEF Counts, BatchDrained
  <2> QED BY <2>2, <1>1, <1>3 DEF TypeOK, BatchDrained, netVars, recvVars
<1>4. CASE NextBatch
  <2>1. sent = reported * BatchSize /\ sent < BatchSize * MaxBatches /\ reported <= MaxBatches
    BY <1>4 DEF Counts, NextBatch
  <2>2. reported # MaxBatches
    BY <2>1, SMT
  <2>3. reported < MaxBatches
    BY <2>1, <2>2, <1>1, SMT
  <2>4. sent < (reported + 1) * BatchSize
    BY <2>1, <2>3, <1>1, WithinBatches, SMT
  <2> QED BY <2>3, <2>4, <1>4, SMT DEF TypeOK, Counts, NextBatch, netVars, recvVars
<1>5. CASE Finish
  BY <1>5, SMT DEF TypeOK, Counts, Finish, netVars, recvVars
<1>6. CASE LastDrain
  BY <1>6, <1>1, SMT DEF TypeOK, Counts, LastDrain, netVars, recvVars
<1>7. CASE SenderCloses
  BY <1>7, SMT DEF TypeOK, Counts, SenderCloses, Signal, Sides, senderVars, recvVars
<1>8. CASE SenderDone
  BY <1>8, SMT DEF TypeOK, Counts, SenderDone, netVars, recvVars
<1> QED BY <1>2, <1>3, <1>4, <1>5, <1>6, <1>7, <1>8

(* The receiving program stops reading, of its own or because of the end.   *)
Stops == Leave \/ ReadEnds

(* Steps that only move stages, flags and the receiving program.            *)
LEMMA TypeFlags ==
    ASSUME TypeInv,
           \/ \E p \in Sides : CloseStep(p) \/ StateChange(p) \/ ResetArrives(p)
           \/ LinkBreaks \/ LoopEnds \/ DeliverPanics \/ OnClose
           \/ Stops \/ ReceiverCloses \/ ReceiverDone
    PROVE  TypeInv'
<1> USE DEF TypeInv
<1>1. UNCHANGED <<senderVars, Places>>
  BY DEF CloseStep, CloseDC, ClosePC, CloseIncoming, StateChange, ResetArrives, LinkBreaks,
         LoopEnds, DeliverPanics, OnClose, Stops, Leave, ReadEnds, ReceiverCloses,
         ReceiverDone, senderVars, netVars, recvVars, Places
<1>2. Counts'
  BY <1>1 DEF Counts, senderVars
<1> DEFINE Flags == /\ link \in {"up", "broken"}
                    /\ loopEnded \in BOOLEAN /\ incClosed \in BOOLEAN /\ panicked \in BOOLEAN
                    /\ rPc \in {"reading", "leaving", "left", "ended", "done"}
                    /\ stage \in [Sides -> {"open", "signalled", "dc", "pc", "done"}]
                    /\ reset \in [Sides -> {"no", "sent", "arrived"}]
<1>3. Flags
  BY DEF TypeOK
<1>4. Flags'
  <2> HIDE DEF TypeInv
  <2>1. ASSUME NEW p \in Sides, CloseStep(p) PROVE Flags'
    <3>1. CASE CloseDC(p)
      BY <1>3, <3>1 DEF CloseDC, recvVars
    <3>2. CASE ClosePC(p)
      BY <1>3, <3>2 DEF ClosePC, recvVars
    <3>3. CASE CloseIncoming(p)
      BY <1>3, <3>3 DEF CloseIncoming
    <3> QED BY <2>1, <3>1, <3>2, <3>3 DEF CloseStep
  <2>2. ASSUME NEW p \in Sides, StateChange(p) PROVE Flags'
    BY <1>3, <2>2 DEF StateChange, Signal, recvVars
  <2>3. ASSUME NEW p \in Sides, ResetArrives(p) PROVE Flags'
    BY <1>3, <2>3 DEF ResetArrives, recvVars
  <2>4. CASE LinkBreaks
    BY <1>3, <2>4 DEF LinkBreaks, recvVars
  <2>5. CASE LoopEnds
    BY <1>3, <2>5 DEF LoopEnds, netVars
  <2>6. CASE DeliverPanics
    BY <1>3, <2>6 DEF DeliverPanics
  <2>7. CASE OnClose
    BY <1>3, <2>7 DEF OnClose, netVars
  <2>8. CASE Stops
    BY <1>3, <2>8 DEF Stops, Leave, ReadEnds, netVars
  <2>9. CASE ReceiverCloses
    BY <1>3, <2>9 DEF ReceiverCloses, Signal, recvVars
  <2>10. CASE ReceiverDone
    BY <1>3, <2>10 DEF ReceiverDone, netVars
  <2> HIDE DEF Flags
  <2> QED BY <2>1, <2>2, <2>3, <2>4, <2>5, <2>6, <2>7, <2>8, <2>9, <2>10
<1> QED BY <1>1, <1>2, <1>4 DEF TypeOK, Places, senderVars

(* Steps that move a message.                                               *)
LEMMA TypeMoves ==
    ASSUME TypeInv, Transmit \/ OnMessage \/ DeliverPuts \/ DeliverGivesUp \/ Read
    PROVE  TypeInv'
<1> USE SizeAssumption DEF TypeInv
<1>1. Counts'
  BY DEF Counts, Transmit, OnMessage, DeliverPuts, DeliverGivesUp, Read, senderVars
<1>2. CASE Transmit
  <2>1. Head(buffer) \in Numbers /\ Tail(buffer) \in Seq(Numbers)
        /\ Len(Tail(buffer)) = Len(buffer) - 1 /\ Len(buffer) \in Nat
    BY <1>2, HeadTailProperties, LenProperties DEF TypeOK, Transmit
  <2>2. arrived' \in Seq(Numbers) /\ Len(arrived') <= Window
    BY <1>2, <2>1, AppendProperties, LenProperties, SMT DEF TypeOK, Transmit
  <2>3. buffer' \in Seq(Numbers) /\ Len(buffer') <= HighMark + 1
    BY <1>2, <2>1, SMT DEF TypeOK, Transmit
  <2>4. UNCHANGED <<senderVars, link, stage, reset, hand, loopEnded, incoming, incClosed,
                    panicked, rPc, got>>
    BY <1>2 DEF Transmit
  <2>5. TypeOK'
    BY <2>2, <2>3, <2>4, SMTT(30) DEF TypeOK, senderVars
  <2> QED BY <1>1, <2>5
<1>3. CASE OnMessage
  <2>1. Head(arrived) \in Numbers /\ Tail(arrived) \in Seq(Numbers)
        /\ Len(Tail(arrived)) = Len(arrived) - 1 /\ Len(arrived) \in Nat
    BY <1>3, HeadTailProperties, LenProperties DEF TypeOK, OnMessage
  <2>2. hand' \in Seq(Numbers) /\ Len(hand') <= 1
    BY <1>3, <2>1, SMT DEF TypeOK, OnMessage
  <2>3. arrived' \in Seq(Numbers) /\ Len(arrived') <= Window
    BY <1>3, <2>1, SMT DEF TypeOK, OnMessage
  <2> QED BY <1>1, <1>3, <2>2, <2>3, SMTT(30) DEF TypeOK, OnMessage, senderVars, netVars
<1>4. CASE DeliverPuts
  <2>1. hand[1] \in Numbers
    BY <1>4, ElementOfSeq, EmptySeq, SMT DEF TypeOK, DeliverPuts
  <2>2. incoming' \in Seq(Numbers) /\ Len(incoming') <= Capacity
    BY <1>4, <2>1, AppendProperties, LenProperties, SMT DEF TypeOK, DeliverPuts
  <2> QED BY <1>1, <1>4, <2>2, EmptySeq, SMTT(30) DEF TypeOK, DeliverPuts, senderVars, netVars
<1>5. CASE DeliverGivesUp
  BY <1>1, <1>5, EmptySeq, SMT DEF TypeOK, DeliverGivesUp, senderVars, netVars
<1>6. CASE Read
  <2>1. Head(incoming) \in Numbers /\ Tail(incoming) \in Seq(Numbers)
        /\ Len(Tail(incoming)) = Len(incoming) - 1 /\ Len(incoming) \in Nat
    BY <1>6, HeadTailProperties, LenProperties DEF TypeOK, Read
  <2>2. got' \in Seq(Numbers)
    BY <1>6, <2>1, AppendProperties DEF TypeOK, Read
  <2>3. incoming' \in Seq(Numbers) /\ Len(incoming') <= Capacity
    BY <1>6, <2>1, SMT DEF TypeOK, Read
  <2>4. rPc' \in {"reading", "leaving", "left", "ended", "done"}
    BY <1>6 DEF Read
  <2>5. UNCHANGED <<senderVars, netVars, arrived, hand, loopEnded, incClosed, panicked>>
    BY <1>6 DEF Read
  <2>6. TypeOK'
    BY <2>2, <2>3, <2>4, <2>5, SMTT(30) DEF TypeOK, senderVars, netVars
  <2> QED BY <1>1, <2>6
<1> QED BY <1>2, <1>3, <1>4, <1>5, <1>6

(* The steps of Next, sorted as the lemmas above have them.                 *)
LEMMA Steps ==
    ASSUME Next
    PROVE  \/ Send
           \/ SendFails \/ BatchDrained \/ NextBatch \/ Finish
              \/ LastDrain \/ SenderCloses \/ SenderDone
           \/ (\E p \in Sides : CloseStep(p) \/ StateChange(p) \/ ResetArrives(p))
              \/ LinkBreaks \/ LoopEnds \/ DeliverPanics \/ OnClose
              \/ Stops \/ ReceiverCloses \/ ReceiverDone
           \/ Transmit \/ OnMessage \/ DeliverPuts \/ DeliverGivesUp \/ Read
BY DEF Next, SenderSide, ReceiverSide, Network, SenderStep, ReceiverStep, LoopStep, Sides,
       Stops, ReadTimeout, ReceiverFails

LEMMA TypeNext == TypeInv /\ [Next]_vars => TypeInv'
<1> SUFFICES ASSUME TypeInv, [Next]_vars PROVE TypeInv'
  OBVIOUS
<1>1. CASE Next
  BY <1>1, Steps, TypeSend, TypeSender, TypeFlags, TypeMoves
<1>2. CASE UNCHANGED vars
  BY <1>2 DEF TypeInv, TypeOK, Counts, vars, senderVars, netVars, recvVars
<1> QED BY <1>1, <1>2

(* Every variable of Peer keeps its shape, and every buffer its bound.      *)
THEOREM TypeCorrect == Spec => []TypeOK
<1>1. TypeInv => TypeOK
  BY DEF TypeInv
<1> QED BY <1>1, TypeInit, TypeNext, PTL DEF Spec

-----------------------------------------------------------------------------
(* Panics.                                                                  *)

(* OnClose follows the last OnMessage, so when deliver holds a message only *)
(* the receiver's own Close can have closed p.incoming.                     *)
PanicInv ==
    /\ loopEnded => hand = << >>
    /\ incClosed => loopEnded \/ stage["R"] = "done"
    /\ panicked => stage["R"] = "done"

LEMMA PanicInit == Init => PanicInv
BY DEF Init, PanicInv

LEMMA PanicNext == TypeInv /\ PanicInv /\ [Next]_vars => PanicInv'
<1> SUFFICES ASSUME TypeInv, PanicInv, [Next]_vars PROVE PanicInv'
  OBVIOUS
<1> USE DEF PanicInv
<1>1. CASE UNCHANGED vars
  BY <1>1 DEF vars, netVars, recvVars
<1>2. CASE Send \/ SendFails \/ BatchDrained \/ NextBatch \/ Finish \/ LastDrain \/ SenderDone
  BY <1>2 DEF Send, SendFails, BatchDrained, NextBatch, Finish, LastDrain, SenderDone, netVars,
              recvVars
<1>3. CASE SenderCloses \/ ReceiverCloses
  <2>1. stage["R"] = "done" => stage'["R"] = "done"
    BY <1>3 DEF SenderCloses, ReceiverCloses, Signal, TypeInv, TypeOK, Sides
  <2> QED BY <2>1, <1>3 DEF SenderCloses, ReceiverCloses, recvVars
<1>4. CASE \E p \in Sides : CloseStep(p) \/ StateChange(p) \/ ResetArrives(p)
  <2> PICK p \in Sides : CloseStep(p) \/ StateChange(p) \/ ResetArrives(p)
    BY <1>4
  <2>1. /\ stage["R"] = "done" => stage'["R"] = "done"
        /\ incClosed' => incClosed \/ stage'["R"] = "done"
    BY DEF CloseStep, CloseDC, ClosePC, CloseIncoming, StateChange, Signal, ResetArrives,
           TypeInv, TypeOK, Sides, recvVars
  <2>2. UNCHANGED <<loopEnded, hand, panicked>>
    BY DEF CloseStep, CloseDC, ClosePC, CloseIncoming, StateChange, ResetArrives, recvVars
  <2> QED BY <2>1, <2>2
<1>5. CASE LinkBreaks \/ LoopEnds \/ DeliverPanics \/ OnClose
  BY <1>5 DEF LinkBreaks, LoopEnds, DeliverPanics, OnClose, netVars, recvVars
<1>6. CASE Stops \/ ReceiverDone \/ Transmit \/ Read
  BY <1>6 DEF Stops, Leave, ReadEnds, ReceiverDone, Transmit, Read, netVars
<1>7. CASE OnMessage \/ DeliverPuts \/ DeliverGivesUp
  BY <1>7 DEF OnMessage, DeliverPuts, DeliverGivesUp, netVars
<1> QED BY <1>1, <1>2, <1>3, <1>4, <1>5, <1>6, <1>7, Steps

(* A program closes its peer after it has stopped reading; Failed comes     *)
(* when the other side cannot answer.                                       *)
CauseInv ==
    /\ panicked => link = "broken"
    /\ Signalled("R") => rPc # "reading" \/ Unreachable("R")

LEMMA CauseInit == Init => CauseInv
BY DEF Init, CauseInv, Signalled, Sides

(* Nothing undoes a cause.                                                  *)
LEMMA CauseStays ==
    ASSUME TypeInv, Next
    PROVE  /\ rPc' = "reading" => rPc = "reading"
           /\ Unreachable("R") => Unreachable("R")'
           /\ panicked' => panicked \/ link' = "broken"
           /\ link = "broken" => link' = "broken"
<1>1. CASE Send \/ SendFails \/ BatchDrained \/ NextBatch \/ Finish \/ LastDrain \/ SenderDone
  BY <1>1 DEF Send, SendFails, BatchDrained, NextBatch, Finish, LastDrain, SenderDone, netVars,
              recvVars, Unreachable, PcClosed, Other
<1>2. CASE SenderCloses \/ ReceiverCloses
  BY <1>2 DEF SenderCloses, ReceiverCloses, Signal, recvVars, Unreachable, PcClosed, Other,
              TypeInv, TypeOK, Sides
<1>3. ASSUME NEW p \in Sides, CloseStep(p) \/ StateChange(p) \/ ResetArrives(p)
      PROVE  /\ UNCHANGED <<rPc, panicked, link>>
             /\ PcClosed("S") => PcClosed("S")'
  <2>1. UNCHANGED <<rPc, panicked, link>>
    BY <1>3 DEF CloseStep, CloseDC, ClosePC, CloseIncoming, StateChange, ResetArrives, recvVars
  <2>2. PcClosed("S") => PcClosed("S")'
    BY <1>3 DEF CloseStep, CloseDC, ClosePC, CloseIncoming, StateChange, Signal, ResetArrives,
                PcClosed, TypeInv, TypeOK, Sides
  <2> QED BY <2>1, <2>2
<1>4. CASE LinkBreaks \/ LoopEnds \/ DeliverPanics \/ OnClose
  BY <1>4 DEF LinkBreaks, LoopEnds, DeliverPanics, OnClose, netVars, recvVars, Unreachable,
              PcClosed, Other
<1>5. CASE Stops \/ ReceiverDone \/ Transmit \/ Read
  BY <1>5 DEF Stops, Leave, ReadEnds, ReceiverDone, Transmit, Read, netVars, Unreachable,
              PcClosed, Other
<1>6. CASE OnMessage \/ DeliverPuts \/ DeliverGivesUp
  BY <1>6 DEF OnMessage, DeliverPuts, DeliverGivesUp, netVars, Unreachable, PcClosed, Other
<1> QED BY <1>1, <1>2, <1>3, <1>4, <1>5, <1>6, Steps DEF Unreachable, Other

(* What closes p.closed of the receiver.                                    *)
LEMMA SignalledBy ==
    ASSUME TypeInv, Next, Signalled("R")'
    PROVE  Signalled("R") \/ (rPc # "reading" /\ rPc' = rPc) \/ Unreachable("R")
<1>1. CASE stage' = stage
  BY <1>1 DEF Signalled
<1>2. CASE SenderCloses \/ ReceiverCloses
  BY <1>2 DEF SenderCloses, ReceiverCloses, Signal, Signalled, recvVars, TypeInv, TypeOK, Sides
<1>3. ASSUME NEW p \in Sides, CloseStep(p) \/ StateChange(p) \/ ResetArrives(p)
      PROVE  Signalled("R") \/ Unreachable("R")
  BY <1>3 DEF CloseStep, CloseDC, ClosePC, CloseIncoming, StateChange, Signal, ResetArrives,
              Signalled, TypeInv, TypeOK, Sides
<1>4. \/ stage' = stage \/ SenderCloses \/ ReceiverCloses
      \/ \E p \in Sides : CloseStep(p) \/ StateChange(p) \/ ResetArrives(p)
  BY Steps DEF Send, SendFails, BatchDrained, NextBatch, Finish, LastDrain, SenderDone,
               LinkBreaks, LoopEnds, DeliverPanics, OnClose, Stops, Leave, ReadEnds,
               ReceiverDone, Transmit, Read, OnMessage, DeliverPuts, DeliverGivesUp, netVars
<1> QED BY <1>1, <1>2, <1>3, <1>4

LEMMA CauseNext == TypeInv /\ CauseInv /\ [Next]_vars => CauseInv'
<1> SUFFICES ASSUME TypeInv, CauseInv, [Next]_vars PROVE CauseInv'
  OBVIOUS
<1>1. CASE Next
  BY <1>1, CauseStays, SignalledBy DEF CauseInv
<1>2. CASE UNCHANGED vars
  BY <1>2 DEF CauseInv, Signalled, Unreachable, PcClosed, Other, vars, netVars, recvVars
<1> QED BY <1>1, <1>2

(* peer.go's deliver is about to send on a closed channel only when a Close *)
(* of the receiver's own peer has come to its end, and that was begun by a  *)
(* program that no longer reads, or by Failed with the link broken or the   *)
(* sender's peer closed.                                                    *)
THEOREM NoPanicBeforeClose == Spec => []PanicsOnlyInClose
<1>1. PanicInv /\ CauseInv => PanicsOnlyInClose
  BY DEF PanicInv, CauseInv, PanicsOnlyInClose, Signalled, Unreachable
<1> QED
  BY <1>1, TypeInit, TypeNext, PanicInit, PanicNext, CauseInit, CauseNext, PTL DEF Spec

-----------------------------------------------------------------------------
(* Sequences that a message moves through.                                  *)

Ordered(s) == \A i, j \in 1 .. Len(s) : i < j => s[i] < s[j]
UpTo(s, n) == \A i \in 1 .. Len(s) : s[i] <= n
CountsOn(s) == \A i \in 1 .. Len(s) : s[i] = i

(* Concatenation under a name of its own: the provers then need only these  *)
(* facts about it.                                                          *)
Cat(a, b) == a \o b

LEMMA CatTypes ==
    ASSUME NEW S, NEW a \in Seq(S), NEW b \in Seq(S)
    PROVE  Cat(a, b) \in Seq(S)
BY ConcatProperties DEF Cat

LEMMA CatAssociative ==
    ASSUME NEW S, NEW a \in Seq(S), NEW b \in Seq(S), NEW c \in Seq(S)
    PROVE  Cat(Cat(a, b), c) = Cat(a, Cat(b, c))
BY ConcatAssociative, SMTT(30) DEF Cat

LEMMA CatEmpty ==
    ASSUME NEW S, NEW a \in Seq(S)
    PROVE  Cat(a, << >>) = a /\ Cat(<< >>, a) = a
BY ConcatEmptySeq DEF Cat

LEMMA CatOne ==
    ASSUME NEW S, NEW a \in Seq(S), NEW x \in S
    PROVE  << x >> \in Seq(S) /\ Append(a, x) = Cat(a, << x >>)
<1>1. << x >> \in Seq(S)
  OBVIOUS
<1>2. Append(a, x) = a \o << x >>
  BY AppendIsConcat
<1> QED BY <1>1, <1>2 DEF Cat

LEMMA HeadFirst ==
    ASSUME NEW S, NEW b \in Seq(S), b # << >>
    PROVE  /\ Head(b) \in S /\ << Head(b) >> \in Seq(S) /\ Tail(b) \in Seq(S)
           /\ b = Cat(<< Head(b) >>, Tail(b))
<1>1. Head(b) \in S /\ Tail(b) \in Seq(S) /\ Len(Tail(b)) = Len(b) - 1 /\ Head(b) = b[1]
      /\ Len(b) \in Nat \ {0}
  BY HeadTailProperties, EmptySeq
<1>2. << Head(b) >> \in Seq(S)
  BY <1>1
<1>3. << Head(b) >> \o Tail(b) \in Seq(S) /\ Len(<< Head(b) >> \o Tail(b)) = Len(b)
  BY <1>1, <1>2, ConcatProperties
<1>4. \A i \in 1 .. Len(b) : b[i] = (<< Head(b) >> \o Tail(b))[i]
  BY <1>1, <1>2, ConcatProperties, HeadTailProperties, SMT
<1>5. b = << Head(b) >> \o Tail(b)
  BY <1>3, <1>4, SeqEqual
<1> QED BY <1>1, <1>2, <1>5 DEF Cat

LEMMA MoveHead ==
    ASSUME NEW S, NEW a \in Seq(S), NEW b \in Seq(S), b # << >>
    PROVE  Cat(Append(a, Head(b)), Tail(b)) = Cat(a, b)
<1> DEFINE h == << Head(b) >>
           t == Tail(b)
<1>1. h \in Seq(S) /\ t \in Seq(S) /\ b = Cat(h, t)
  BY HeadFirst
<1>2. Append(a, Head(b)) = Cat(a, h)
  BY HeadFirst, CatOne
<1> HIDE DEF h, t
<1>3. Cat(Cat(a, h), t) = Cat(a, Cat(h, t))
  BY <1>1, CatAssociative
<1> QED BY <1>1, <1>2, <1>3 DEF t

LEMMA AppendLast ==
    ASSUME NEW S, NEW a \in Seq(S), NEW b \in Seq(S), NEW x \in S
    PROVE  Cat(a, Append(b, x)) = Append(Cat(a, b), x)
<1> DEFINE l == << x >>
<1>1. l \in Seq(S) /\ Append(b, x) = Cat(b, l)
  BY CatOne
<1>2. Cat(a, b) \in Seq(S) /\ Append(Cat(a, b), x) = Cat(Cat(a, b), l)
  BY CatTypes, CatOne
<1> HIDE DEF l
<1>3. Cat(Cat(a, b), l) = Cat(a, Cat(b, l))
  BY <1>1, CatAssociative
<1> QED BY <1>1, <1>2, <1>3

LEMMA OnlyElement ==
    ASSUME NEW S, NEW a \in Seq(S), a # << >>, Len(a) <= 1
    PROVE  a = << a[1] >> /\ a[1] \in S
<1>1. Len(a) = 1
  <2> DEFINE n == Len(a)
  <2>1. n \in Nat /\ n # 0 /\ n <= 1
    BY EmptySeq
  <2> HIDE DEF n
  <2>2. n = 1
    BY <2>1, SMT
  <2> QED BY <2>2 DEF n
<1>2. a[1] \in S
  BY <1>1, ElementOfSeq, SMT
<1>3. << a[1] >> \in Seq(S) /\ Len(<< a[1] >>) = 1
  BY <1>2
<1>4. \A i \in 1 .. Len(a) : a[i] = << a[1] >>[i]
  BY <1>1, SMT
<1> QED BY <1>1, <1>2, <1>3, <1>4, SeqEqual

(* What is left when a part of the middle goes is still in order.           *)
LEMMA CutMiddle ==
    ASSUME NEW S, NEW a \in Seq(S), NEW b \in Seq(S), NEW c \in Seq(S), NEW n,
           Ordered(Cat(Cat(a, b), c)), UpTo(Cat(Cat(a, b), c), n)
    PROVE  Ordered(Cat(a, c)) /\ UpTo(Cat(a, c), n)
<1> USE DEF Cat
<1> DEFINE s == (a \o b) \o c
           t == a \o c
           at(i) == IF i <= Len(a) THEN i ELSE i + Len(b)
<1>1. /\ Len(a) \in Nat /\ Len(b) \in Nat /\ Len(c) \in Nat
      /\ Len(s) = Len(a) + Len(b) + Len(c) /\ Len(t) = Len(a) + Len(c)
  BY ConcatProperties, LenProperties, SMT
<1>2. \A i \in 1 .. Len(t) : at(i) \in 1 .. Len(s) /\ t[i] = s[at(i)]
  <2> SUFFICES ASSUME NEW i \in 1 .. Len(t)
               PROVE  at(i) \in 1 .. Len(s) /\ t[i] = s[at(i)]
    OBVIOUS
  <2>1. at(i) \in 1 .. Len(s)
    BY <1>1, SMT
  <2>2. a \o b \in Seq(S) /\ Len(a \o b) = Len(a) + Len(b)
    BY ConcatProperties
  <2>3. CASE i <= Len(a)
    <3>1. t[i] = a[i] /\ (a \o b)[i] = a[i]
      BY <1>1, <2>3, ConcatProperties, SMT
    <3>2. s[i] = (a \o b)[i]
      BY <1>1, <2>2, <2>3, ConcatProperties, SMT
    <3> QED BY <2>1, <2>3, <3>1, <3>2
  <2>4. CASE i > Len(a)
    <3>1. t[i] = c[i - Len(a)]
      BY <1>1, <2>4, ConcatProperties, SMT
    <3>2. s[i + Len(b)] = c[i + Len(b) - (Len(a) + Len(b))]
      <4> DEFINE j == i + Len(b)
                 d == a \o b
      <4>1. j \in 1 .. Len(d) + Len(c) /\ ~(j <= Len(d)) /\ Len(d) = Len(a) + Len(b)
        BY <1>1, <2>2, <2>4, SMT
      <4>2. d \in Seq(S)
        BY <2>2
      <4> HIDE DEF j, d
      <4>3. \A x \in 1 .. Len(d) + Len(c) :
               (d \o c)[x] = IF x <= Len(d) THEN d[x] ELSE c[x - Len(d)]
        BY <4>2, ConcatProperties, Zenon
      <4>4. (d \o c)[j] = c[j - Len(d)]
        BY <4>1, <4>3, Zenon
      <4> QED BY <4>1, <4>4 DEF j, d
    <3>3. i + Len(b) - (Len(a) + Len(b)) = i - Len(a) /\ at(i) = i + Len(b)
      BY <1>1, <2>4
    <3> QED BY <2>1, <3>1, <3>2, <3>3
  <2> QED BY <2>3, <2>4, <1>1, SMTT(30)
<1>3. \A i, j \in 1 .. Len(t) : i < j => at(i) < at(j)
  BY <1>1, SMT
<1> QED BY <1>2, <1>3 DEF Ordered, UpTo

-----------------------------------------------------------------------------
(* The flow.                                                                *)

FlowInv ==
    /\ Ordered(Flow) /\ UpTo(Flow, sent)
    /\ ~Signalled("R") => CountsOn(Flow) /\ Len(Flow) = sent

FlowTypes ==
    /\ got \in Seq(Numbers) /\ incoming \in Seq(Numbers) /\ hand \in Seq(Numbers)
    /\ arrived \in Seq(Numbers) /\ buffer \in Seq(Numbers)
    /\ sent \in Nat

LEMMA NumbersAreIntegers == Numbers \subseteq Int
BY SizeAssumption, SMT DEF Numbers

Flow_ == Cat(Cat(Cat(Cat(got, incoming), hand), arrived), buffer)

LEMMA FlowShape == TypeInv => FlowTypes /\ Flow = Flow_ /\ Flow \in Seq(Numbers)
<1> SUFFICES ASSUME TypeInv PROVE FlowTypes /\ Flow = Flow_ /\ Flow_ \in Seq(Numbers)
  OBVIOUS
<1>1. FlowTypes
  BY SizeAssumption, SMT DEF TypeInv, TypeOK, Numbers, FlowTypes
<1>2. Flow = Flow_
  BY DEF Flow, Flow_, Cat
<1>3. Flow_ \in Seq(Numbers)
  BY <1>1, CatTypes DEF Flow_, FlowTypes
<1> QED BY <1>1, <1>2, <1>3

LEMMA FlowInit == Init => FlowInv
<1> SUFFICES ASSUME Init PROVE FlowInv
  OBVIOUS
<1>1. << >> \in Seq(Numbers) /\ Len(<< >>) = 0
  BY EmptySeq
<1>2. Flow = << >> /\ sent = 0
  <2>1. << >> \o << >> = << >>
    BY <1>1, ConcatEmptySeq
  <2> QED BY <2>1 DEF Flow, Init
<1> QED BY <1>1, <1>2, SMT DEF FlowInv, Ordered, UpTo, CountsOn

(* A message that goes on to its next place leaves the flow as it was.      *)
LEMMA FlowSame ==
    ASSUME TypeInv, PanicInv,
           \/ Transmit \/ (OnMessage /\ ~incClosed) \/ DeliverPuts \/ Read
           \/ UNCHANGED Places
    PROVE  Flow' = Flow
<1>0. FlowTypes
  BY FlowShape
<1>a. Flow = Flow_ /\ Flow' = Flow_'
  BY DEF Flow, Flow_, Cat
<1> USE <1>0 DEF FlowTypes
<1>1. CASE UNCHANGED Places
  BY <1>1 DEF Places, Flow
<1>2. CASE Transmit
  <2> DEFINE X == Cat(Cat(got, incoming), hand)
             A == Append(arrived, Head(buffer))
             T == Tail(buffer)
  <2>1. A \in Seq(Numbers) /\ T \in Seq(Numbers) /\ X \in Seq(Numbers)
    BY <1>2, HeadFirst, AppendProperties, CatTypes DEF Transmit
  <2>2. Cat(A, T) = Cat(arrived, buffer)
    BY <1>2, MoveHead DEF Transmit
  <2>3. arrived' = A /\ buffer' = T /\ UNCHANGED <<got, incoming, hand>>
    BY <1>2 DEF Transmit
  <2> HIDE DEF X, A, T
  <2>4. Cat(Cat(X, A), T) = Cat(Cat(X, arrived), buffer)
    BY <2>1, <2>2, CatAssociative
  <2> QED BY <1>a, <2>3, <2>4 DEF X, Flow_
<1>3. CASE OnMessage /\ ~incClosed
  <2> DEFINE P == Cat(got, incoming)
  <2>1. /\ hand = << >> /\ hand' = << Head(arrived) >> /\ arrived' = Tail(arrived)
        /\ arrived # << >> /\ UNCHANGED <<got, incoming, buffer>>
    BY <1>3 DEF OnMessage, netVars
  <2>2. P \in Seq(Numbers) /\ Head(arrived) \in Numbers
    BY <2>1, CatTypes, HeadFirst
  <2>3. Cat(P, hand) = P /\ Cat(P, hand') = Append(P, Head(arrived))
    BY <2>1, <2>2, CatEmpty, CatOne
  <2>4. Cat(Append(P, Head(arrived)), Tail(arrived)) = Cat(P, arrived)
    BY <2>1, <2>2, MoveHead
  <2> QED BY <1>a, <2>1, <2>3, <2>4 DEF Flow_
<1>4. CASE DeliverPuts
  <2>1. /\ hand # << >> /\ hand' = << >> /\ incoming' = Append(incoming, hand[1])
        /\ UNCHANGED <<got, arrived, buffer>>
    BY <1>4 DEF DeliverPuts, netVars
  <2>2. hand = << hand[1] >> /\ hand[1] \in Numbers
    <3>1. Len(hand) <= 1
      BY DEF TypeInv, TypeOK
    <3> QED BY <2>1, <3>1, OnlyElement
  <2>3. Append(incoming, hand[1]) = Cat(incoming, hand)
    BY <2>2, CatOne
  <2>4. Cat(Cat(got, Cat(incoming, hand)), << >>) = Cat(Cat(got, incoming), hand)
    BY CatTypes, CatAssociative, CatEmpty
  <2> QED BY <1>a, <2>1, <2>3, <2>4 DEF Flow_
<1>5. CASE Read
  <2>1. Cat(Append(got, Head(incoming)), Tail(incoming)) = Cat(got, incoming)
    BY <1>5, MoveHead DEF Read
  <2> QED BY <1>a, <1>5, <2>1 DEF Read, Flow_, netVars
<1> QED BY <1>1, <1>2, <1>3, <1>4, <1>5

(* What is dropped is dropped once the receiver's p.closed is closed, out   *)
(* of the middle of the flow.                                               *)
LEMMA FlowCut ==
    ASSUME TypeInv, PanicInv, FlowInv, DeliverGivesUp \/ (OnMessage /\ incClosed)
    PROVE  FlowInv'
<1>0. FlowTypes
  BY FlowShape
<1>a. Flow = Flow_ /\ Flow' = Flow_'
  BY DEF Flow, Flow_, Cat
<1> USE <1>0 DEF FlowTypes
<1>1. sent' = sent /\ Signalled("R")'
  BY DEF DeliverGivesUp, OnMessage, PanicInv, Signalled, senderVars, netVars
<1>2. CASE DeliverGivesUp
  <2> DEFINE P == Cat(got, incoming)
             C == Cat(arrived, buffer)
  <2>1. C \in Seq(Numbers) /\ P \in Seq(Numbers) /\ Cat(P, << >>) = P
    BY CatTypes, CatEmpty
  <2>2. hand' = << >> /\ UNCHANGED <<got, incoming, arrived, buffer>>
    BY <1>2 DEF DeliverGivesUp, netVars
  <2>3. Flow = Cat(Cat(Cat(P, hand), arrived), buffer) /\ Flow' = Cat(Cat(P, arrived), buffer)
    BY <1>a, <2>1, <2>2 DEF Flow_
  <2>4. Flow = Cat(Cat(P, hand), C) /\ Flow' = Cat(P, C)
    <3>1. Cat(P, hand) \in Seq(Numbers)
      BY <2>1, CatTypes
    <3> HIDE DEF P
    <3>2. Cat(Cat(Cat(P, hand), arrived), buffer) = Cat(Cat(P, hand), Cat(arrived, buffer))
      BY <3>1, CatAssociative
    <3>3. Cat(Cat(P, arrived), buffer) = Cat(P, Cat(arrived, buffer))
      BY <2>1, CatAssociative
    <3> QED BY <2>3, <3>2, <3>3
  <2>a. Ordered(Cat(Cat(P, hand), C)) /\ UpTo(Cat(Cat(P, hand), C), sent)
    BY <2>4 DEF FlowInv
  <2> HIDE DEF P, C
  <2>5. Ordered(Cat(P, C)) /\ UpTo(Cat(P, C), sent)
    BY <2>1, <2>a, CutMiddle
  <2> QED BY <1>1, <2>4, <2>5 DEF FlowInv
<1>3. CASE OnMessage /\ incClosed
  <2> DEFINE P == Cat(Cat(got, incoming), hand)
             T == Tail(arrived)
             B == << Head(arrived) >>
             C == Cat(T, buffer)
  <2>1. T \in Seq(Numbers) /\ B \in Seq(Numbers) /\ Cat(B, T) = arrived
    BY <1>3, HeadFirst DEF OnMessage
  <2>2. C \in Seq(Numbers) /\ P \in Seq(Numbers)
    BY <2>1, CatTypes
  <2>3. hand' = hand /\ arrived' = T /\ UNCHANGED <<got, incoming, buffer>>
    BY <1>3 DEF OnMessage, netVars
  <2>4. Flow = Cat(Cat(P, Cat(B, T)), buffer) /\ Flow' = Cat(Cat(P, T), buffer)
    BY <1>a, <2>1, <2>3 DEF Flow_
  <2> HIDE DEF P, B, T
  <2>5. Flow = Cat(Cat(P, B), C) /\ Flow' = Cat(P, C)
    BY <2>1, <2>2, <2>4, CatTypes, CatAssociative
  <2>a. Ordered(Cat(Cat(P, B), C)) /\ UpTo(Cat(Cat(P, B), C), sent)
    BY <2>5 DEF FlowInv
  <2> HIDE DEF C
  <2>6. Ordered(Cat(P, C)) /\ UpTo(Cat(P, C), sent)
    BY <2>1, <2>2, <2>a, CutMiddle
  <2> QED BY <1>1, <2>5, <2>6 DEF FlowInv
<1> QED BY <1>2, <1>3

(* A message that is sent is the flow's next.                               *)
LEMMA FlowSend ==
    ASSUME TypeInv, TypeInv', FlowInv, Send
    PROVE  FlowInv'
<1>0. FlowTypes /\ Flow = Flow_ /\ Flow \in Seq(Numbers) /\ Flow' = Flow_'
  BY FlowShape DEF Flow, Flow_, Cat
<1> USE DEF FlowTypes
<1>1. Flow' = Append(Flow, sent + 1) /\ sent + 1 \in Numbers
  <2> DEFINE X == Cat(Cat(Cat(got, incoming), hand), arrived)
  <2>1. sent' = sent + 1 /\ sent' \in Numbers
    BY <1>0, SMT DEF Send, TypeInv, TypeOK
  <2>2. buffer' = Append(buffer, sent + 1) /\ UNCHANGED <<got, incoming, hand, arrived>>
    BY DEF Send, recvVars
  <2>3. X \in Seq(Numbers)
    BY <1>0, CatTypes
  <2>4. Flow = Cat(X, buffer) /\ Flow' = Cat(X, Append(buffer, sent + 1))
    BY <1>0, <2>2 DEF Flow_
  <2> DEFINE x == sent + 1
  <2>5. x \in Numbers
    BY <2>1
  <2> HIDE DEF X, x
  <2>6. Cat(X, Append(buffer, x)) = Append(Cat(X, buffer), x)
    BY <1>0, <2>3, <2>5, AppendLast, SMTT(30)
  <2> QED BY <2>4, <2>5, <2>6 DEF x
<1>2. /\ sent' = sent + 1 /\ Signalled("R")' = Signalled("R")
      /\ Len(Flow') = Len(Flow) + 1 /\ Len(Flow) \in Nat
      /\ \A i \in 1 .. Len(Flow) : Flow'[i] = Flow[i] /\ Flow[i] \in Int
      /\ Flow'[Len(Flow) + 1] = sent + 1
  <2>1. sent' = sent + 1 /\ Signalled("R")' = Signalled("R")
    BY DEF Send, Signalled
  <2>2. Len(Flow') = Len(Flow) + 1 /\ Flow'[Len(Flow) + 1] = sent + 1
        /\ \A i \in 1 .. Len(Flow) : Flow'[i] = Flow[i]
    BY <1>0, <1>1, AppendProperties
  <2>3. Len(Flow) \in Nat /\ \A i \in 1 .. Len(Flow) : Flow[i] \in Numbers
    BY <1>0, LenProperties, ElementOfSeq
  <2> QED BY <2>1, <2>2, <2>3, NumbersAreIntegers
<1> DEFINE F == Flow
           G == Flow'
<1>3. \A i \in 1 .. Len(G) : i \in 1 .. Len(F) \/ i = Len(F) + 1
  BY <1>2, SMT
<1>4. /\ Ordered(F) /\ UpTo(F, sent)
      /\ ~Signalled("R") => CountsOn(F) /\ Len(F) = sent
  BY DEF FlowInv
<1> HIDE DEF F, G
<1>5. /\ Len(G) = Len(F) + 1 /\ Len(F) \in Nat /\ sent \in Nat
      /\ \A i \in 1 .. Len(F) : G[i] = F[i] /\ F[i] \in Int
      /\ G[Len(F) + 1] = sent + 1
  BY <1>0, <1>2 DEF F, G
<1>6. Ordered(G)
  BY <1>3, <1>4, <1>5, SMTT(30) DEF Ordered, UpTo
<1>7. UpTo(G, sent + 1)
  BY <1>3, <1>4, <1>5, SMT DEF UpTo
<1>8. ~Signalled("R") => CountsOn(G) /\ Len(G) = sent + 1
  BY <1>3, <1>4, <1>5, SMT DEF CountsOn
<1> QED BY <1>2, <1>6, <1>7, <1>8 DEF FlowInv, Ordered, UpTo, CountsOn, G

LEMMA FlowNext == TypeInv /\ TypeInv' /\ PanicInv /\ FlowInv /\ [Next]_vars => FlowInv'
<1> SUFFICES ASSUME TypeInv, TypeInv', PanicInv, FlowInv, [Next]_vars PROVE FlowInv'
  OBVIOUS
<1>1. CASE Send
  BY <1>1, FlowSend
<1>2. CASE DeliverGivesUp \/ (OnMessage /\ incClosed)
  BY <1>2, FlowCut
<1>3. CASE Transmit \/ (OnMessage /\ ~incClosed) \/ DeliverPuts \/ Read
  <2>1. Flow' = Flow
    BY <1>3, FlowSame
  <2>2. sent' = sent /\ stage' = stage
    BY <1>3 DEF Transmit, OnMessage, DeliverPuts, Read, senderVars, netVars
  <2> QED BY <2>1, <2>2 DEF FlowInv, Signalled, Ordered, UpTo, CountsOn
<1>4. ASSUME UNCHANGED <<sent, Places>>, Signalled("R") => Signalled("R")'
      PROVE  FlowInv'
  <2>1. Flow' = Flow
    BY <1>4, FlowSame
  <2> QED BY <1>4, <2>1 DEF FlowInv, Ordered, UpTo, CountsOn
<1>5. CASE UNCHANGED vars
  BY <1>4, <1>5 DEF vars, senderVars, netVars, recvVars, Places, Signalled
<1>6. CASE SendFails \/ BatchDrained \/ NextBatch \/ Finish \/ LastDrain \/ SenderDone
  BY <1>4, <1>6 DEF SendFails, BatchDrained, NextBatch, Finish, LastDrain, SenderDone, netVars,
                    recvVars, Places, Signalled
<1>7. CASE SenderCloses \/ ReceiverCloses
  BY <1>4, <1>7 DEF SenderCloses, ReceiverCloses, Signal, senderVars, recvVars, Places,
                    Signalled, TypeInv, TypeOK, Sides
<1>8. CASE \E p \in Sides : CloseStep(p) \/ StateChange(p) \/ ResetArrives(p)
  <2> PICK p \in Sides : CloseStep(p) \/ StateChange(p) \/ ResetArrives(p)
    BY <1>8
  <2>1. UNCHANGED <<sent, Places>>
    BY DEF CloseStep, CloseDC, ClosePC, CloseIncoming, StateChange, ResetArrives, senderVars,
           recvVars, Places
  <2>2. stage["R"] # "open" => stage'["R"] # "open"
    BY DEF CloseStep, CloseDC, ClosePC, CloseIncoming, StateChange, Signal, ResetArrives,
           TypeInv, TypeOK, Sides
  <2> QED BY <1>4, <2>1, <2>2 DEF Signalled
<1>9. CASE LinkBreaks \/ LoopEnds \/ DeliverPanics \/ OnClose \/ Stops \/ ReceiverDone
  BY <1>4, <1>9 DEF LinkBreaks, LoopEnds, DeliverPanics, OnClose, Stops, Leave, ReadEnds,
                    ReceiverDone, senderVars, netVars, recvVars, Places, Signalled
<1> QED BY <1>1, <1>2, <1>3, <1>5, <1>6, <1>7, <1>8, <1>9, Steps

(* deliver, the incoming channel and the reader keep the messages of the    *)
(* sender's Send in order, without a gap while the receiver's peer is open. *)
THEOREM FlowInOrder == Spec => []InOrder
<1>1. FlowInv => InOrder
  BY DEF FlowInv, InOrder, Ordered, CountsOn
<1> QED BY <1>1, TypeInit, TypeNext, PanicInit, PanicNext, FlowInit, FlowNext, PTL DEF Spec
=============================================================================
