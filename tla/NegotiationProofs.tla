------------------------- MODULE NegotiationProofs -------------------------
(***************************************************************************)
(* Proofs about Negotiation, for any capacity of the reader's channel and   *)
(* any number of candidates and reloads of the sender.                      *)
(***************************************************************************)
EXTENDS Negotiation, FiniteSetTheorems, SequenceTheorems, TLAPS

-----------------------------------------------------------------------------
(* Queues of messages: what they hold, and in which order.                  *)

Frame == Message \ {"error"}

Announces == {"Version", "Offer"}

Has(s, m) == \E i \in 1 .. Len(s) : s[i] = m
Clear(s) == \A i \in 1 .. Len(s) : s[i] \notin Announces

(* No announcement of a new session comes before a P2PReady.                *)
Ordered(s) ==
    \A i \in 1 .. Len(s) : s[i] = "P2PReady" => \A j \in 1 .. i - 1 : s[j] \notin Announces

OfferPlaces(s) == {i \in 1 .. Len(s) : s[i] = "Offer"}
Offers(s) == Cardinality(OfferPlaces(s))

LEMMA Appended ==
  ASSUME NEW S, NEW s \in Seq(S), NEW m \in S
  PROVE  /\ Append(s, m) \in Seq(S)
         /\ \A x : Has(Append(s, m), x) <=> Has(s, x) \/ x = m
         /\ Clear(Append(s, m)) <=> Clear(s) /\ m \notin Announces
         /\ Ordered(s) /\ (m = "P2PReady" => Clear(s)) => Ordered(Append(s, m))
         /\ Len(Append(s, m)) = Len(s) + 1
<1> DEFINE t == Append(s, m)
<1>1. /\ Len(s) \in Nat /\ t \in Seq(S) /\ Len(t) = Len(s) + 1 /\ t[Len(s) + 1] = m
      /\ \A i \in 1 .. Len(s) : t[i] = s[i]
  BY AppendProperties, LenProperties
<1> HIDE DEF t
<1>2. 1 .. Len(t) = (1 .. Len(s)) \cup {Len(s) + 1}
  BY <1>1
<1>3. \A x : Has(t, x) <=> Has(s, x) \/ x = m
  BY <1>1, <1>2 DEF Has
<1>4. Clear(t) <=> Clear(s) /\ m \notin Announces
  BY <1>1, <1>2 DEF Clear
<1>5. ASSUME Ordered(s), m = "P2PReady" => Clear(s)
      PROVE  Ordered(t)
  <2> SUFFICES ASSUME NEW i \in 1 .. Len(t), t[i] = "P2PReady", NEW j \in 1 .. i - 1
               PROVE  t[j] \notin Announces
    BY DEF Ordered
  <2>1. j \in 1 .. Len(s) /\ t[j] = s[j]
    BY <1>1
  <2>2. CASE i \in 1 .. Len(s)
    BY <1>1, <1>5, <2>1, <2>2 DEF Ordered
  <2>3. CASE i = Len(s) + 1
    BY <1>1, <1>5, <2>1, <2>3 DEF Clear
  <2> QED BY <1>2, <2>2, <2>3
<1> QED BY <1>1, <1>3, <1>4, <1>5 DEF t

LEMMA Taken ==
  ASSUME NEW S, NEW s \in Seq(S), s # << >>
  PROVE  /\ Tail(s) \in Seq(S) /\ Head(s) \in S /\ Len(Tail(s)) = Len(s) - 1 /\ Len(s) > 0
         /\ Has(s, Head(s))
         /\ \A x : Has(Tail(s), x) => Has(s, x)
         /\ \A x : Has(s, x) => x = Head(s) \/ Has(Tail(s), x)
         /\ Clear(s) => Clear(Tail(s)) /\ Head(s) \notin Announces
         /\ Ordered(s) => Ordered(Tail(s))
         /\ Ordered(s) /\ Head(s) \in Announces => ~Has(s, "P2PReady")
         /\ Ordered(s) /\ Has(Tail(s), "P2PReady") => Head(s) \notin Announces
<1> DEFINE t == Tail(s)
<1>1. /\ Len(s) \in Nat /\ Len(s) > 0 /\ t \in Seq(S) /\ Head(s) \in S /\ Len(t) = Len(s) - 1
      /\ \A i \in 1 .. Len(t) : t[i] = s[i + 1]
  <2>1. Len(s) \in Nat \ {0}
    BY EmptySeq
  <2> QED BY <2>1, HeadTailProperties
<1>2. Head(s) = s[1]
  OBVIOUS
<1> HIDE DEF t
<1>3. Has(s, Head(s))
  BY <1>1, <1>2 DEF Has
<1>4. \A i \in 1 .. Len(t) : i + 1 \in 1 .. Len(s)
  BY <1>1
<1>5. \A x : Has(t, x) => Has(s, x)
  BY <1>1, <1>4 DEF Has
<1>6. ASSUME NEW x, Has(s, x)
      PROVE  x = Head(s) \/ Has(t, x)
  <2>1. PICK i \in 1 .. Len(s) : s[i] = x
    BY <1>6 DEF Has
  <2>2. CASE i = 1
    BY <1>2, <2>1, <2>2
  <2>3. CASE i > 1
    <3>1. i - 1 \in 1 .. Len(t) /\ t[i - 1] = s[i - 1 + 1] /\ i - 1 + 1 = i
      BY <1>1, <2>1, <2>3
    <3> QED BY <2>1, <3>1 DEF Has
  <2> QED BY <1>1, <2>2, <2>3
<1>7. ASSUME Clear(s) PROVE Clear(t) /\ Head(s) \notin Announces
  BY <1>1, <1>2, <1>4, <1>7 DEF Clear
<1>8. ASSUME Ordered(s) PROVE Ordered(t)
  <2> SUFFICES ASSUME NEW i \in 1 .. Len(t), t[i] = "P2PReady", NEW j \in 1 .. i - 1
               PROVE  t[j] \notin Announces
    BY DEF Ordered
  <2>1. /\ i + 1 \in 1 .. Len(s) /\ s[i + 1] = "P2PReady"
        /\ j + 1 \in 1 .. (i + 1) - 1 /\ t[j] = s[j + 1]
    BY <1>1
  <2> QED BY <1>8, <2>1 DEF Ordered
<1>9. ASSUME Ordered(s), Has(s, "P2PReady") PROVE Head(s) \notin Announces
  <2>1. PICK i \in 1 .. Len(s) : s[i] = "P2PReady"
    BY <1>9 DEF Has
  <2>2. CASE i = 1
    BY <1>2, <2>1, <2>2 DEF Announces
  <2>3. CASE i > 1
    <3>1. 1 \in 1 .. i - 1
      BY <1>1, <2>1, <2>3
    <3> QED BY <1>2, <1>9, <2>1, <3>1 DEF Ordered
  <2> QED BY <1>1, <2>2, <2>3
<1> QED BY <1>1, <1>3, <1>5, <1>6, <1>7, <1>8, <1>9 DEF t

LEMMA Cut ==
  ASSUME NEW S, NEW s \in Seq(S), NEW n \in 0 .. Len(s)
  PROVE  /\ SubSeq(s, 1, n) \in Seq(S)
         /\ \A x : Has(SubSeq(s, 1, n), x) => Has(s, x)
         /\ Clear(s) => Clear(SubSeq(s, 1, n))
         /\ Ordered(s) => Ordered(SubSeq(s, 1, n))
<1> DEFINE t == SubSeq(s, 1, n)
<1>1. Len(s) \in Nat /\ \A i \in 1 .. n : i \in 1 .. Len(s) /\ s[i] \in S
  <2>1. Len(s) \in Nat
    BY LenProperties
  <2> QED BY <2>1, ElementOfSeq
<1>2. t \in Seq(S) /\ Len(t) = n /\ \A i \in 1 .. n : t[i] = s[i]
  <2>1. n \in Int /\ 1 \in Int
    BY <1>1
  <2>2. /\ t \in Seq(S) /\ Len(t) = IF 1 <= n THEN n - 1 + 1 ELSE 0
        /\ \A i \in 1 .. n - 1 + 1 : t[i] = s[1 + i - 1]
    BY <1>1, <2>1, SubSeqProperties
  <2> HIDE DEF t
  <2> QED BY <1>1, <2>1, <2>2
<1> HIDE DEF t
<1>3. \A x : Has(t, x) => Has(s, x)
  BY <1>1, <1>2 DEF Has
<1>4. Clear(s) => Clear(t)
  BY <1>1, <1>2 DEF Clear
<1>5. Ordered(s) => Ordered(t)
  BY <1>1, <1>2 DEF Ordered
<1> QED BY <1>2, <1>3, <1>4, <1>5 DEF t

(* How many offers a queue holds.                                           *)
LEMMA OffersType ==
  ASSUME NEW S, NEW s \in Seq(S)
  PROVE  IsFiniteSet(OfferPlaces(s)) /\ Offers(s) \in Nat
<1>1. Len(s) \in Nat
  BY LenProperties
<1>2. IsFiniteSet(1 .. Len(s)) /\ OfferPlaces(s) \in SUBSET (1 .. Len(s))
  BY <1>1, FS_Interval DEF OfferPlaces
<1>3. IsFiniteSet(OfferPlaces(s))
  BY <1>2, FS_Subset
<1> QED BY <1>3, FS_CardinalityType DEF Offers

LEMMA OffersAppended ==
  ASSUME NEW S, NEW s \in Seq(S), NEW m \in S
  PROVE  Offers(Append(s, m)) = IF m = "Offer" THEN Offers(s) + 1 ELSE Offers(s)
<1>1. /\ Len(s) \in Nat /\ Len(Append(s, m)) = Len(s) + 1 /\ Append(s, m)[Len(s) + 1] = m
      /\ \A i \in 1 .. Len(s) : Append(s, m)[i] = s[i]
  BY AppendProperties, LenProperties
<1>2. 1 .. Len(Append(s, m)) = (1 .. Len(s)) \cup {Len(s) + 1}
  BY <1>1
<1>3. OfferPlaces(Append(s, m)) = IF m = "Offer" THEN OfferPlaces(s) \cup {Len(s) + 1}
                                                 ELSE OfferPlaces(s)
  BY <1>1, <1>2 DEF OfferPlaces
<1>4. Len(s) + 1 \notin OfferPlaces(s)
  BY <1>1 DEF OfferPlaces
<1> QED BY <1>3, <1>4, OffersType, FS_AddElement DEF Offers

LEMMA OffersTaken ==
  ASSUME NEW S, NEW s \in Seq(S), s # << >>
  PROVE  Offers(Tail(s)) <= IF Head(s) = "Offer" THEN Offers(s) - 1 ELSE Offers(s)
<1> DEFINE t == Tail(s)
           rest == OfferPlaces(s) \ {1}
           f == [i \in OfferPlaces(t) |-> i + 1]
<1>1. /\ Len(s) \in Nat /\ Len(s) > 0 /\ t \in Seq(S) /\ Len(t) = Len(s) - 1 /\ Head(s) = s[1]
      /\ \A i \in 1 .. Len(t) : t[i] = s[i + 1]
  <2>1. Len(s) \in Nat \ {0}
    BY EmptySeq
  <2> QED BY <2>1, HeadTailProperties
<1> HIDE DEF t
<1>2. \A i \in OfferPlaces(t) : i + 1 \in rest
  BY <1>1 DEF OfferPlaces
<1>3. f \in Injection(OfferPlaces(t), rest)
  <2>1. f \in [OfferPlaces(t) -> rest]
    BY <1>2
  <2>2. \A i, j \in OfferPlaces(t) : f[i] = f[j] => i = j
    BY DEF OfferPlaces
  <2> QED BY <2>1, <2>2 DEF Injection, IsInjective
<1>4. IsFiniteSet(rest) /\ Cardinality(rest) = IF 1 \in OfferPlaces(s) THEN Offers(s) - 1 ELSE Offers(s)
  BY OffersType, FS_RemoveElement DEF Offers
<1>5. 1 \in OfferPlaces(s) <=> Head(s) = "Offer"
  BY <1>1 DEF OfferPlaces
<1> HIDE DEF rest, f
<1>6. Offers(t) <= Cardinality(rest)
  BY <1>3, <1>4, FS_Injection DEF Offers
<1> QED BY <1>4, <1>5, <1>6 DEF t

LEMMA OffersCut ==
  ASSUME NEW S, NEW s \in Seq(S), NEW n \in 0 .. Len(s)
  PROVE  Offers(SubSeq(s, 1, n)) <= Offers(s)
<1> DEFINE t == SubSeq(s, 1, n)
<1>1. Len(s) \in Nat /\ \A i \in 1 .. n : i \in 1 .. Len(s) /\ s[i] \in S
  <2>1. Len(s) \in Nat
    BY LenProperties
  <2> QED BY <2>1, ElementOfSeq
<1>2. t \in Seq(S) /\ Len(t) = n /\ \A i \in 1 .. n : t[i] = s[i]
  <2>1. n \in Int /\ 1 \in Int
    BY <1>1
  <2>2. /\ t \in Seq(S) /\ Len(t) = IF 1 <= n THEN n - 1 + 1 ELSE 0
        /\ \A i \in 1 .. n - 1 + 1 : t[i] = s[1 + i - 1]
    BY <1>1, <2>1, SubSeqProperties
  <2> HIDE DEF t
  <2> QED BY <1>1, <2>1, <2>2
<1> HIDE DEF t
<1>3. OfferPlaces(t) \in SUBSET OfferPlaces(s)
  BY <1>1, <1>2 DEF OfferPlaces
<1>4. Offers(t) <= Offers(s)
  BY <1>3, OffersType, FS_Subset DEF Offers
<1> QED BY <1>4 DEF t

-----------------------------------------------------------------------------
(* The type invariant, by what it is about, and what bounds gen: every      *)
(* reader goroutine was started for an offer, every offer but the first     *)
(* follows a reload.                                                        *)

PcType ==
    /\ pc["S"] \in {"offer", "trying", "joining", "failing", "ws", "p2p", "await", "dead"}
    /\ pc["R"] \in {"first", "trying", "tail", "ws", "p2p", "ok", "dead"}
    /\ DOMAIN pc = Side

WsType == ws \in [Side -> Seq(Frame)] /\ wsGone \in BOOLEAN

PeerType ==
    /\ opened \in [Side -> BOOLEAN] /\ closed \in [Side -> BOOLEAN]
    /\ expired \in [Side -> BOOLEAN] /\ answered \in BOOLEAN
    /\ trickle \in [Side -> {"off", "select", "writing", "done"}]
    /\ found \in Nat

StreamType == sPos \in 0 .. 3 /\ restarts \in Nat /\ dc \in Seq({Stream[i] : i \in 1 .. 3})

ReaderType ==
    /\ dcOpen \in BOOLEAN /\ p2pReady \in BOOLEAN
    /\ gen \in Nat
    /\ reader \in [Gen -> {"off", "reading", "done"} \cup Message]
    /\ \A g \in Gen : reader[g] # "off" => g <= gen
    /\ out \in [Gen -> Seq(Message)]
    /\ \A g \in Gen : Len(out[g]) <= Buffer /\ (g > gen => out[g] = << >>)
    /\ stopped \in [Gen -> BOOLEAN]
    /\ peek \in BOOLEAN /\ got \in 0 .. 3
    /\ pc["R"] \in {"trying", "tail"} => gen > 0

Due == IF pc["S"] \in {"offer", "await"} THEN 1 ELSE 0

Counted ==
    /\ found + restarts <= MaxExtras
    /\ gen + Offers(ws["R"]) + Due <= restarts + 1

TInv == PcType /\ WsType /\ PeerType /\ StreamType /\ ReaderType /\ Counted

LEMMA OffersInWs == WsType => \A x \in Side : Offers(ws[x]) \in Nat /\ ws[x] \in Seq(Frame)
<1> SUFFICES ASSUME WsType, NEW x \in Side
             PROVE  Offers(ws[x]) \in Nat /\ ws[x] \in Seq(Frame)
  OBVIOUS
<1>1. ws[x] \in Seq(Frame)
  BY DEF WsType
<1> QED BY <1>1, OffersType

LEMMA TInvTypes == TInv => TypeOK /\ (pc["R"] \in {"trying", "tail"} => gen \in Gen)
<1> SUFFICES ASSUME TInv PROVE TypeOK /\ gen <= MaxExtras + 1
  BY BoundAssumption DEF TInv, ReaderType, Gen, BoundAssumption
<1>1. MaxExtras \in Nat /\ Offers(ws["R"]) \in Nat
  BY BoundAssumption, OffersInWs DEF BoundAssumption, TInv, Side
<1>2. /\ found \in Nat /\ restarts \in Nat /\ gen \in Nat
      /\ found + restarts <= MaxExtras /\ gen + Offers(ws["R"]) + Due <= restarts + 1
  BY DEF TInv, PeerType, StreamType, ReaderType, Counted
<1>3. Due \in {0, 1}
  BY DEF Due
<1>4. found \in 0 .. MaxExtras /\ restarts \in 0 .. MaxExtras /\ gen \in 0 .. MaxExtras + 1
  BY <1>1, <1>2, <1>3
<1> QED BY <1>4 DEF TInv, TypeOK, PcType, WsType, PeerType, StreamType, ReaderType, Frame

LEMMA InitTInv == Init => TInv
<1> SUFFICES ASSUME Init PROVE TInv
  OBVIOUS
<1>1. \A S : << >> \in Seq(S) /\ Len(<< >>) = 0
  BY EmptySeq
<1>2. Offers(<< >>) = 0
  <2>1. OfferPlaces(<< >>) = {}
    BY <1>1 DEF OfferPlaces
  <2> QED BY <2>1, FS_EmptySet DEF Offers
<1>3. MaxExtras \in Nat /\ Buffer \in Nat
  BY BoundAssumption DEF BoundAssumption
<1>4. ws["R"] = << >> /\ pc["S"] = "offer" /\ pc["R"] = "first"
  BY DEF Init, Side
<1>5. PcType /\ WsType
  BY <1>1 DEF Init, PcType, WsType, Side
<1>6. PeerType /\ StreamType
  <2>1. PeerType
    BY DEF Init, PeerType, Side
  <2>2. dc \in Seq({Stream[i] : i \in 1 .. 3})
    BY <1>1 DEF Init
  <2>3. sPos \in 0 .. 3 /\ restarts \in Nat
    BY DEF Init
  <2> QED BY <2>1, <2>2, <2>3 DEF StreamType
<1>7. ReaderType
  <2>1. gen = 0 /\ got \in 0 .. 3
    BY DEF Init
  <2>4. dcOpen \in BOOLEAN /\ p2pReady \in BOOLEAN /\ peek \in BOOLEAN
    BY Zenon DEF Init
  <2>2. reader \in [Gen -> {"off", "reading", "done"} \cup Message] /\ \A g \in Gen : reader[g] = "off"
    BY DEF Init
  <2>3. /\ out \in [Gen -> Seq(Message)] /\ stopped \in [Gen -> BOOLEAN]
        /\ \A g \in Gen : out[g] = << >>
    BY <1>1 DEF Init
  <2> QED BY <1>1, <1>3, <1>4, <2>1, <2>2, <2>3, <2>4 DEF ReaderType
<1>8. Counted
  BY <1>2, <1>3, <1>4 DEF Init, Counted, Due
<1> QED BY <1>5, <1>6, <1>7, <1>8 DEF TInv

(* What a write does to the two queues.                                     *)
LEMMA WrittenFacts ==
  ASSUME WsType, NEW x \in Side, NEW m \in Frame
  PROVE  /\ Written(x, m) \in [Side -> Seq(Frame)]
         /\ Written(x, m)[x] = ws[x]
         /\ Written(x, m)[Other(x)] \in {ws[Other(x)], Append(ws[Other(x)], m)}
         /\ ~wsGone /\ x = "S" => Written(x, m)["R"] = Append(ws["R"], m)
         /\ pc["S"] \notin {"trying", "await"} => Written("R", m) = ws
<1>1. Other(x) \in Side /\ Other(x) # x /\ Other("S") = "R" /\ Other("R") = "S"
  BY DEF Other, Side
<1>2. ws[Other(x)] \in Seq(Frame) /\ Append(ws[Other(x)], m) \in Seq(Frame)
  BY <1>1, Appended DEF WsType
<1> QED BY <1>1, <1>2 DEF Written, WsType

LEMMA SentIs ==
  ASSUME NEW x, NEW m, NEW w \in Sent(x, m)
  PROVE  w = Written(x, m) \/ w = Written(x, "Torn")
BY DEF Sent

(* A write of one side, or none.                                            *)
LEMMA SenderWrote ==
  ASSUME WsType, NEW m \in Frame, ws' = ws \/ ws' = Written("S", m)
  PROVE  /\ ws' \in [Side -> Seq(Frame)] /\ ws'["S"] = ws["S"]
         /\ ws'["R"] = ws["R"] \/ ws'["R"] = Append(ws["R"], m)
<1>1. "S" \in Side /\ Other("S") = "R" /\ "R" \in Side
  BY DEF Other, Side
<1>2. CASE ws' = ws
  BY <1>2 DEF WsType
<1>3. CASE ws' = Written("S", m)
  BY <1>1, <1>3, WrittenFacts, ZenonT(40)
<1> QED BY <1>2, <1>3

LEMMA ReceiverWrote ==
  ASSUME WsType, NEW m \in Frame, ws' = ws \/ ws' = Written("R", m)
  PROVE  /\ ws' \in [Side -> Seq(Frame)] /\ ws'["R"] = ws["R"]
         /\ ws'["S"] = ws["S"] \/ ws'["S"] = Append(ws["S"], m)
<1>1. "R" \in Side /\ Other("R") = "S" /\ "S" \in Side
  BY DEF Other, Side
<1>2. CASE ws' = ws
  BY <1>2 DEF WsType
<1>3. CASE ws' = Written("R", m)
  BY <1>1, <1>3, WrittenFacts, ZenonT(40)
<1> QED BY <1>2, <1>3

LEMMA PcMoves ==
  ASSUME PcType, NEW x \in Side, NEW l, Goto(x, l),
         x = "S" => l \in {"offer", "trying", "joining", "failing", "ws", "p2p", "await", "dead"},
         x = "R" => l \in {"first", "trying", "tail", "ws", "p2p", "ok", "dead"}
  PROVE  PcType' /\ pc'[x] = l /\ pc'[Other(x)] = pc[Other(x)]
BY DEF PcType, Goto, Side, Other

LEMMA SameReader ==
  ASSUME ReaderType, UNCHANGED recvVars, pc'["R"] = pc["R"] \/ pc'["R"] \notin {"trying", "tail"}
  PROVE  ReaderType'
BY DEF ReaderType, recvVars

(* The sender's own steps.                                                  *)
LEMMA ClosedType ==
  ASSUME PeerType, NEW x \in Side, ClosePeer(x)
  PROVE  closed' \in [Side -> BOOLEAN]
BY DEF PeerType, ClosePeer

LEMMA ForgotType ==
  ASSUME PeerType, WsType, NEW x \in Side, Forget(x), closed' \in [Side -> BOOLEAN]
  PROVE  PeerType' /\ WsType' /\ ws'["R"] = ws["R"] /\ UNCHANGED found
<1>1. \A S : << >> \in Seq(S)
  BY EmptySeq
<1>2. PeerType'
  BY DEF PeerType, Forget
<1>3. WsType' /\ ws'["R"] = ws["R"]
  BY <1>1 DEF WsType, Forget, Side
<1> QED BY <1>2, <1>3 DEF Forget

LEMMA CountedFrame ==
  ASSUME TInv, NEW m \in Frame, ws'["R"] = Append(ws["R"], m) \/ ws'["R"] = ws["R"],
         UNCHANGED <<gen, found, restarts>>,
         Due' = 0, m = "Offer" => pc["S"] \in {"offer", "await"}
  PROVE  Counted'
<1>1. ws["R"] \in Seq(Frame) /\ Offers(ws["R"]) \in Nat
  BY OffersInWs DEF TInv, Side
<1>a. Offers(Append(ws["R"], m)) = IF m = "Offer" THEN Offers(ws["R"]) + 1 ELSE Offers(ws["R"])
  BY <1>1, OffersAppended
<1>b. Offers(ws'["R"]) = Offers(Append(ws["R"], m)) \/ Offers(ws'["R"]) = Offers(ws["R"])
  BY Zenon
<1>2. Offers(ws'["R"]) <= Offers(ws["R"]) + 1 /\ (m # "Offer" => Offers(ws'["R"]) = Offers(ws["R"]))
  BY <1>1, <1>a, <1>b
<1>3. Offers(ws'["R"]) \in Nat
  BY <1>1, <1>a, <1>b
<1>4. gen \in Nat /\ restarts \in Nat /\ Due \in {0, 1} /\ (pc["S"] \in {"offer", "await"} => Due = 1)
  BY DEF TInv, ReaderType, StreamType, Due
<1>5. gen + Offers(ws["R"]) + Due <= restarts + 1 /\ found + restarts <= MaxExtras
  BY DEF TInv, Counted
<1>6. gen + Offers(ws'["R"]) + 0 <= restarts + 1
  <2>1. CASE m = "Offer"
    BY <1>1, <1>2, <1>3, <1>4, <1>5, <2>1, SMTT(30)
  <2>2. CASE m # "Offer"
    BY <1>1, <1>2, <1>4, <1>5, <2>2
  <2> QED BY <2>1, <2>2
<1> QED BY <1>5, <1>6 DEF Counted

LEMMA SenderTInv ==
  ASSUME TInv, SenderStep \/ SenderExits \/ AwaitReady
  PROVE  TInv'
<1>t. PcType /\ WsType /\ PeerType /\ StreamType /\ ReaderType /\ Counted
  BY DEF TInv
<1>s. "S" \in Side /\ Other("S") = "R"
  BY DEF Side, Other
<1>q. ws["S"] \in Seq(Frame) /\ ws["R"] \in Seq(Frame) /\ DOMAIN ws = Side
  BY <1>t DEF WsType, Side
<1>m. {"Offer", "P2PReady", "P2PFail", "Ready", "Version", "Cand", "Torn"} \subseteq Frame
  BY DEF Frame, Message, Signals
<1>k. ASSUME UNCHANGED recvVars, pc'["R"] = pc["R"] PROVE ReaderType'
  BY <1>t, <1>k, SameReader
<1>1. CASE SendOffer
  <2>1. \/ Goto("S", "trying") /\ ws' = Written("S", "Offer") /\ ~wsGone
           /\ trickle' = [trickle EXCEPT !["S"] = "select"] /\ UNCHANGED closed
        \/ Goto("S", "failing") /\ UNCHANGED <<ws, trickle>> /\ ClosePeer("S")
    BY <1>1 DEF SendOffer
  <2>2. UNCHANGED <<wsGone, opened, expired, answered, found, senderVars, recvVars>> /\ pc["S"] = "offer"
    BY <1>1 DEF SendOffer
  <2>3. PcType' /\ pc'["R"] = pc["R"] /\ pc'["S"] \in {"trying", "failing"}
    BY <1>t, <1>s, <2>1, PcMoves
  <2>4. WsType' /\ (ws'["R"] = Append(ws["R"], "Offer") \/ ws'["R"] = ws["R"])
    <3>1. ws' = Written("S", "Offer") \/ ws' = ws
      BY <2>1
    <3>2. "Offer" \in Frame
      BY <1>m
    <3> QED BY <1>t, <2>2, <3>1, <3>2, SenderWrote DEF WsType
  <2>5. PeerType'
    BY <1>t, <1>s, <2>1, <2>2, ClosedType DEF PeerType
  <2>6. StreamType' /\ ReaderType'
    BY <1>t, <1>k, <2>2, <2>3 DEF StreamType, senderVars
  <2>7. Counted'
    BY <1>m, <2>2, <2>3, <2>4, CountedFrame DEF Due, senderVars, recvVars
  <2> QED BY <2>3, <2>4, <2>5, <2>6, <2>7 DEF TInv
<1>2. CASE SenderReads
  <2>1. ws' = [ws EXCEPT !["S"] = Tail(@)] /\ ws["S"] # << >> /\ answered' \in BOOLEAN
    BY <1>2 DEF SenderReads
  <2>2. Tail(ws["S"]) \in Seq(Frame)
    BY <1>q, <2>1, Taken
  <2>3. WsType' /\ ws'["R"] = ws["R"]
    BY <1>t, <1>2, <2>1, <2>2 DEF WsType, Side, SenderReads
  <2>4. PeerType'
    BY <1>t, <1>2, <2>1 DEF PeerType, SenderReads
  <2>5. PcType' /\ StreamType' /\ ReaderType' /\ Counted'
    BY <1>t, <1>2, <1>k, <2>3 DEF PcType, StreamType, Counted, Due, SenderReads, senderVars, recvVars
  <2> QED BY <2>3, <2>4, <2>5 DEF TInv
<1>3. CASE AnswerFails \/ SenderOpenCh \/ SenderGivesUp
  <2>1. /\ Forget("S") /\ UNCHANGED <<senderVars, recvVars>>
        /\ Goto("S", "failing") \/ Goto("S", "joining")
        /\ UNCHANGED closed \/ ClosePeer("S")
    BY <1>3 DEF AnswerFails, SenderOpenCh, SenderGivesUp
  <2>2. closed' \in [Side -> BOOLEAN]
    BY <1>t, <1>s, <2>1, ClosedType DEF PeerType
  <2>3. PeerType' /\ WsType' /\ ws'["R"] = ws["R"] /\ UNCHANGED found
    BY <1>t, <1>s, <2>1, <2>2, ForgotType
  <2>4. PcType' /\ pc'["R"] = pc["R"] /\ pc'["S"] \in {"failing", "joining"}
    BY <1>t, <1>s, <2>1, PcMoves
  <2>5. StreamType' /\ ReaderType'
    BY <1>t, <1>k, <2>1, <2>4 DEF StreamType, senderVars
  <2>6. Counted'
    BY <1>m, <2>1, <2>3, <2>4, CountedFrame DEF Due, senderVars, recvVars
  <2> QED BY <2>3, <2>4, <2>5, <2>6 DEF TInv
<1>4. CASE SendP2PReady \/ SendP2PFail
  <2>1. /\ UNCHANGED <<wsGone, opened, expired, answered, trickle, found, senderVars, recvVars>>
        /\ UNCHANGED closed \/ ClosePeer("S")
        /\ Goto("S", "p2p") \/ Goto("S", "dead") \/ Goto("S", "ws")
    BY <1>4 DEF SendP2PReady, SendP2PFail, peerVars, wsVars
  <2>2. PcType' /\ pc'["R"] = pc["R"] /\ pc'["S"] \in {"p2p", "dead", "ws"}
    BY <1>t, <1>s, <2>1, PcMoves
  <2>3. PeerType'
    BY <1>t, <1>s, <2>1, ClosedType DEF PeerType
  <2>m. PICK m \in {"P2PReady", "P2PFail", "Torn"} : ws' = ws \/ ws' = Written("S", m)
    BY <1>4, SentIs DEF SendP2PReady, SendP2PFail, wsVars
  <2>4. WsType' /\ (ws'["R"] = Append(ws["R"], m) \/ ws'["R"] = ws["R"])
    BY <1>t, <1>m, <2>1, <2>m, SenderWrote DEF WsType
  <2>5. StreamType' /\ ReaderType'
    BY <1>t, <1>k, <2>1, <2>2 DEF StreamType, senderVars
  <2>6. Counted'
    BY <1>m, <2>1, <2>2, <2>4, CountedFrame DEF Due, senderVars, recvVars
  <2> QED BY <2>2, <2>3, <2>4, <2>5, <2>6 DEF TInv
<1>5. CASE StreamWS
  <2>1. /\ UNCHANGED <<wsGone, peerVars, restarts, dc, recvVars>> /\ sPos < 3 /\ pc["S"] = "ws"
        /\ (sPos' = sPos + 1 /\ pc' = pc) \/ (Goto("S", "dead") /\ sPos' = sPos)
    BY <1>5 DEF StreamWS
  <2>2. PcType' /\ pc'["R"] = pc["R"] /\ pc'["S"] \in {"ws", "dead"}
    BY <1>t, <1>s, <2>1, PcMoves DEF PcType
  <2>3. Stream[sPos + 1] \in Frame /\ Stream[sPos + 1] # "Offer"
    <3>1. sPos \in 0 .. 2
      BY <1>t, <2>1 DEF StreamType
    <3> QED BY <3>1 DEF Frame, Message, Stream
  <2>m. PICK m \in {Stream[sPos + 1], "Torn"} : ws' = ws \/ ws' = Written("S", m)
    BY <1>5, SentIs DEF StreamWS
  <2>f. m \in Frame /\ m # "Offer"
    BY <1>m, <2>3, <2>m
  <2>4. WsType' /\ (ws'["R"] = Append(ws["R"], m) \/ ws'["R"] = ws["R"])
    BY <1>t, <2>1, <2>f, <2>m, SenderWrote DEF WsType
  <2>5. PeerType' /\ StreamType' /\ ReaderType'
    BY <1>t, <1>k, <2>1, <2>2 DEF PeerType, peerVars, StreamType
  <2>6. Counted'
    BY <2>1, <2>2, <2>f, <2>4, CountedFrame DEF Due, peerVars, recvVars
  <2> QED BY <2>2, <2>4, <2>5, <2>6 DEF TInv
<1>6. CASE StreamP2P
  <2>1. /\ UNCHANGED <<wsVars, peerVars, restarts, recvVars>> /\ sPos < 3 /\ pc["S"] = "p2p"
        /\ \/ /\ sPos' = sPos + 1 /\ pc' = pc
              /\ dc' = dc \/ dc' = Append(dc, Stream[sPos + 1])
           \/ Goto("S", "dead") /\ UNCHANGED <<sPos, dc>>
    BY <1>6 DEF StreamP2P
  <2>2. PcType' /\ pc'["R"] = pc["R"] /\ pc'["S"] \in {"p2p", "dead"}
    BY <1>t, <1>s, <2>1, PcMoves DEF PcType
  <2>3. sPos + 1 \in 1 .. 3
    BY <1>t, <2>1 DEF StreamType
  <2>4. StreamType'
    <3>1. Stream[sPos + 1] \in {Stream[i] : i \in 1 .. 3}
      BY <2>3
    <3>2. dc' \in Seq({Stream[i] : i \in 1 .. 3})
      <4>1. Append(dc, Stream[sPos + 1]) \in Seq({Stream[i] : i \in 1 .. 3})
        BY <1>t, <3>1, Appended DEF StreamType
      <4> QED BY <1>t, <2>1, <4>1 DEF StreamType
    <3>3. sPos' \in 0 .. 3
      BY <1>t, <2>1, <2>3 DEF StreamType
    <3> QED BY <1>t, <2>1, <3>2, <3>3 DEF StreamType
  <2>5. WsType' /\ PeerType' /\ ReaderType'
    BY <1>t, <1>k, <2>1, <2>2 DEF WsType, wsVars, PeerType, peerVars
  <2>6. Counted'
    BY <1>m, <2>1, <2>2, CountedFrame DEF Due, wsVars, peerVars, recvVars
  <2> QED BY <2>2, <2>4, <2>5, <2>6 DEF TInv
<1>7. CASE SenderExits
  <2>1. /\ UNCHANGED <<ws, opened, expired, answered, trickle, found, senderVars, recvVars>>
        /\ wsGone' = TRUE /\ ClosePeer("S") /\ Goto("S", "dead")
    BY <1>7 DEF SenderExits
  <2>2. PcType' /\ pc'["R"] = pc["R"] /\ pc'["S"] = "dead"
    BY <1>t, <1>s, <2>1, PcMoves DEF PcType
  <2>3. WsType' /\ PeerType'
    BY <1>t, <1>s, <2>1, ClosedType DEF WsType, PeerType
  <2>4. StreamType' /\ ReaderType'
    BY <1>t, <1>k, <2>1, <2>2 DEF StreamType, senderVars
  <2>5. Counted'
    BY <1>m, <2>1, <2>2, CountedFrame DEF Due, senderVars, recvVars
  <2> QED BY <2>2, <2>3, <2>4, <2>5 DEF TInv
<1>8. CASE AwaitReady
  <2>1. /\ UNCHANGED <<wsGone, peerVars, senderVars, recvVars>> /\ pc["S"] = "await"
        /\ Goto("S", "offer") \/ Goto("S", "dead")
        /\ \/ ws["S"] # << >> /\ ws' = [ws EXCEPT !["S"] = Tail(@)]
           \/ UNCHANGED ws
    BY <1>8 DEF AwaitReady
  <2>2. PcType' /\ pc'["R"] = pc["R"] /\ pc'["S"] \in {"offer", "dead"}
    BY <1>t, <1>s, <2>1, PcMoves DEF PcType
  <2>3. WsType' /\ ws'["R"] = ws["R"]
    <3>1. ws["S"] # << >> => Tail(ws["S"]) \in Seq(Frame)
      BY <1>q, Taken
    <3> QED BY <1>t, <2>1, <3>1 DEF WsType, Side
  <2>4. PeerType' /\ StreamType' /\ ReaderType'
    BY <1>t, <1>k, <2>1, <2>2 DEF PeerType, peerVars, StreamType, senderVars
  <2>5. Counted'
    <3>1. Offers(ws["R"]) \in Nat /\ gen \in Nat /\ restarts \in Nat
      BY <1>t, OffersInWs DEF Side, ReaderType, StreamType
    <3>2. Due = 1 /\ Due' \in {0, 1}
      BY <2>1 DEF Due
    <3> QED BY <1>t, <2>1, <2>3, <3>1, <3>2 DEF Counted, peerVars, senderVars, recvVars
  <2> QED BY <2>2, <2>3, <2>4, <2>5 DEF TInv
<1> QED BY <1>1, <1>2, <1>3, <1>4, <1>5, <1>6, <1>7, <1>8 DEF SenderStep

LEMMA RestartTInv == TInv /\ Restart => TInv'
<1> SUFFICES ASSUME TInv, Restart PROVE TInv'
  OBVIOUS
<1>t. PcType /\ WsType /\ PeerType /\ StreamType /\ ReaderType /\ Counted
  BY DEF TInv
<1>s. "S" \in Side /\ Other("S") = "R" /\ "Version" \in Frame
  BY DEF Side, Other, Frame, Message, Signals
<1>1. /\ found + restarts < MaxExtras /\ ~wsGone /\ restarts' = restarts + 1
      /\ ws' = [Written("S", "Version") EXCEPT !["S"] = << >>]
      /\ Goto("S", "await")
      /\ opened' = [opened EXCEPT !["S"] = FALSE] /\ closed' = [closed EXCEPT !["S"] = FALSE]
      /\ expired' = [expired EXCEPT !["S"] = FALSE] /\ trickle' = [trickle EXCEPT !["S"] = "off"]
      /\ answered' = FALSE /\ sPos' = 0 /\ UNCHANGED <<wsGone, found, dc, recvVars>>
  BY DEF Restart
<1>2. PcType' /\ pc'["R"] = pc["R"] /\ pc'["S"] = "await"
  BY <1>t, <1>s, <1>1, PcMoves
<1>3. WsType' /\ ws'["R"] = Append(ws["R"], "Version")
  <2>1. << >> \in Seq(Frame)
    BY EmptySeq
  <2>2. Written("S", "Version") \in [Side -> Seq(Frame)] /\ Written("S", "Version")["R"] = Append(ws["R"], "Version")
    BY <1>t, <1>s, <1>1, WrittenFacts
  <2> QED BY <1>t, <1>1, <2>1, <2>2 DEF WsType, Side
<1>4. PeerType'
  BY <1>t, <1>1 DEF PeerType
<1>5. StreamType' /\ ReaderType'
  BY <1>t, <1>1, <1>2, SameReader DEF StreamType
<1>6. Counted'
  <2>1. ws["R"] \in Seq(Frame) /\ Offers(ws["R"]) \in Nat
    BY <1>t, OffersInWs DEF Side
  <2>2. Offers(Append(ws["R"], "Version")) = Offers(ws["R"])
    BY <1>s, <2>1, OffersAppended
  <2>3. Offers(ws'["R"]) = Offers(ws["R"])
    BY <1>3, <2>2
  <2>4. Due \in {0, 1} /\ Due' = 1
    BY <1>2 DEF Due
  <2>5. gen' = gen /\ found' = found /\ gen \in Nat /\ found \in Nat /\ restarts \in Nat
    BY <1>t, <1>1 DEF recvVars, ReaderType, PeerType, StreamType
  <2>6. MaxExtras \in Nat
    BY BoundAssumption DEF BoundAssumption
  <2> QED BY <1>t, <1>1, <2>1, <2>3, <2>4, <2>5, <2>6 DEF Counted
<1> QED BY <1>2, <1>3, <1>4, <1>5, <1>6 DEF TInv

(* Steps that leave the programs where they are.                            *)
LEMMA QuietCounted ==
  ASSUME TInv, UNCHANGED <<pc, gen, restarts>>, found' + restarts <= MaxExtras,
         Offers(ws'["R"]) \in Nat, Offers(ws'["R"]) <= Offers(ws["R"])
  PROVE  Counted'
<1>1. Offers(ws["R"]) \in Nat /\ gen \in Nat /\ restarts \in Nat /\ Due \in {0, 1} /\ Due' = Due
  BY OffersInWs DEF TInv, Side, ReaderType, StreamType, Due
<1>2. gen + Offers(ws["R"]) + Due <= restarts + 1
  BY DEF TInv, Counted
<1>3. gen' + Offers(ws'["R"]) + Due' <= restarts' + 1
  BY <1>1, <1>2
<1> QED BY <1>3 DEF Counted

LEMMA OutsideTInv ==
  ASSUME TInv, LoseWS \/ \E x \in Side : TrickleStep(x) \/ Opens(x) \/ PeerFails(x) \/ TimeOut(x)
  PROVE  TInv'
<1>t. PcType /\ WsType /\ PeerType /\ StreamType /\ ReaderType /\ Counted
  BY DEF TInv
<1>q. ws["R"] \in Seq(Frame) /\ Offers(ws["R"]) \in Nat
  BY <1>t, OffersInWs DEF Side
<1>o. MaxExtras \in Nat /\ found \in Nat /\ restarts \in Nat /\ found + restarts <= MaxExtras
  BY <1>t, BoundAssumption DEF BoundAssumption, PeerType, StreamType, Counted
<1>k. ASSUME UNCHANGED <<pc, senderVars, recvVars>>
      PROVE  PcType' /\ StreamType' /\ ReaderType'
  BY <1>t, <1>k, SameReader DEF PcType, StreamType, senderVars
<1>l. ASSUME UNCHANGED <<pc, wsVars, senderVars, recvVars>>, found' + restarts <= MaxExtras, PeerType'
      PROVE  TInv'
  <2>1. Counted'
    <3>1. ws' = ws /\ UNCHANGED <<pc, gen, restarts>>
      BY <1>l DEF wsVars, senderVars, recvVars
    <3> QED BY <1>l, <1>q, <3>1, QuietCounted
  <2>2. WsType'
    BY <1>t, <1>l DEF WsType, wsVars
  <2> QED BY <1>k, <1>l, <2>1, <2>2 DEF TInv
<1>1. ASSUME NEW x \in Side, TrickleTake(x)
      PROVE  TInv'
  <2>1. /\ found + restarts < MaxExtras /\ found' = found + 1
        /\ trickle' = [trickle EXCEPT ![x] = "writing"]
        /\ UNCHANGED <<pc, wsVars, opened, closed, expired, answered, senderVars, recvVars>>
    BY <1>1 DEF TrickleTake
  <2>2. PeerType'
    BY <1>t, <1>1, <2>1 DEF PeerType
  <2>3. found' + restarts <= MaxExtras
    BY <1>o, <2>1
  <2> QED BY <1>l, <2>1, <2>2, <2>3
<1>2. ASSUME NEW x \in Side, TrickleWrite(x)
      PROVE  TInv'
  <2>1. /\ ws' = Written(x, "Cand") /\ trickle' = [trickle EXCEPT ![x] = "select"]
        /\ UNCHANGED <<pc, wsGone, opened, closed, expired, answered, found, senderVars, recvVars>>
    BY <1>2 DEF TrickleWrite
  <2>2. PeerType'
    BY <1>t, <1>2, <2>1 DEF PeerType
  <2>m. "Cand" \in Frame /\ Other("S") = "R"
    BY DEF Frame, Message, Signals, Other
  <2>3. WsType' /\ (ws'["R"] = ws["R"] \/ ws'["R"] = Append(ws["R"], "Cand"))
    <3>1. CASE x = "S"
      BY <1>t, <2>1, <2>m, <3>1, SenderWrote DEF WsType
    <3>2. CASE x = "R"
      BY <1>t, <2>1, <2>m, <3>2, ReceiverWrote DEF WsType
    <3> QED BY <3>1, <3>2 DEF Side
  <2>4. Offers(ws'["R"]) = Offers(ws["R"])
    <3>1. Offers(Append(ws["R"], "Cand")) = Offers(ws["R"])
      BY <1>q, <2>m, OffersAppended
    <3> QED BY <2>3, <3>1
  <2>5. Counted'
    <3>1. UNCHANGED <<pc, gen, found, restarts>>
      BY <2>1 DEF senderVars, recvVars
    <3> QED BY <1>o, <1>q, <2>4, <3>1, QuietCounted
  <2> QED BY <1>k, <2>1, <2>2, <2>3, <2>5 DEF TInv
<1>3. ASSUME NEW x \in Side, TrickleStop(x) \/ Opens(x) \/ PeerFails(x) \/ TimeOut(x)
      PROVE  TInv'
  <2>1. /\ UNCHANGED <<pc, wsVars, answered, found, senderVars, recvVars>>
        /\ trickle' = trickle \/ trickle' = [trickle EXCEPT ![x] = "done"]
        /\ opened' = opened \/ opened' = [opened EXCEPT ![x] = TRUE]
        /\ closed' = closed \/ closed' = [closed EXCEPT ![x] = TRUE]
        /\ expired' = expired \/ expired' = [expired EXCEPT ![x] = TRUE]
    BY <1>3 DEF TrickleStop, Opens, PeerFails, TimeOut, ClosePeer
  <2>2. PeerType'
    BY <1>t, <1>3, <2>1 DEF PeerType
  <2> QED BY <1>l, <1>o, <2>1, <2>2
<1>4. CASE LoseWS
  <2>1. PICK n \in 0 .. Len(ws["R"]) : ws' = [ws EXCEPT !["R"] = SubSeq(@, 1, n)]
    BY <1>4 DEF LoseWS
  <2>2. wsGone' = TRUE /\ UNCHANGED <<pc, peerVars, senderVars, recvVars>>
    BY <1>4 DEF LoseWS
  <2>3. SubSeq(ws["R"], 1, n) \in Seq(Frame) /\ Offers(SubSeq(ws["R"], 1, n)) <= Offers(ws["R"])
    BY <1>q, <2>1, Cut, OffersCut
  <2>4. WsType' /\ ws'["R"] = SubSeq(ws["R"], 1, n)
    BY <1>t, <2>1, <2>2, <2>3 DEF WsType, Side
  <2>5. PeerType'
    BY <1>t, <2>2 DEF PeerType, peerVars
  <2>6. Offers(ws'["R"]) \in Nat /\ Offers(ws'["R"]) <= Offers(ws["R"])
    BY <2>3, <2>4, OffersType
  <2>7. Counted'
    BY <1>o, <2>2, <2>6, QuietCounted DEF peerVars, senderVars, recvVars
  <2> QED BY <1>k, <2>2, <2>4, <2>5, <2>7 DEF TInv
<1> QED BY <1>1, <1>2, <1>3, <1>4 DEF TrickleStep

(* The reader goroutines.                                                   *)
LEMMA TakeFacts ==
  ASSUME WsType, NEW m, Take(m), UNCHANGED wsGone
  PROVE  /\ WsType' /\ m \in Message /\ ws'["S"] = ws["S"]
         /\ \/ ws["R"] # << >> /\ m = Head(ws["R"]) /\ ws'["R"] = Tail(ws["R"])
            \/ m = "error" /\ ws' = ws /\ wsGone
         /\ Offers(ws'["R"]) \in Nat /\ Offers(ws'["R"]) <= Offers(ws["R"])
<1>q. ws["R"] \in Seq(Frame) /\ Offers(ws["R"]) \in Nat
  BY OffersInWs DEF Side
<1>1. CASE ws["R"] # << >> /\ m = Head(ws["R"]) /\ ws' = [ws EXCEPT !["R"] = Tail(@)]
  <2>1. Tail(ws["R"]) \in Seq(Frame) /\ Head(ws["R"]) \in Frame
    BY <1>q, <1>1, Taken
  <2>2. WsType' /\ ws'["R"] = Tail(ws["R"]) /\ ws'["S"] = ws["S"] /\ m \in Message
    BY <1>1, <2>1 DEF WsType, Side, Frame
  <2>3. Offers(Tail(ws["R"])) \in Nat /\ Offers(Tail(ws["R"])) <= Offers(ws["R"])
    <3>1. Offers(Tail(ws["R"])) <= IF Head(ws["R"]) = "Offer" THEN Offers(ws["R"]) - 1 ELSE Offers(ws["R"])
      BY <1>q, <1>1, OffersTaken
    <3>2. Offers(Tail(ws["R"])) \in Nat
      BY <2>1, OffersType
    <3> QED BY <1>q, <3>1, <3>2
  <2> QED BY <1>1, <2>2, <2>3
<1>2. CASE m = "error" /\ ws' = ws /\ wsGone
  BY <1>2, <1>q DEF WsType, Message
<1> QED BY <1>1, <1>2 DEF Take

LEMMA ReaderTInv ==
  ASSUME TInv, NEW g \in Gen, ReaderStep(g)
  PROVE  TInv'
<1>t. PcType /\ WsType /\ PeerType /\ StreamType /\ ReaderType /\ Counted
  BY DEF TInv
<1>o. /\ found \in Nat /\ restarts \in Nat /\ found + restarts <= MaxExtras
      /\ Offers(ws["R"]) \in Nat
  BY <1>t, OffersInWs DEF PeerType, StreamType, Counted, Side
<1>1. CASE ReaderReads(g)
  <2>1. PICK m \in Message : Take(m) /\ reader' = [reader EXCEPT ![g] = m]
    BY <1>1 DEF ReaderReads
  <2>2. /\ reader[g] = "reading"
        /\ UNCHANGED <<pc, wsGone, peerVars, senderVars, dcOpen, p2pReady, gen, out, stopped, peek, got>>
    BY <1>1 DEF ReaderReads
  <2>3. WsType' /\ Offers(ws'["R"]) \in Nat /\ Offers(ws'["R"]) <= Offers(ws["R"])
    BY <1>t, <2>1, <2>2, TakeFacts
  <2>4. ReaderType'
    <3>1. /\ reader' \in [Gen -> {"off", "reading", "done"} \cup Message]
          /\ \A h \in Gen : reader'[h] # "off" => reader[h] # "off"
      BY <1>t, <2>1, <2>2 DEF ReaderType
    <3> QED BY <1>t, <2>2, <3>1 DEF ReaderType
  <2>5. Counted'
    BY <1>o, <2>2, <2>3, QuietCounted DEF peerVars, senderVars
  <2>6. PcType' /\ PeerType' /\ StreamType'
    BY <1>t, <2>2 DEF PcType, PeerType, peerVars, StreamType, senderVars
  <2> QED BY <2>3, <2>4, <2>5, <2>6 DEF TInv
<1>2. CASE ReaderPasses(g)
  <2>1. /\ reader[g] \in Message
        /\ \/ /\ Len(out[g]) < Buffer /\ out' = [out EXCEPT ![g] = Append(@, reader[g])]
           \/ UNCHANGED out
        /\ \E l \in {"done", "reading"} : reader' = [reader EXCEPT ![g] = l]
        /\ UNCHANGED <<pc, wsVars, peerVars, senderVars, dcOpen, p2pReady, gen, stopped, peek, got>>
    BY <1>2 DEF ReaderPasses, Next_, HasRoom
  <2>2. reader[g] # "off"
    BY <2>1 DEF Message, Stream, Signals
  <2>3. ReaderType'
    <3>1. /\ reader' \in [Gen -> {"off", "reading", "done"} \cup Message]
          /\ \A h \in Gen : reader'[h] # "off" => reader[h] # "off"
      BY <1>t, <2>1, <2>2 DEF ReaderType
    <3>2. out[g] \in Seq(Message) /\ Len(out[g]) \in Nat /\ Buffer \in Nat /\ gen \in Nat
      BY <1>t, LenProperties, BoundAssumption DEF ReaderType, BoundAssumption
    <3>3. Append(out[g], reader[g]) \in Seq(Message) /\ Len(Append(out[g], reader[g])) = Len(out[g]) + 1
      BY <2>1, <3>2, Appended
    <3>4. g <= gen
      BY <1>t, <2>2 DEF ReaderType
    <3>5. /\ out' \in [Gen -> Seq(Message)]
          /\ \A h \in Gen : Len(out'[h]) <= Buffer /\ (h > gen => out'[h] = << >>)
      <4>1. CASE UNCHANGED out
        BY <1>t, <4>1 DEF ReaderType
      <4>2. CASE Len(out[g]) < Buffer /\ out' = [out EXCEPT ![g] = Append(@, reader[g])]
        <5>1. out' \in [Gen -> Seq(Message)] /\ out'[g] = Append(out[g], reader[g])
          BY <1>t, <3>3, <4>2 DEF ReaderType
        <5>2. Len(out'[g]) <= Buffer
          BY <3>2, <3>3, <4>2, <5>1
        <5>3. \A h \in Gen : h # g => out'[h] = out[h]
          BY <1>t, <4>2 DEF ReaderType
        <5>4. g \in Int /\ ~(g > gen)
          BY <3>2, <3>4 DEF Gen
        <5> QED BY <1>t, <5>1, <5>2, <5>3, <5>4 DEF ReaderType
      <4> QED BY <2>1, <4>1, <4>2
    <3> QED BY <1>t, <2>1, <3>1, <3>5 DEF ReaderType
  <2>4. Counted'
    BY <1>o, <2>1, QuietCounted DEF wsVars, peerVars, senderVars
  <2>5. PcType' /\ PeerType' /\ StreamType' /\ WsType'
    BY <1>t, <2>1 DEF PcType, PeerType, peerVars, StreamType, senderVars, WsType, wsVars
  <2> QED BY <2>3, <2>4, <2>5 DEF TInv
<1> QED BY <1>1, <1>2 DEF ReaderStep

(* The receiver.  What a message does, whoever read it.                     *)
LEMMA ConsumeFacts ==
  ASSUME TInv, NEW m \in Message, Consume(m), pc["R"] \in {"tail", "ws", "p2p"}
  PROVE  /\ PcType' /\ pc'["S"] = pc["S"] /\ pc'["R"] \in {pc["R"], "first", "ok", "dead"}
         /\ pc'["R"] = "first" <=> m = "Version"
         /\ m = "Version" => Stop(gen) /\ got' = 0
         /\ m # "Version" => UNCHANGED stopped
         /\ got' \in 0 .. 3 /\ peek' \in BOOLEAN /\ stopped' \in [Gen -> BOOLEAN]
<1>t. PcType /\ ReaderType
  BY DEF TInv
<1>s. "R" \in Side /\ Other("R") = "S"
  BY DEF Side, Other
<1>1. CASE Rehandshake(m) /\ Stop(gen)
  <2>1. m = "Version" /\ got' = 0 /\ Goto("R", "first")
    BY <1>1 DEF Rehandshake
  <2>4. peek' \in BOOLEAN
    BY <1>1, Zenon DEF Rehandshake
  <2>5. got' \in 0 .. 3
    BY <2>1
  <2>2. PcType' /\ pc'["S"] = pc["S"] /\ pc'["R"] = "first"
    BY <1>t, <1>s, <2>1, PcMoves
  <2>3. stopped' \in [Gen -> BOOLEAN]
    BY <1>1, <1>t DEF Stop, ReaderType
  <2> QED BY <1>1, <2>1, <2>2, <2>3, <2>4, <2>5
<1>2. CASE (InFile(m) \/ AfterFile(m)) /\ UNCHANGED stopped
  <2>1. m # "Version"
    BY <1>2 DEF InFile, AfterFile
  <2>2. pc' = pc \/ Goto("R", "dead") \/ Goto("R", "ok")
    BY <1>2 DEF InFile, AfterFile
  <2>3. PcType' /\ pc'["S"] = pc["S"] /\ pc'["R"] \in {pc["R"], "ok", "dead"}
    BY <1>t, <1>s, <2>2, PcMoves DEF PcType
  <2>4. got' \in {got, 1, 2, 3} /\ peek' \in {peek, TRUE, FALSE}
    BY <1>2 DEF InFile, AfterFile
  <2>5. got' \in 0 .. 3
    BY <1>t, <2>4 DEF ReaderType
  <2>6. peek' \in BOOLEAN
    BY <1>t, <2>4 DEF ReaderType
  <2>7. stopped' = stopped /\ stopped' \in [Gen -> BOOLEAN]
    BY <1>2, <1>t DEF ReaderType
  <2>8. pc'["R"] # "first"
    BY <2>3
  <2> QED BY <2>1, <2>3, <2>5, <2>6, <2>7, <2>8
<1> QED BY <1>1, <1>2 DEF Consume

LEMMA ReadyFacts ==
  ASSUME WsType, NEW m \in Message, NEW w \in [Side -> Seq(Frame)], w["S"] = ws["S"],
         NEW v \in AndReady(m, w)
  PROVE  /\ v \in [Side -> Seq(Frame)] /\ v["R"] = w["R"]
         /\ \/ v["S"] = ws["S"]
            \/ m = "Version" /\ v["S"] \in {Append(ws["S"], "Ready"), Append(ws["S"], "Torn")}
<1>1. /\ "Ready" \in Frame /\ "Torn" \in Frame /\ Other("R") = "S"
      /\ "R" \in Side /\ "S" \in Side
  BY DEF Frame, Message, Signals, Other, Side
<1>2. CASE m = "Version"
  <2>1. PICK u \in Sent("R", "Ready") : v = [w EXCEPT !["S"] = u["S"]]
    BY <1>2 DEF AndReady
  <2>2. PICK r \in {"Ready", "Torn"} : u = Written("R", r)
    BY <2>1, SentIs
  <2>3. r \in Frame
    BY <1>1, <2>2
  <2>4. u \in [Side -> Seq(Frame)] /\ u["S"] \in {ws["S"], Append(ws["S"], r)}
    BY <1>1, <2>2, <2>3, WrittenFacts
  <2>5. v \in [Side -> Seq(Frame)] /\ v["R"] = w["R"] /\ v["S"] = u["S"]
    BY <1>1, <2>1, <2>4 DEF Side
  <2> QED BY <1>2, <2>2, <2>4, <2>5
<1>3. CASE m # "Version"
  BY <1>3 DEF AndReady
<1> QED BY <1>2, <1>3

LEMMA ReadTailTInv == TInv /\ ReadTail => TInv'
<1> SUFFICES ASSUME TInv, ReadTail PROVE TInv'
  OBVIOUS
<1>t. PcType /\ WsType /\ PeerType /\ StreamType /\ ReaderType /\ Counted
  BY DEF TInv
<1>o. /\ found \in Nat /\ restarts \in Nat /\ found + restarts <= MaxExtras
      /\ Offers(ws["R"]) \in Nat
  BY <1>t, OffersInWs DEF PeerType, StreamType, Counted, Side
<1> DEFINE m == Head(out[gen])
<1>1. /\ pc["R"] = "tail" /\ out[gen] # << >> /\ Consume(m)
      /\ out' = [out EXCEPT ![gen] = Tail(@)] /\ ws' \in AndReady(m, ws)
      /\ UNCHANGED <<wsGone, peerVars, senderVars, dcOpen, p2pReady, gen, reader>>
  BY DEF ReadTail
<1>2. gen \in Gen /\ out[gen] \in Seq(Message)
  BY <1>t, <1>1, TInvTypes DEF ReaderType
<1>3. m \in Message /\ Tail(out[gen]) \in Seq(Message) /\ Len(Tail(out[gen])) <= Len(out[gen]) /\ Len(out[gen]) \in Nat
  <2>1. m \in Message /\ Tail(out[gen]) \in Seq(Message) /\ Len(Tail(out[gen])) = Len(out[gen]) - 1
    BY <1>1, <1>2, Taken
  <2>2. Len(out[gen]) \in Nat
    BY <1>2, LenProperties
  <2> QED BY <2>1, <2>2
<1> HIDE DEF m
<1>4. WsType' /\ ws'["R"] = ws["R"]
  BY <1>t, <1>1, <1>3, ReadyFacts DEF WsType
<1>5. /\ PcType' /\ pc'["S"] = pc["S"] /\ pc'["R"] \in {"tail", "first", "ok", "dead"}
      /\ got' \in 0 .. 3 /\ peek' \in BOOLEAN /\ stopped' \in [Gen -> BOOLEAN]
  BY <1>1, <1>3, ConsumeFacts
<1>6. /\ out' \in [Gen -> Seq(Message)]
      /\ \A h \in Gen : Len(out'[h]) <= Buffer /\ (h > gen => out'[h] = << >>)
  <2>1. out' \in [Gen -> Seq(Message)] /\ out'[gen] = Tail(out[gen])
    BY <1>t, <1>1, <1>2, <1>3 DEF ReaderType
  <2>2. \A h \in Gen : h # gen => out'[h] = out[h]
    BY <1>t, <1>1 DEF ReaderType
  <2>3. Len(out[gen]) <= Buffer /\ Buffer \in Nat /\ Len(out'[gen]) \in Nat
    BY <1>t, <1>2, <1>3, <2>1, BoundAssumption, LenProperties DEF ReaderType, BoundAssumption
  <2>4. Len(out'[gen]) <= Buffer
    BY <1>3, <2>1, <2>3
  <2>5. gen \in Nat /\ ~(gen > gen)
    BY <1>t DEF ReaderType
  <2> QED BY <1>t, <2>1, <2>2, <2>4, <2>5 DEF ReaderType
<1>7. ReaderType'
  <2>1. pc'["R"] \in {"trying", "tail"} => gen > 0
    BY <1>t, <1>1 DEF ReaderType
  <2> QED BY <1>t, <1>1, <1>5, <1>6, <2>1 DEF ReaderType
<1>8. PeerType' /\ StreamType'
  BY <1>t, <1>1 DEF PeerType, peerVars, StreamType, senderVars
<1>9. Counted'
  <2>1. Due' = Due /\ Offers(ws'["R"]) = Offers(ws["R"])
    BY <1>4, <1>5 DEF Due
  <2> QED BY <1>t, <1>1, <2>1 DEF Counted, peerVars, senderVars
<1> QED BY <1>4, <1>5, <1>7, <1>8, <1>9 DEF TInv

LEMMA ReadWSTInv == TInv /\ (ReadWS \/ ReadP2P) => TInv'
<1> SUFFICES ASSUME TInv, ReadWS \/ ReadP2P PROVE TInv'
  OBVIOUS
<1>t. PcType /\ WsType /\ PeerType /\ StreamType /\ ReaderType /\ Counted
  BY DEF TInv
<1>q. ws["R"] \in Seq(Frame) /\ Offers(ws["R"]) \in Nat
  BY <1>t, OffersInWs DEF Side
<1>1. PICK m \in Message :
        /\ Consume(m) /\ pc["R"] \in {"ws", "p2p"}
        /\ UNCHANGED <<wsGone, peerVars, sPos, restarts, dcOpen, p2pReady, gen, reader, out>>
        /\ dc' \in Seq({Stream[i] : i \in 1 .. 3})
        /\ WsType' /\ Offers(ws'["R"]) \in Nat /\ Offers(ws'["R"]) <= Offers(ws["R"])
  <2>1. CASE ReadWS /\ ws["R"] # << >> /\ Consume(Head(ws["R"]))
             /\ ws' \in AndReady(Head(ws["R"]), [ws EXCEPT !["R"] = Tail(@)])
    <3> DEFINE m == Head(ws["R"])
               w == [ws EXCEPT !["R"] = Tail(@)]
    <3>1. m \in Frame /\ m \in Message /\ Tail(ws["R"]) \in Seq(Frame)
      BY <1>q, <2>1, Taken DEF Frame
    <3>2. w \in [Side -> Seq(Frame)] /\ w["S"] = ws["S"] /\ w["R"] = Tail(ws["R"])
      BY <1>t, <3>1 DEF WsType, Side
    <3> HIDE DEF w
    <3>3. ws' \in [Side -> Seq(Frame)] /\ ws'["R"] = Tail(ws["R"])
      <4>1. ws' \in AndReady(m, w)
        BY <2>1 DEF w
      <4> HIDE DEF m
      <4> QED BY <1>t, <3>1, <3>2, <4>1, ReadyFacts
    <3>4. Offers(Tail(ws["R"])) \in Nat /\ Offers(Tail(ws["R"])) <= Offers(ws["R"])
      <4>1. Offers(Tail(ws["R"])) <= IF m = "Offer" THEN Offers(ws["R"]) - 1 ELSE Offers(ws["R"])
        BY <1>q, <2>1, OffersTaken
      <4>2. Offers(Tail(ws["R"])) \in Nat
        BY <3>1, OffersType
      <4> QED BY <1>q, <4>1, <4>2
    <3>5. /\ pc["R"] = "ws" /\ UNCHANGED <<wsGone, peerVars, senderVars, dcOpen, p2pReady, gen, reader, out>>
      BY <2>1 DEF ReadWS
    <3> QED BY <1>t, <2>1, <3>1, <3>3, <3>4, <3>5 DEF WsType, StreamType, senderVars
  <2>2. CASE ReadWS /\ Consume("error") /\ UNCHANGED ws
    <3>1. /\ pc["R"] = "ws" /\ UNCHANGED <<wsGone, peerVars, senderVars, dcOpen, p2pReady, gen, reader, out>>
      BY <2>2 DEF ReadWS
    <3>2. "error" \in Message
      BY DEF Message
    <3>3. WsType' /\ Offers(ws'["R"]) \in Nat /\ Offers(ws'["R"]) <= Offers(ws["R"])
      BY <1>t, <1>q, <2>2, <3>1 DEF WsType
    <3>4. UNCHANGED <<sPos, restarts>> /\ dc' \in Seq({Stream[i] : i \in 1 .. 3})
      BY <1>t, <3>1 DEF StreamType, senderVars
    <3> QED BY <2>2, <3>1, <3>2, <3>3, <3>4
  <2>3. CASE ReadP2P
    <3>1. /\ pc["R"] = "p2p"
          /\ UNCHANGED <<wsVars, peerVars, sPos, restarts, dcOpen, p2pReady, gen, reader, out>>
      BY <2>3 DEF ReadP2P
    <3>2. \/ dc # << >> /\ Consume(Head(dc)) /\ dc' = Tail(dc)
          \/ Consume("error") /\ dc' = << >>
      BY <2>3 DEF ReadP2P
    <3>3. dc # << >> => Head(dc) \in Message /\ Tail(dc) \in Seq({Stream[i] : i \in 1 .. 3})
      <4>1. dc # << >> => Head(dc) \in {Stream[i] : i \in 1 .. 3} /\ Tail(dc) \in Seq({Stream[i] : i \in 1 .. 3})
        BY <1>t, Taken DEF StreamType
      <4> QED BY <4>1 DEF Message
    <3>4. "error" \in Message /\ << >> \in Seq({Stream[i] : i \in 1 .. 3})
      BY EmptySeq DEF Message
    <3>5. WsType' /\ Offers(ws'["R"]) = Offers(ws["R"])
      BY <1>t, <3>1 DEF WsType, wsVars
    <3>6. wsGone' = wsGone /\ Offers(ws'["R"]) \in Nat /\ Offers(ws'["R"]) <= Offers(ws["R"])
      BY <1>q, <3>1, <3>5 DEF wsVars
    <3>7. CASE dc # << >> /\ Consume(Head(dc)) /\ dc' = Tail(dc)
      BY <3>1, <3>3, <3>5, <3>6, <3>7
    <3>8. CASE Consume("error") /\ dc' = << >>
      BY <3>1, <3>4, <3>5, <3>6, <3>8
    <3> QED BY <3>2, <3>7, <3>8
  <2> QED BY <2>1, <2>2, <2>3 DEF ReadWS
<1>2. /\ PcType' /\ pc'["S"] = pc["S"] /\ pc'["R"] \in {"ws", "p2p", "first", "ok", "dead"}
      /\ got' \in 0 .. 3 /\ peek' \in BOOLEAN /\ stopped' \in [Gen -> BOOLEAN]
  BY <1>1, ConsumeFacts
<1>3. ReaderType'
  BY <1>t, <1>1, <1>2 DEF ReaderType
<1>4. PeerType' /\ StreamType'
  BY <1>t, <1>1 DEF PeerType, peerVars, StreamType
<1>5. Counted'
  <2>1. Due' = Due /\ Due \in {0, 1}
    BY <1>2 DEF Due
  <2>2. gen \in Nat /\ restarts \in Nat /\ UNCHANGED <<gen, restarts, found>>
    BY <1>t, <1>1 DEF ReaderType, StreamType, peerVars
  <2> QED BY <1>t, <1>q, <1>1, <2>1, <2>2 DEF Counted
<1> QED BY <1>1, <1>2, <1>3, <1>4, <1>5 DEF TInv

(* Steps of the receiver that leave the connection towards it alone.        *)
LEMMA ReceiverCounted ==
  ASSUME TInv, ws'["R"] = ws["R"], pc'["S"] = pc["S"], UNCHANGED <<gen, found, restarts>>
  PROVE  Counted'
<1>1. Due' = Due /\ Offers(ws'["R"]) = Offers(ws["R"])
  BY DEF Due
<1> QED BY <1>1 DEF TInv, Counted

LEMMA ReceiverEndsTInv == TInv /\ (ReceiveFirstFails \/ ReadDeadline \/ ReceiverExits) => TInv'
<1> SUFFICES ASSUME TInv, ReceiveFirstFails \/ ReadDeadline \/ ReceiverExits PROVE TInv'
  OBVIOUS
<1>t. PcType /\ WsType /\ PeerType /\ StreamType /\ ReaderType /\ Counted
  BY DEF TInv
<1>s. "R" \in Side /\ Other("R") = "S"
  BY DEF Side, Other
<1>1. /\ UNCHANGED <<ws, opened, expired, answered, trickle, found, senderVars, recvVars>>
      /\ wsGone' = wsGone \/ wsGone' = TRUE
      /\ UNCHANGED closed \/ ClosePeer("R")
      /\ pc' = pc \/ Goto("R", "dead")
  BY DEF ReceiveFirstFails, ReadDeadline, ReceiverExits, wsVars, peerVars
<1>2. PcType' /\ pc'["S"] = pc["S"] /\ pc'["R"] \in {pc["R"], "dead"}
  BY <1>t, <1>s, <1>1, PcMoves DEF PcType
<1>3. WsType' /\ PeerType'
  BY <1>t, <1>s, <1>1, ClosedType DEF WsType, PeerType
<1>4. StreamType'
  BY <1>t, <1>1 DEF StreamType, senderVars
<1>5. ReaderType'
  BY <1>t, <1>1, <1>2, SameReader
<1>6. Counted'
  BY <1>1, <1>2, ReceiverCounted DEF senderVars, recvVars
<1> QED BY <1>2, <1>3, <1>4, <1>5, <1>6 DEF TInv

LEMMA TryingTInv ==
  TInv /\ (ReceiverOpenCh \/ ReceiverSignal \/ ReceiverGivesUp \/ ReceiverAgrees) => TInv'
<1> SUFFICES ASSUME TInv, ReceiverOpenCh \/ ReceiverSignal \/ ReceiverGivesUp \/ ReceiverAgrees
             PROVE  TInv'
  OBVIOUS
<1>t. PcType /\ WsType /\ PeerType /\ StreamType /\ ReaderType /\ Counted
  BY DEF TInv
<1>s. "R" \in Side /\ Other("R") = "S"
  BY DEF Side, Other
<1>1. /\ pc["R"] = "trying" /\ UNCHANGED <<senderVars, gen, reader, peek, got>>
      /\ out' = out \/ (out[gen] # << >> /\ out' = [out EXCEPT ![gen] = Tail(@)])
      /\ stopped' = stopped \/ Stop(gen)
      /\ pc' = pc \/ Goto("R", "tail") \/ Goto("R", "dead") \/ Goto("R", "p2p")
      /\ UNCHANGED <<wsVars, peerVars>> \/ (Forget("R") /\ (UNCHANGED closed \/ ClosePeer("R")))
  BY DEF ReceiverOpenCh, ReceiverSignal, ReceiverGivesUp, GiveUpTo, ReceiverAgrees, Trying, peerVars
<1>b. dcOpen' \in BOOLEAN /\ p2pReady' \in BOOLEAN
  <2>1. dcOpen \in BOOLEAN /\ p2pReady \in BOOLEAN
    BY <1>t DEF ReaderType
  <2>2. (dcOpen' = dcOpen \/ dcOpen' = TRUE \/ dcOpen' = FALSE)
    BY DEF ReceiverOpenCh, ReceiverSignal, ReceiverGivesUp, ReceiverAgrees
  <2>3. (p2pReady' = p2pReady \/ p2pReady' = TRUE \/ p2pReady' = FALSE)
    BY DEF ReceiverOpenCh, ReceiverSignal, ReceiverGivesUp, ReceiverAgrees
  <2>4. dcOpen' \in BOOLEAN
    BY <2>1, <2>2, Zenon
  <2>5. p2pReady' \in BOOLEAN
    BY <2>1, <2>3, Zenon
  <2> QED BY <2>4, <2>5
<1>2. PcType' /\ pc'["S"] = pc["S"] /\ pc'["R"] \in {"trying", "tail", "dead", "p2p"}
  BY <1>t, <1>s, <1>1, PcMoves DEF PcType
<1>3. WsType' /\ PeerType' /\ ws'["R"] = ws["R"] /\ found' = found
  <2>1. CASE UNCHANGED <<wsVars, peerVars>>
    BY <1>t, <2>1 DEF WsType, wsVars, PeerType, peerVars
  <2>2. CASE Forget("R") /\ (UNCHANGED closed \/ ClosePeer("R"))
    <3>1. closed' \in [Side -> BOOLEAN]
      BY <1>t, <1>s, <2>2, ClosedType DEF PeerType
    <3> QED BY <1>t, <1>s, <2>2, <3>1, ForgotType
  <2> QED BY <1>1, <2>1, <2>2
<1>4. StreamType'
  BY <1>t, <1>1 DEF StreamType, senderVars
<1>5. gen \in Gen /\ gen \in Nat /\ gen > 0 /\ out[gen] \in Seq(Message)
  BY <1>t, <1>1, TInvTypes DEF ReaderType
<1>6. /\ out' \in [Gen -> Seq(Message)]
      /\ \A h \in Gen : Len(out'[h]) <= Buffer /\ (h > gen => out'[h] = << >>)
  <2>1. CASE out' = out
    BY <1>t, <2>1 DEF ReaderType
  <2>2. CASE out[gen] # << >> /\ out' = [out EXCEPT ![gen] = Tail(@)]
    <3>1. Tail(out[gen]) \in Seq(Message) /\ Len(Tail(out[gen])) = Len(out[gen]) - 1
      BY <1>5, <2>2, Taken
    <3>2. Len(out[gen]) \in Nat /\ Len(out[gen]) <= Buffer /\ Buffer \in Nat
      BY <1>t, <1>5, LenProperties, BoundAssumption DEF ReaderType, BoundAssumption
    <3>3. out' \in [Gen -> Seq(Message)] /\ out'[gen] = Tail(out[gen])
      BY <1>t, <1>5, <2>2, <3>1 DEF ReaderType
    <3>4. \A h \in Gen : h # gen => out'[h] = out[h]
      BY <1>t, <2>2 DEF ReaderType
    <3>5. Len(out'[gen]) <= Buffer /\ ~(gen > gen)
      BY <1>5, <3>1, <3>2, <3>3
    <3> QED BY <1>t, <3>3, <3>4, <3>5 DEF ReaderType
  <2> QED BY <1>1, <2>1, <2>2
<1>7. stopped' \in [Gen -> BOOLEAN]
  BY <1>t, <1>1 DEF ReaderType, Stop
<1>8. ReaderType'
  BY <1>t, <1>1, <1>b, <1>5, <1>6, <1>7 DEF ReaderType
<1>9. Counted'
  BY <1>1, <1>2, <1>3, ReceiverCounted DEF senderVars
<1> QED BY <1>2, <1>3, <1>4, <1>8, <1>9 DEF TInv

(* The first message of a session: what each one leads to.                  *)
FirstMsg == Head(ws["R"])

LEMMA FirstFacts ==
  ASSUME TInv, ReceiveFirst
  PROVE  /\ pc["R"] = "first" /\ ws["R"] # << >> /\ FirstMsg \in Frame
         /\ WsType' /\ ws'["R"] = Tail(ws["R"])
         /\ UNCHANGED <<wsGone, answered, found, sPos, restarts, out, stopped, peek>>
         /\ pc'["S"] = pc["S"] /\ PcType'
         /\ FirstMsg = "Offer" =>
               /\ pc'["R"] = "trying" /\ gen' = gen + 1
               /\ reader' = [reader EXCEPT ![gen + 1] = "reading"]
               /\ opened' = [opened EXCEPT !["R"] = FALSE]
               /\ closed' = [closed EXCEPT !["R"] = FALSE]
               /\ expired' = [expired EXCEPT !["R"] = FALSE]
               /\ trickle' = [trickle EXCEPT !["R"] = "select"]
               /\ dcOpen' = FALSE /\ p2pReady' = FALSE /\ dc' = << >> /\ got' = got
               /\ ws'["S"] \in {ws["S"], Append(ws["S"], AnswerToOffer), Append(ws["S"], "Torn")}
         /\ FirstMsg # "Offer" =>
               /\ pc'["R"] \in {"first", "ws", "dead"}
               /\ pc'["R"] = "ws" => FirstMsg \in {"P2PFail", "Metadata"}
               /\ UNCHANGED <<opened, closed, expired, trickle, dcOpen, p2pReady, gen, reader, dc>>
               /\ got' = got \/ (got' = 1 /\ FirstMsg = "Metadata")
               /\ ws'["S"] \in {ws["S"], Append(ws["S"], "Ready"), Append(ws["S"], "Torn")}
<1>t. PcType /\ WsType
  BY DEF TInv
<1>s. "R" \in Side /\ "S" \in Side /\ Other("R") = "S" /\ ws["R"] \in Seq(Frame)
  BY <1>t DEF Side, Other, WsType
<1> DEFINE m == FirstMsg
           rest == [ws EXCEPT !["R"] = Tail(@)]
<1>1. pc["R"] = "first" /\ ws["R"] # << >>
  BY DEF ReceiveFirst
<1>u. UNCHANGED <<wsGone, answered, found, sPos, restarts, out, stopped, peek>>
  BY DEF ReceiveFirst
<1>2. m \in Frame /\ Tail(ws["R"]) \in Seq(Frame)
  BY <1>s, <1>1, Taken DEF FirstMsg
<1>3. rest \in [Side -> Seq(Frame)] /\ rest["R"] = Tail(ws["R"]) /\ rest["S"] = ws["S"]
  BY <1>t, <1>2 DEF WsType, Side
<1>4. "Ready" \in Frame /\ AnswerToOffer \in Frame /\ "Torn" \in Frame
  BY DEF Frame, Message, Signals, AnswerToOffer
<1>6. ASSUME NEW x \in {"Ready", AnswerToOffer}, NEW w \in Sent("R", x),
             ws' = [rest EXCEPT !["S"] = w["S"]]
      PROVE  /\ ws' \in [Side -> Seq(Frame)] /\ ws'["R"] = Tail(ws["R"])
             /\ ws'["S"] \in {ws["S"], Append(ws["S"], x), Append(ws["S"], "Torn")}
  <2>1. PICK r \in {x, "Torn"} : w = Written("R", r)
    BY SentIs
  <2>2. r \in Frame
    BY <1>4, <2>1
  <2>3. w \in [Side -> Seq(Frame)] /\ w["S"] \in {ws["S"], Append(ws["S"], r)}
    BY <1>t, <1>s, <2>1, <2>2, WrittenFacts
  <2> HIDE DEF rest
  <2>4. ws' \in [Side -> Seq(Frame)] /\ ws'["R"] = Tail(ws["R"]) /\ ws'["S"] = w["S"]
    BY <1>s, <1>3, <1>6, <2>3 DEF Side
  <2> QED BY <2>1, <2>3, <2>4
<1>7. /\ \/ m = "Version" /\ (\E w \in Sent("R", "Ready") : ws' = [rest EXCEPT !["S"] = w["S"]]) /\ pc' = pc
         \/ m = "Offer" /\ (\E w \in Sent("R", AnswerToOffer) : ws' = [rest EXCEPT !["S"] = w["S"]]) /\ Goto("R", "trying")
         \/ m \in {"P2PFail", "Metadata"} /\ ws' = rest /\ Goto("R", "ws")
         \/ m \notin {"Version", "Offer", "P2PFail", "Metadata"} /\ ws' = rest /\ Goto("R", "dead")
  BY DEF ReceiveFirst, FirstMsg
<1>8. m = "Offer" =>
         /\ gen' = gen + 1
         /\ reader' = [reader EXCEPT ![gen + 1] = "reading"]
         /\ opened' = [opened EXCEPT !["R"] = FALSE]
         /\ closed' = [closed EXCEPT !["R"] = FALSE]
         /\ expired' = [expired EXCEPT !["R"] = FALSE]
         /\ trickle' = [trickle EXCEPT !["R"] = "select"]
         /\ dcOpen' = FALSE /\ p2pReady' = FALSE /\ dc' = << >> /\ got' = got
  BY DEF ReceiveFirst, FirstMsg
<1>9. m # "Offer" =>
         /\ UNCHANGED <<opened, closed, expired, trickle, dcOpen, p2pReady, gen, reader, dc>>
         /\ got' = got \/ (got' = 1 /\ m = "Metadata")
  BY DEF ReceiveFirst, FirstMsg
<1> HIDE DEF m, rest
<1>10. /\ pc'["S"] = pc["S"] /\ PcType'
       /\ m = "Offer" => pc'["R"] = "trying"
       /\ m # "Offer" => pc'["R"] \in {"first", "ws", "dead"}
       /\ pc'["R"] = "ws" => m \in {"P2PFail", "Metadata"}
  <2>1. CASE m = "Version"
    BY <1>1, <1>7, <1>t, <2>1 DEF PcType
  <2>2. CASE m = "Offer"
    BY <1>7, <1>t, <1>s, <2>2, PcMoves
  <2>3. CASE m \in {"P2PFail", "Metadata"}
    BY <1>7, <1>t, <1>s, <2>3, PcMoves
  <2>4. CASE m \notin {"Version", "Offer", "P2PFail", "Metadata"}
    BY <1>7, <1>t, <1>s, <2>4, PcMoves
  <2> QED BY <2>1, <2>2, <2>3, <2>4
<1>11. /\ ws' \in [Side -> Seq(Frame)] /\ ws'["R"] = Tail(ws["R"])
       /\ m = "Offer" => ws'["S"] \in {ws["S"], Append(ws["S"], AnswerToOffer), Append(ws["S"], "Torn")}
       /\ m # "Offer" => ws'["S"] \in {ws["S"], Append(ws["S"], "Ready"), Append(ws["S"], "Torn")}
  <2>1. CASE m = "Version"
    BY <1>6, <1>7, <2>1
  <2>2. CASE m = "Offer"
    BY <1>6, <1>7, <2>2
  <2>3. CASE m \notin {"Version", "Offer"}
    BY <1>3, <1>7, <2>3
  <2> QED BY <2>1, <2>2, <2>3
<1>12. WsType'
  BY <1>t, <1>u, <1>11 DEF WsType
<1> QED BY <1>1, <1>u, <1>2, <1>8, <1>9, <1>10, <1>11, <1>12 DEF m

LEMMA FirstTInv == TInv /\ ReceiveFirst => TInv'
<1> SUFFICES ASSUME TInv, ReceiveFirst PROVE TInv'
  OBVIOUS
<1>t. PcType /\ WsType /\ PeerType /\ StreamType /\ ReaderType /\ Counted
  BY DEF TInv
<1>q. ws["R"] \in Seq(Frame) /\ Offers(ws["R"]) \in Nat
  BY <1>t, OffersInWs DEF Side
<1>1. /\ ws["R"] # << >> /\ WsType' /\ ws'["R"] = Tail(ws["R"])
      /\ UNCHANGED <<wsGone, answered, found, sPos, restarts, out, stopped, peek>>
      /\ pc'["S"] = pc["S"] /\ PcType'
  BY FirstFacts
<1>2. Offers(ws'["R"]) \in Nat /\ Offers(ws'["R"]) <= IF FirstMsg = "Offer" THEN Offers(ws["R"]) - 1 ELSE Offers(ws["R"])
  <2>1. Offers(Tail(ws["R"])) <= IF FirstMsg = "Offer" THEN Offers(ws["R"]) - 1 ELSE Offers(ws["R"])
    BY <1>q, <1>1, OffersTaken DEF FirstMsg
  <2>2. Offers(Tail(ws["R"])) \in Nat
    <3>1. Tail(ws["R"]) \in Seq(Frame)
      BY <1>q, <1>1, Taken
    <3> QED BY <3>1, OffersType
  <2>3. Offers(ws'["R"]) = Offers(Tail(ws["R"]))
    BY <1>1
  <2> QED BY <2>1, <2>2, <2>3
<1>3. /\ MaxExtras \in Nat /\ gen \in Nat /\ restarts \in Nat /\ found \in Nat
      /\ Due \in {0, 1} /\ Due' = Due
      /\ found + restarts <= MaxExtras /\ gen + Offers(ws["R"]) + Due <= restarts + 1
  BY <1>t, <1>1, BoundAssumption DEF BoundAssumption, ReaderType, StreamType, PeerType, Due, Counted
<1>4. CASE FirstMsg = "Offer"
  <2>1. /\ pc'["R"] = "trying" /\ gen' = gen + 1
        /\ reader' = [reader EXCEPT ![gen + 1] = "reading"]
        /\ opened' = [opened EXCEPT !["R"] = FALSE]
        /\ closed' = [closed EXCEPT !["R"] = FALSE]
        /\ expired' = [expired EXCEPT !["R"] = FALSE]
        /\ trickle' = [trickle EXCEPT !["R"] = "select"]
        /\ dcOpen' = FALSE /\ p2pReady' = FALSE /\ dc' = << >> /\ got' = got
    BY <1>4, FirstFacts
  <2>2. PeerType'
    BY <1>t, <1>1, <2>1 DEF PeerType
  <2>3. StreamType'
    <3>1. << >> \in Seq({Stream[i] : i \in 1 .. 3})
      BY EmptySeq
    <3> QED BY <1>t, <1>1, <2>1, <3>1 DEF StreamType
  <2>4. gen' + Offers(ws'["R"]) + Due' <= restarts' + 1 /\ gen + 1 <= MaxExtras + 1
    BY <1>1, <1>2, <1>3, <1>4, <1>q, <2>1
  <2>5. Counted'
    BY <1>1, <1>3, <2>4 DEF Counted
  <2>6. ReaderType'
    <3>1. dcOpen' \in BOOLEAN /\ p2pReady' \in BOOLEAN
      BY <2>1, Zenon
    <3>2. /\ reader' \in [Gen -> {"off", "reading", "done"} \cup Message]
          /\ \A g \in Gen : reader'[g] # "off" => g <= gen + 1
      <4>1. \A g \in Gen : g \in Int /\ (g <= gen => g <= gen + 1)
        BY <1>3 DEF Gen
      <4>2. \A g \in Gen : reader[g] # "off" => g <= gen + 1
        BY <1>t, <4>1 DEF ReaderType
      <4>3. reader' \in [Gen -> {"off", "reading", "done"} \cup Message]
        BY <1>t, <2>1 DEF ReaderType
      <4>4. \A g \in Gen : g # gen + 1 => reader'[g] = reader[g]
        BY <1>t, <2>1 DEF ReaderType
      <4>5. gen + 1 <= gen + 1
        BY <1>3
      <4> QED BY <4>2, <4>3, <4>4, <4>5
    <3>3. \A g \in Gen : g > gen + 1 => g > gen
      BY <1>3 DEF Gen
    <3>4. gen + 1 \in Nat /\ gen + 1 > 0
      BY <1>3
    <3> QED BY <1>t, <1>1, <2>1, <3>1, <3>2, <3>3, <3>4 DEF ReaderType
  <2> QED BY <1>1, <2>2, <2>3, <2>5, <2>6 DEF TInv
<1>5. CASE FirstMsg # "Offer"
  <2>1. /\ pc'["R"] \in {"first", "ws", "dead"}
        /\ UNCHANGED <<opened, closed, expired, trickle, dcOpen, p2pReady, gen, reader, dc>>
        /\ got' = got \/ got' = 1
    BY <1>5, FirstFacts
  <2>2. PeerType' /\ StreamType'
    BY <1>t, <1>1, <2>1 DEF PeerType, StreamType
  <2>3. ReaderType'
    BY <1>t, <1>1, <2>1 DEF ReaderType
  <2>4. gen' + Offers(ws'["R"]) + Due' <= restarts' + 1
    BY <1>1, <1>2, <1>3, <1>5, <1>q, <2>1
  <2>5. Counted'
    BY <1>1, <1>3, <2>4 DEF Counted
  <2> QED BY <1>1, <2>2, <2>3, <2>5 DEF TInv
<1> QED BY <1>4, <1>5

(* Two writers at once: the program of that side is gone.                   *)
LEMMA CrashFacts ==
  ASSUME TInv, NEW x \in Side, ConcurrentWrite(x)
  PROVE  /\ wsGone' = TRUE /\ PcType' /\ WsType' /\ PeerType'
         /\ pc'[x] = "dead" /\ pc'[Other(x)] = pc[Other(x)] /\ closed'[x] = TRUE
         /\ UNCHANGED <<ws, opened, expired, answered, found, senderVars, recvVars>>
<1>1. /\ trickle' = [trickle EXCEPT ![x] = "done"]
      /\ wsGone' = TRUE /\ ClosePeer(x) /\ Goto(x, "dead")
      /\ UNCHANGED <<ws, opened, expired, answered, found, senderVars, recvVars>>
  BY DEF ConcurrentWrite
<1>2. PcType' /\ pc'[x] = "dead" /\ pc'[Other(x)] = pc[Other(x)]
  BY <1>1, PcMoves DEF TInv
<1>3. WsType'
  BY <1>1 DEF TInv, WsType
<1>4. PeerType' /\ closed'[x] = TRUE
  BY <1>1 DEF TInv, PeerType, ClosePeer
<1> QED BY <1>1, <1>2, <1>3, <1>4

LEMMA CrashTInv ==
  ASSUME TInv, NEW x \in Side, ConcurrentWrite(x)
  PROVE  TInv'
<1>t. PcType /\ WsType /\ PeerType /\ StreamType /\ ReaderType /\ Counted
  BY DEF TInv
<1>1. /\ PcType' /\ WsType' /\ PeerType'
      /\ pc'[x] = "dead" /\ pc'[Other(x)] = pc[Other(x)]
      /\ UNCHANGED <<ws, found, senderVars, recvVars>>
  BY CrashFacts
<1>2. StreamType'
  BY <1>t, <1>1 DEF StreamType, senderVars
<1>3. pc'["S"] \in {pc["S"], "dead"} /\ pc'["R"] \in {pc["R"], "dead"}
  BY <1>1 DEF Side, Other
<1>4. ReaderType'
  BY <1>t, <1>1, <1>3, SameReader
<1>5. Counted'
  <2>1. Offers(ws["R"]) \in Nat /\ gen \in Nat /\ restarts \in Nat
    BY <1>t, OffersInWs DEF Side, ReaderType, StreamType
  <2>2. Due \in {0, 1} /\ (Due' = Due \/ Due' = 0)
    BY <1>3 DEF Due
  <2> QED BY <1>t, <1>1, <2>1, <2>2 DEF Counted, senderVars, recvVars
<1> QED BY <1>1, <1>2, <1>4, <1>5 DEF TInv

LEMMA NextTInv == TInv /\ [Next]_vars => TInv'
<1> SUFFICES ASSUME TInv, [Next]_vars PROVE TInv'
  OBVIOUS
<1>1. CASE SenderStep \/ SenderExits \/ AwaitReady
  BY <1>1, SenderTInv
<1>2. CASE Restart
  BY <1>2, RestartTInv
<1>3. CASE ReceiverStep
  BY <1>3, FirstTInv, TryingTInv, ReadTailTInv, ReadWSTInv DEF ReceiverStep
<1>4. CASE ReceiveFirstFails \/ ReadDeadline \/ ReceiverExits
  BY <1>4, ReceiverEndsTInv
<1>5. CASE LoseWS \/ \E x \in Side : TrickleStep(x) \/ Opens(x) \/ PeerFails(x) \/ TimeOut(x)
  BY <1>5, OutsideTInv
<1>c. CASE \E x \in Side : ConcurrentWrite(x)
  BY <1>c, CrashTInv
<1>6. CASE \E g \in Gen : ReaderStep(g)
  BY <1>6, ReaderTInv
<1>7. CASE UNCHANGED vars
  <2>1. Counted'
    BY <1>7 DEF TInv, Counted, Due, vars, wsVars, peerVars, senderVars, recvVars
  <2>2. PcType' /\ WsType'
    BY <1>7 DEF TInv, PcType, WsType, vars, wsVars
  <2>3. PeerType' /\ StreamType'
    BY <1>7 DEF TInv, PeerType, StreamType, vars, peerVars, senderVars
  <2>4. ReaderType'
    BY <1>7 DEF TInv, ReaderType, vars, recvVars
  <2> QED BY <2>1, <2>2, <2>3, <2>4 DEF TInv
<1> QED BY <1>1, <1>2, <1>3, <1>4, <1>5, <1>c, <1>6, <1>7 DEF Next

LEMMA SpecTInv == Spec => []TInv
<1> QED BY InitTInv, NextTInv, PTL DEF Spec

(* Every variable keeps its shape; however often the sender is reloaded, a  *)
(* reader goroutine is started for an offer of its own and for no other, so *)
(* that there are never more than one per reload and one.                   *)
THEOREM TypeCorrect == Spec => []TypeOK
<1> QED BY SpecTInv, TInvTypes, PTL

-----------------------------------------------------------------------------
(* Why the two sides do not part ways.  What the receiver has yet to hear   *)
(* is on the WebSocket, held by its reader goroutine, or passed on.  No      *)
(* announcement of a new session comes before a P2PReady (Flow), for there  *)
(* was none under way when the answer that led to it was written            *)
(* (AnswerMeans), and nothing but a reload takes the sender from there back *)
(* to the WebSocket, which waits for a Ready that the receiver writes for   *)
(* an announcement (ReadyMeans).                                            *)

Listening == pc["R"] \in {"trying", "tail"}
Held == IF Listening THEN reader[gen] ELSE "off"
Passed == IF Listening THEN out[gen] ELSE << >>

InOrder(w, r, o) ==
    /\ Ordered(w) /\ Ordered(o)
    /\ Has(w, "P2PReady") => r \notin Announces /\ Clear(o)
    /\ r = "P2PReady" => Clear(o)

Quiet(w, r, o) == Clear(w) /\ r \notin Announces /\ Clear(o)

ReadyIn(w, r, o) == Has(w, "P2PReady") \/ r = "P2PReady" \/ Has(o, "P2PReady")

Idle == {"off", "reading", "done"}

LEMMA Silent == Ordered(<< >>) /\ Clear(<< >>) /\ ~Has(<< >>, "P2PReady")
BY DEF Ordered, Clear, Has

(* What each step does to these three.                                      *)
LEMMA QueueReads ==
  ASSUME NEW S, NEW w \in Seq(S), NEW r, NEW o, w # << >>, InOrder(w, r, o)
  PROVE  /\ InOrder(Tail(w), Head(w), o) /\ InOrder(Tail(w), r, o)
         /\ Quiet(w, r, o) => Quiet(Tail(w), Head(w), o) /\ Quiet(Tail(w), r, o)
         /\ ReadyIn(Tail(w), Head(w), o) => ReadyIn(w, r, o)
         /\ ReadyIn(Tail(w), r, o) => ReadyIn(w, r, o)
<1> DEFINE t == Tail(w)
           h == Head(w)
<1>1. /\ Has(t, "P2PReady") => Has(w, "P2PReady") /\ h \notin Announces
      /\ h = "P2PReady" => Has(w, "P2PReady")
      /\ Ordered(t) /\ (Clear(w) => Clear(t) /\ h \notin Announces)
  <2>1. Ordered(w)
    BY DEF InOrder
  <2>2. Has(w, h)
    BY Taken
  <2>3. h = "P2PReady" => Has(w, "P2PReady")
    BY <2>2
  <2> QED BY <2>1, <2>3, Taken
<1> HIDE DEF t, h
<1> QED BY <1>1 DEF InOrder, Quiet, ReadyIn, t, h

LEMMA QueuePasses ==
  ASSUME NEW w, NEW r \in Message, NEW o \in Seq(Message), NEW x \in Idle, InOrder(w, r, o)
  PROVE  /\ InOrder(w, x, Append(o, r)) /\ InOrder(w, x, o)
         /\ Quiet(w, r, o) => Quiet(w, x, Append(o, r)) /\ Quiet(w, x, o)
         /\ ReadyIn(w, x, Append(o, r)) => ReadyIn(w, r, o)
         /\ ReadyIn(w, x, o) => ReadyIn(w, r, o)
<1>1. /\ Has(Append(o, r), "P2PReady") => Has(o, "P2PReady") \/ r = "P2PReady"
      /\ Clear(Append(o, r)) <=> Clear(o) /\ r \notin Announces
      /\ Ordered(o) /\ (r = "P2PReady" => Clear(o)) => Ordered(Append(o, r))
  <2>1. \A m : Has(Append(o, r), m) <=> Has(o, m) \/ m = r
    BY Appended
  <2> QED BY <2>1, Appended
<1>2. x \notin Announces /\ x # "P2PReady"
  BY DEF Idle, Announces
<1> QED BY <1>1, <1>2 DEF InOrder, Quiet, ReadyIn

LEMMA QueueTaken ==
  ASSUME NEW w, NEW r, NEW o \in Seq(Message), o # << >>, InOrder(w, r, o)
  PROVE  /\ InOrder(w, r, Tail(o))
         /\ Quiet(w, r, o) => Quiet(w, r, Tail(o)) /\ Head(o) \notin Announces
         /\ ReadyIn(w, r, Tail(o)) => ReadyIn(w, r, o)
         /\ Head(o) = "P2PReady" => ReadyIn(w, r, o)
         /\ Head(o) \in Announces => ~ReadyIn(w, r, o)
<1> DEFINE t == Tail(o)
           h == Head(o)
<1>1. /\ Has(t, "P2PReady") => Has(o, "P2PReady")
      /\ h = "P2PReady" => Has(o, "P2PReady")
      /\ Ordered(o) => Ordered(t)
      /\ Clear(o) => Clear(t) /\ h \notin Announces
      /\ Ordered(o) /\ h \in Announces => ~Has(o, "P2PReady")
  <2>1. Has(o, h)
    BY Taken
  <2>2. h = "P2PReady" => Has(o, "P2PReady")
    BY <2>1
  <2> QED BY <2>2, Taken
<1> HIDE DEF t, h
<1> QED BY <1>1 DEF InOrder, Quiet, ReadyIn, t, h

LEMMA QueueWritten ==
  ASSUME NEW S, NEW w \in Seq(S), NEW m \in S, NEW r, NEW o, InOrder(w, r, o),
         m = "P2PReady" => Quiet(w, r, o)
  PROVE  /\ InOrder(Append(w, m), r, o)
         /\ Quiet(w, r, o) /\ m \notin Announces => Quiet(Append(w, m), r, o)
         /\ ReadyIn(Append(w, m), r, o) => ReadyIn(w, r, o) \/ m = "P2PReady"
<1>1. /\ Has(Append(w, m), "P2PReady") => Has(w, "P2PReady") \/ m = "P2PReady"
      /\ Clear(Append(w, m)) <=> Clear(w) /\ m \notin Announces
      /\ Ordered(w) /\ (m = "P2PReady" => Clear(w)) => Ordered(Append(w, m))
  <2>1. \A x : Has(Append(w, m), x) <=> Has(w, x) \/ x = m
    BY Appended
  <2> QED BY <2>1, Appended
<1> QED BY <1>1 DEF InOrder, Quiet, ReadyIn

LEMMA QueueCut ==
  ASSUME NEW S, NEW w \in Seq(S), NEW n \in 0 .. Len(w), NEW r, NEW o, InOrder(w, r, o)
  PROVE  /\ InOrder(SubSeq(w, 1, n), r, o)
         /\ Quiet(w, r, o) => Quiet(SubSeq(w, 1, n), r, o)
         /\ ReadyIn(SubSeq(w, 1, n), r, o) => ReadyIn(w, r, o)
<1> DEFINE t == SubSeq(w, 1, n)
<1>1. /\ Has(t, "P2PReady") => Has(w, "P2PReady")
      /\ Ordered(w) => Ordered(t)
      /\ Clear(w) => Clear(t)
  BY Cut
<1> HIDE DEF t
<1> QED BY <1>1 DEF InOrder, Quiet, ReadyIn, t

(* The receiver stops to listen, or starts.                                 *)
LEMMA QueueForgotten ==
  ASSUME NEW w, NEW r, NEW o, InOrder(w, r, o), NEW x \in Idle
  PROVE  /\ InOrder(w, x, << >>)
         /\ Quiet(w, r, o) => Quiet(w, x, << >>)
         /\ ReadyIn(w, x, << >>) => ReadyIn(w, r, o)
<1>1. x \notin Announces /\ x # "P2PReady"
  BY DEF Idle, Announces
<1> QED BY <1>1, Silent DEF InOrder, Quiet, ReadyIn

Flow == InOrder(ws["R"], Held, Passed)
Calm == Quiet(ws["R"], Held, Passed)
ReadyHeard == ReadyIn(ws["R"], Held, Passed)

ReadyPending == ReadyHeard \/ p2pReady = TRUE \/ pc["R"] = "p2p"

AnswerPending ==
    \/ pc["S"] = "joining"
    \/ pc["S"] = "trying" /\ (answered = TRUE \/ Has(ws["S"], "Answer"))

ReadyMeans ==
    /\ ReadyPending =>
          /\ pc["S"] \in {"p2p", "await", "dead"} /\ pc["R"] \notin {"first", "ws"}
          /\ pc["S"] = "await" => ~Has(ws["S"], "Ready")
    /\ p2pReady = TRUE => pc["R"] = "trying"

AnswerMeans == AnswerPending => pc["R"] \notin {"first", "ws"} /\ Calm

OpenMeans ==
    /\ pc["S"] = "trying" /\ opened["S"] = TRUE => answered = TRUE
    /\ pc["S"] \in {"await", "offer"} =>
          opened["S"] = FALSE /\ answered = FALSE /\ ~Has(ws["S"], "Answer")

SInv == Flow /\ ReadyMeans /\ AnswerMeans /\ OpenMeans

(* Steps that hear, drop or lose messages.                                  *)
Drains ==
    /\ Flow'
    /\ Calm => Calm'
    /\ ReadyHeard' => ReadyHeard

LEMMA Drained ==
  ASSUME SInv, Drains, UNCHANGED <<answered, opened["S"], pc["S"]>>,
         Has(ws'["S"], "Answer") <=> Has(ws["S"], "Answer"),
         Has(ws'["S"], "Ready") => Has(ws["S"], "Ready") \/ ~ReadyPending,
         pc'["R"] \in {"first", "ws"} => ~ReadyHeard /\ (AnswerPending => pc["R"] \in {"first", "ws"}),
         p2pReady' = TRUE => (p2pReady = TRUE \/ ReadyHeard) /\ pc'["R"] = "trying",
         pc'["R"] = "p2p" => ReadyPending
  PROVE  SInv'
<1>1. ReadyPending' => ReadyPending
  BY DEF Drains, ReadyPending
<1>2. AnswerPending' <=> AnswerPending
  <2>1. (answered' = TRUE) <=> (answered = TRUE)
    BY Zenon
  <2> QED BY <2>1 DEF AnswerPending
<1>3. ASSUME ReadyPending', pc'["R"] \in {"first", "ws"} PROVE FALSE
  BY <1>3 DEF ReadyPending, Drains
<1>4. ReadyMeans'
  BY <1>1, <1>3 DEF SInv, ReadyMeans
<1>5. AnswerMeans'
  BY <1>2 DEF SInv, AnswerMeans, Drains
<1>6. OpenMeans'
  BY DEF SInv, OpenMeans
<1> QED BY <1>4, <1>5, <1>6 DEF SInv, Drains

(* Steps of the sender.                                                     *)
LEMMA SenderMoves ==
  ASSUME SInv, Flow', UNCHANGED <<Held, Passed, pc["R"], p2pReady>>, OpenMeans',
         ReadyHeard' => ReadyHeard \/ (pc'["S"] = "p2p" /\ AnswerPending),
         ReadyPending => \/ pc'["S"] \in {"p2p", "dead"}
                         \/ pc'["S"] = "await" /\ ~Has(ws'["S"], "Ready"),
         AnswerPending' => AnswerPending /\ (Calm => Calm')
  PROVE  SInv'
<1>1. ReadyPending' => ReadyPending \/ (pc'["S"] = "p2p" /\ AnswerPending)
  BY DEF ReadyPending
<1>2. ReadyMeans'
  BY <1>1 DEF SInv, ReadyMeans, AnswerMeans
<1>3. AnswerMeans'
  BY DEF SInv, AnswerMeans
<1> QED BY <1>2, <1>3 DEF SInv

LEMMA WriteFlow ==
  ASSUME TInv, SInv, UNCHANGED <<Held, Passed>>, NEW m \in Frame,
         ws'["R"] = ws["R"] \/ ws'["R"] = Append(ws["R"], m),
         m = "P2PReady" => Calm
  PROVE  /\ Flow'
         /\ m \notin Announces => (Calm => Calm')
         /\ ReadyHeard' => ReadyHeard \/ m = "P2PReady"
<1>q. ws["R"] \in Seq(Frame)
  BY OffersInWs DEF TInv, Side
<1>1. CASE ws'["R"] = ws["R"]
  BY <1>1 DEF SInv, Flow, Calm, ReadyHeard
<1>2. CASE ws'["R"] = Append(ws["R"], m)
  <2>1. InOrder(ws["R"], Held, Passed) /\ (m = "P2PReady" => Quiet(ws["R"], Held, Passed))
    BY DEF SInv, Flow, Calm
  <2>2. /\ InOrder(Append(ws["R"], m), Held, Passed)
        /\ Quiet(ws["R"], Held, Passed) /\ m \notin Announces => Quiet(Append(ws["R"], m), Held, Passed)
        /\ ReadyIn(Append(ws["R"], m), Held, Passed) => ReadyIn(ws["R"], Held, Passed) \/ m = "P2PReady"
    BY <1>q, <2>1, QueueWritten
  <2> QED BY <1>2, <2>2 DEF Flow, Calm, ReadyHeard
<1> QED BY <1>1, <1>2

LEMMA SenderSInv ==
  ASSUME TInv, SInv, SenderStep
  PROVE  SInv'
<1>t. PcType /\ WsType /\ "S" \in Side /\ Other("S") = "R"
  BY DEF TInv, Side, Other
<1>q. ws["S"] \in Seq(Frame) /\ ws["R"] \in Seq(Frame)
  BY OffersInWs DEF TInv, Side
<1>m. {"Offer", "P2PReady", "P2PFail", "Ready", "Version", "Cand", "Torn"} \subseteq Frame
  BY DEF Frame, Message, Signals
<1>h. ASSUME UNCHANGED recvVars, pc'["R"] = pc["R"]
      PROVE  UNCHANGED <<Held, Passed, pc["R"], p2pReady>>
  BY <1>h DEF Held, Passed, Listening, recvVars
<1>i. SInv => Flow /\ ReadyMeans /\ AnswerMeans /\ OpenMeans
  BY DEF SInv
<1>1. CASE SendOffer
  <2>1. /\ pc["S"] = "offer" /\ UNCHANGED <<wsGone, opened, expired, answered, found, senderVars, recvVars>>
        /\ \/ Goto("S", "trying") /\ ws' = Written("S", "Offer")
           \/ Goto("S", "failing") /\ ws' = ws
    BY <1>1 DEF SendOffer
  <2>2. pc'["R"] = pc["R"] /\ pc'["S"] \in {"trying", "failing"}
    BY <1>t, <2>1, PcMoves
  <2>3. ws'["S"] = ws["S"] /\ (ws'["R"] = ws["R"] \/ ws'["R"] = Append(ws["R"], "Offer"))
    <3>1. "Offer" \in Frame
      BY <1>m
    <3>2. ws' = ws \/ ws' = Written("S", "Offer")
      BY <2>1
    <3> QED BY <1>t, <3>1, <3>2, SenderWrote
  <2>4. UNCHANGED <<Held, Passed, pc["R"], p2pReady>>
    BY <1>h, <2>1, <2>2
  <2>5. Flow' /\ (ReadyHeard' => ReadyHeard)
    BY <1>m, <2>3, <2>4, WriteFlow
  <2>6. OpenMeans' /\ ~AnswerPending'
    BY <1>i, <2>1, <2>2, <2>3 DEF OpenMeans, AnswerPending
  <2>7. ~ReadyPending
    BY <1>i, <2>1 DEF ReadyMeans
  <2> QED BY <2>4, <2>5, <2>6, <2>7, SenderMoves
<1>2. CASE SenderReads
  <2>1. /\ pc["S"] = "trying" /\ ws["S"] # << >> /\ answered' = (answered \/ Head(ws["S"]) = "Answer")
        /\ ws' = [ws EXCEPT !["S"] = Tail(@)]
        /\ UNCHANGED <<pc, opened, recvVars>>
    BY <1>2 DEF SenderReads
  <2>2. ws'["R"] = ws["R"] /\ ws'["S"] = Tail(ws["S"])
    BY <1>t, <2>1 DEF WsType, Side
  <2>3. UNCHANGED <<Held, Passed, pc["R"], p2pReady>>
    BY <1>h, <2>1
  <2>4. Flow' /\ (ReadyHeard' => ReadyHeard) /\ (Calm => Calm')
    BY <1>i, <2>2, <2>3 DEF Flow, ReadyHeard, Calm
  <2>5. /\ Has(ws["S"], Head(ws["S"]))
        /\ Has(Tail(ws["S"]), "Answer") => Has(ws["S"], "Answer")
    BY <1>q, <2>1, Taken
  <2>6. answered' = TRUE => answered = TRUE \/ Head(ws["S"]) = "Answer"
    BY <2>1, Zenon
  <2>7. AnswerPending' => AnswerPending
    BY <2>1, <2>2, <2>5, <2>6 DEF AnswerPending
  <2>8. answered = TRUE => answered' = TRUE
    BY <2>1, Zenon
  <2>9. OpenMeans'
    BY <1>i, <2>1, <2>8 DEF OpenMeans
  <2>10. ~ReadyPending
    BY <1>i, <2>1 DEF ReadyMeans
  <2> QED BY <2>3, <2>4, <2>7, <2>9, <2>10, SenderMoves
<1>3. CASE AnswerFails \/ SenderOpenCh \/ SenderGivesUp
  <2>1. /\ pc["S"] = "trying" /\ Forget("S") /\ UNCHANGED <<senderVars, recvVars>>
        /\ Goto("S", "failing") \/ (Goto("S", "joining") /\ opened["S"])
    BY <1>3 DEF AnswerFails, SenderOpenCh, SenderGivesUp
  <2>2. ws'["R"] = ws["R"] /\ answered' = answered
    BY <1>t, <2>1 DEF WsType, Side, Forget
  <2>3. /\ pc'["R"] = pc["R"]
        /\ pc'["S"] = "failing" \/ (pc'["S"] = "joining" /\ opened["S"] = TRUE)
    <3>1. opened["S"] => opened["S"] = TRUE
      BY DEF TInv, PeerType, Side
    <3> QED BY <1>t, <2>1, <3>1, PcMoves
  <2>4. UNCHANGED <<Held, Passed, pc["R"], p2pReady>>
    BY <1>h, <2>1, <2>3
  <2>5. Flow' /\ (ReadyHeard' => ReadyHeard) /\ (Calm => Calm')
    BY <1>i, <2>2, <2>4 DEF Flow, ReadyHeard, Calm
  <2>6. AnswerPending' => AnswerPending
    BY <1>i, <2>1, <2>2, <2>3 DEF AnswerPending, OpenMeans
  <2>7. OpenMeans' /\ ~ReadyPending
    BY <1>i, <2>1, <2>3 DEF OpenMeans, ReadyMeans
  <2> QED BY <2>4, <2>5, <2>6, <2>7, SenderMoves
<1>4. CASE SendP2PReady
  <2>1. /\ pc["S"] = "joining" /\ UNCHANGED recvVars
        /\ \/ ws' = Written("S", "P2PReady") /\ Goto("S", "p2p")
           \/ ws' = ws /\ Goto("S", "dead")
    BY <1>4 DEF SendP2PReady, wsVars
  <2>2. pc'["R"] = pc["R"] /\ pc'["S"] \in {"p2p", "dead"}
    BY <1>t, <2>1, PcMoves
  <2>3. UNCHANGED <<Held, Passed, pc["R"], p2pReady>>
    BY <1>h, <2>1, <2>2
  <2>4. AnswerPending /\ Calm /\ ~ReadyPending
    BY <1>i, <2>1 DEF AnswerPending, AnswerMeans, ReadyMeans
  <2>5. CASE ws' = Written("S", "P2PReady") /\ Goto("S", "p2p")
    <3>1. pc'["S"] = "p2p"
      BY <1>t, <2>5, PcMoves
    <3>2. ws'["R"] = ws["R"] \/ ws'["R"] = Append(ws["R"], "P2PReady")
      <4>1. "P2PReady" \in Frame
        BY <1>m
      <4> QED BY <1>t, <2>5, <4>1, SenderWrote
    <3>3. Flow'
      BY <1>m, <2>3, <2>4, <3>2, WriteFlow
    <3>4. OpenMeans' /\ ~AnswerPending'
      BY <3>1 DEF OpenMeans, AnswerPending
    <3> QED BY <2>3, <2>4, <3>1, <3>3, <3>4, SenderMoves
  <2>6. CASE ws' = ws /\ Goto("S", "dead")
    <3>1. pc'["S"] = "dead"
      BY <1>t, <2>6, PcMoves
    <3>2. Flow' /\ (ReadyHeard' => ReadyHeard)
      BY <1>i, <2>3, <2>6 DEF Flow, ReadyHeard
    <3>3. OpenMeans' /\ ~AnswerPending'
      BY <3>1 DEF OpenMeans, AnswerPending
    <3> QED BY <2>3, <2>4, <3>1, <3>2, <3>3, SenderMoves
  <2> QED BY <2>1, <2>5, <2>6
<1>5. CASE SendP2PFail \/ StreamWS
  <2>1. /\ pc["S"] \in {"failing", "ws"} /\ UNCHANGED recvVars
        /\ Goto("S", "ws") \/ Goto("S", "dead") \/ pc' = pc
    BY <1>5 DEF SendP2PFail, StreamWS
  <2>2. pc'["R"] = pc["R"] /\ pc'["S"] \in {"failing", "ws", "dead"}
    BY <1>t, <2>1, PcMoves
  <2>3. UNCHANGED <<Held, Passed, pc["R"], p2pReady>>
    BY <1>h, <2>1, <2>2
  <2>4. PICK m \in Frame : /\ m \notin Announces /\ m # "P2PReady"
                           /\ ws'["R"] = ws["R"] \/ ws'["R"] = Append(ws["R"], m)
    <3>1. CASE ws' = ws
      BY <1>m, <3>1 DEF Announces
    <3>2. CASE \E m \in {"P2PFail", "Torn"} : ws' = Written("S", m)
      <4>1. PICK m \in {"P2PFail", "Torn"} : ws' = Written("S", m)
        BY <3>2
      <4>2. m \in Frame /\ m \notin Announces /\ m # "P2PReady"
        BY <1>m, <4>1 DEF Announces
      <4>3. ws'["R"] = ws["R"] \/ ws'["R"] = Append(ws["R"], m)
        BY <1>t, <4>1, <4>2, SenderWrote
      <4> QED BY <4>2, <4>3
    <3>3. CASE sPos < 3 /\ ws' = Written("S", Stream[sPos + 1])
      <4>1. sPos \in 0 .. 2
        BY <3>3 DEF TInv, StreamType
      <4>2. Stream[sPos + 1] \in Frame /\ Stream[sPos + 1] \notin Announces /\ Stream[sPos + 1] # "P2PReady"
        BY <4>1 DEF Frame, Message, Stream, Announces
      <4>3. ws'["R"] = ws["R"] \/ ws'["R"] = Append(ws["R"], Stream[sPos + 1])
        BY <1>t, <3>3, <4>2, SenderWrote
      <4> QED BY <4>2, <4>3
    <3>4. CASE SendP2PFail
      <4>1. ws' \in Sent("S", "P2PFail")
        BY <3>4 DEF SendP2PFail
      <4> QED BY <3>2, <4>1, SentIs
    <3>5. CASE StreamWS
      <4>1. sPos < 3 /\ (ws' = ws \/ ws' \in Sent("S", Stream[sPos + 1]))
        BY <3>5 DEF StreamWS
      <4> QED BY <3>1, <3>2, <3>3, <4>1, SentIs
    <3> QED BY <1>5, <3>4, <3>5
  <2>5. Flow' /\ (ReadyHeard' => ReadyHeard)
    BY <2>3, <2>4, WriteFlow
  <2>6. OpenMeans' /\ ~AnswerPending' /\ ~ReadyPending
    BY <1>i, <2>1, <2>2 DEF OpenMeans, AnswerPending, ReadyMeans
  <2> QED BY <2>3, <2>5, <2>6, SenderMoves
<1>6. CASE StreamP2P
  <2>1. /\ pc["S"] = "p2p" /\ UNCHANGED <<wsVars, recvVars>> /\ (Goto("S", "dead") \/ pc' = pc)
    BY <1>6 DEF StreamP2P
  <2>2. pc'["R"] = pc["R"] /\ pc'["S"] \in {"p2p", "dead"}
    BY <1>t, <2>1, PcMoves
  <2>3. UNCHANGED <<Held, Passed, pc["R"], p2pReady>>
    BY <1>h, <2>1, <2>2
  <2>4. Flow' /\ (ReadyHeard' => ReadyHeard)
    BY <1>i, <2>1, <2>3 DEF Flow, ReadyHeard, wsVars
  <2>5. OpenMeans' /\ ~AnswerPending'
    BY <2>2 DEF OpenMeans, AnswerPending
  <2> QED BY <2>2, <2>3, <2>4, <2>5, SenderMoves
<1> QED BY <1>1, <1>2, <1>3, <1>4, <1>5, <1>6 DEF SenderStep

LEMMA SenderEndsSInv ==
  ASSUME TInv, SInv, SenderExits \/ AwaitReady \/ Restart
  PROVE  SInv'
<1>t. PcType /\ WsType /\ "S" \in Side /\ Other("S") = "R"
  BY DEF TInv, Side, Other
<1>q. ws["S"] \in Seq(Frame) /\ ws["R"] \in Seq(Frame)
  BY OffersInWs DEF TInv, Side
<1>h. ASSUME UNCHANGED recvVars, pc'["R"] = pc["R"]
      PROVE  UNCHANGED <<Held, Passed, pc["R"], p2pReady>>
  BY <1>h DEF Held, Passed, Listening, recvVars
<1>i. Flow /\ ReadyMeans /\ AnswerMeans /\ OpenMeans
  BY DEF SInv
<1>1. CASE SenderExits
  <2>1. Goto("S", "dead") /\ UNCHANGED <<ws, recvVars>>
    BY <1>1 DEF SenderExits
  <2>2. pc'["R"] = pc["R"] /\ pc'["S"] = "dead"
    BY <1>t, <2>1, PcMoves
  <2>3. UNCHANGED <<Held, Passed, pc["R"], p2pReady>>
    BY <1>h, <2>1, <2>2
  <2>4. Flow' /\ (ReadyHeard' => ReadyHeard)
    BY <1>i, <2>1, <2>3 DEF Flow, ReadyHeard
  <2>5. OpenMeans' /\ ~AnswerPending'
    BY <2>2 DEF OpenMeans, AnswerPending
  <2> QED BY <2>2, <2>3, <2>4, <2>5, SenderMoves
<1>2. CASE AwaitReady
  <2>1. /\ pc["S"] = "await" /\ UNCHANGED <<peerVars, recvVars>>
        /\ \/ /\ ws["S"] # << >> /\ ws' = [ws EXCEPT !["S"] = Tail(@)]
              /\ Goto("S", IF Head(ws["S"]) = "Ready" THEN "offer" ELSE "dead")
           \/ ws' = ws /\ Goto("S", "dead")
    BY <1>2 DEF AwaitReady
  <2>2. /\ pc'["R"] = pc["R"] /\ pc'["S"] \in {"offer", "dead"}
        /\ pc'["S"] = "offer" => ws["S"] # << >> /\ Head(ws["S"]) = "Ready"
    BY <1>t, <2>1, PcMoves
  <2>3. UNCHANGED <<Held, Passed, pc["R"], p2pReady>>
    BY <1>h, <2>1, <2>2
  <2>4. ws'["R"] = ws["R"] /\ (Has(ws'["S"], "Answer") => Has(ws["S"], "Answer"))
    <3>1. CASE ws["S"] # << >> /\ ws' = [ws EXCEPT !["S"] = Tail(@)]
      <4>1. Has(Tail(ws["S"]), "Answer") => Has(ws["S"], "Answer")
        BY <1>q, <3>1, Taken
      <4> QED BY <1>t, <3>1, <4>1 DEF WsType, Side
    <3> QED BY <2>1, <3>1
  <2>5. Flow' /\ (ReadyHeard' => ReadyHeard)
    BY <1>i, <2>3, <2>4 DEF Flow, ReadyHeard
  <2>6. OpenMeans' /\ ~AnswerPending'
    BY <1>i, <2>1, <2>2, <2>4 DEF OpenMeans, AnswerPending, peerVars
  <2>7. ReadyPending => pc'["S"] = "dead"
    <3>1. ws["S"] # << >> => Has(ws["S"], Head(ws["S"]))
      BY <1>q, Taken
    <3>2. pc'["S"] = "offer" => Has(ws["S"], "Ready")
      BY <2>2, <3>1
    <3> QED BY <1>i, <2>1, <2>2, <3>2 DEF ReadyMeans
  <2> QED BY <2>3, <2>5, <2>6, <2>7, SenderMoves
<1>3. CASE Restart
  <2>1. /\ ws' = [Written("S", "Version") EXCEPT !["S"] = << >>] /\ Goto("S", "await")
        /\ opened' = [opened EXCEPT !["S"] = FALSE] /\ answered' = FALSE /\ pc["S"] # "dead"
        /\ UNCHANGED recvVars
    BY <1>3 DEF Restart
  <2>2. pc'["R"] = pc["R"] /\ pc'["S"] = "await"
    BY <1>t, <2>1, PcMoves
  <2>3. UNCHANGED <<Held, Passed, pc["R"], p2pReady>>
    BY <1>h, <2>1, <2>2
  <2>4. "Version" \in Frame /\ "Version" # "P2PReady"
    BY DEF Frame, Message, Signals
  <2>5. ws'["S"] = << >> /\ (ws'["R"] = ws["R"] \/ ws'["R"] = Append(ws["R"], "Version"))
    <3>1. /\ Written("S", "Version") \in [Side -> Seq(Frame)]
          /\ Written("S", "Version")["R"] \in {ws["R"], Append(ws["R"], "Version")}
      BY <1>t, <2>4, WrittenFacts
    <3> QED BY <2>1, <3>1 DEF Side
  <2>6. Flow' /\ (ReadyHeard' => ReadyHeard)
    BY <2>3, <2>4, <2>5, WriteFlow
  <2>7. ~Has(ws'["S"], "Ready") /\ ~Has(ws'["S"], "Answer")
    BY <2>5 DEF Has
  <2>8. opened'["S"] = FALSE
    BY <2>1 DEF TInv, PeerType, Side
  <2>9. OpenMeans' /\ ~AnswerPending'
    BY <2>1, <2>2, <2>7, <2>8 DEF OpenMeans, AnswerPending
  <2> QED BY <2>2, <2>3, <2>6, <2>7, <2>9, SenderMoves
<1> QED BY <1>1, <1>2, <1>3

(* Steps outside the two programs.                                          *)
LEMMA OutsideMoves ==
  ASSUME SInv, UNCHANGED <<pc, answered, recvVars>>,
         opened'["S"] = opened["S"] \/ (answered = TRUE /\ pc["S"] = "trying"),
         \A m \in {"Answer", "Ready"} : Has(ws'["S"], m) => Has(ws["S"], m),
         Flow', Calm => Calm', ReadyHeard' => ReadyHeard
  PROVE  SInv'
<1>1. UNCHANGED <<Held, Passed, pc["R"], p2pReady>>
  BY DEF Held, Passed, Listening, recvVars
<1>2. OpenMeans'
  BY DEF SInv, OpenMeans
<1>3. AnswerPending' => AnswerPending /\ (Calm => Calm')
  BY DEF AnswerPending
<1>4. ReadyPending => \/ pc'["S"] \in {"p2p", "dead"}
                      \/ pc'["S"] = "await" /\ ~Has(ws'["S"], "Ready")
  BY DEF SInv, ReadyMeans
<1> QED BY <1>1, <1>2, <1>3, <1>4, SenderMoves

LEMMA OutsideSInv ==
  ASSUME TInv, SInv,
         LoseWS \/ \E x \in Side : TrickleStep(x) \/ Opens(x) \/ PeerFails(x) \/ TimeOut(x)
  PROVE  SInv'
<1>t. PcType /\ WsType /\ PeerType /\ "S" \in Side /\ "R" \in Side /\ Other("S") = "R" /\ Other("R") = "S"
  BY DEF TInv, Side, Other
<1>q. ws["S"] \in Seq(Frame) /\ ws["R"] \in Seq(Frame)
  BY OffersInWs DEF TInv, Side
<1>h. ASSUME UNCHANGED <<pc, recvVars>> PROVE UNCHANGED <<Held, Passed>>
  BY <1>h DEF Held, Passed, Listening, recvVars
<1>f. ASSUME UNCHANGED <<pc, ws, recvVars>>
      PROVE  Flow' /\ (Calm => Calm') /\ (ReadyHeard' => ReadyHeard)
  BY <1>f, <1>h DEF SInv, Flow, Calm, ReadyHeard
<1>1. ASSUME NEW x \in Side, TrickleTake(x) \/ TrickleStop(x) \/ PeerFails(x) \/ TimeOut(x)
      PROVE  SInv'
  <2>1. UNCHANGED <<pc, ws, answered, opened, recvVars>>
    BY <1>1 DEF TrickleTake, TrickleStop, PeerFails, TimeOut, wsVars
  <2> QED BY <1>f, <2>1, OutsideMoves
<1>2. ASSUME NEW x \in Side, Opens(x)
      PROVE  SInv'
  <2>1. /\ UNCHANGED <<pc, ws, answered, recvVars>> /\ opened' = [opened EXCEPT ![x] = TRUE]
        /\ answered /\ pc[x] = "trying"
    BY <1>2 DEF Opens, wsVars
  <2>2. answered = TRUE
    BY <1>t, <2>1, Zenon DEF PeerType
  <2>3. opened'["S"] = opened["S"] \/ x = "S"
    BY <1>t, <1>2, <2>1 DEF PeerType, Side
  <2> QED BY <1>f, <2>1, <2>2, <2>3, OutsideMoves
<1>3. ASSUME NEW x \in Side, TrickleWrite(x)
      PROVE  SInv'
  <2>1. UNCHANGED <<pc, answered, opened, recvVars>> /\ ws' = Written(x, "Cand")
    BY <1>3 DEF TrickleWrite
  <2>2. "Cand" \in Frame /\ "Cand" \notin Announces
    BY DEF Frame, Message, Signals, Announces
  <2>3. CASE x = "S"
    <3>1. ws'["S"] = ws["S"] /\ (ws'["R"] = ws["R"] \/ ws'["R"] = Append(ws["R"], "Cand"))
      BY <1>t, <2>1, <2>2, <2>3, SenderWrote
    <3>2. Flow' /\ (Calm => Calm') /\ (ReadyHeard' => ReadyHeard)
      BY <1>h, <2>1, <2>2, <3>1, WriteFlow
    <3> QED BY <2>1, <3>1, <3>2, OutsideMoves
  <2>4. CASE x = "R"
    <3>1. ws'["R"] = ws["R"] /\ (ws'["S"] = ws["S"] \/ ws'["S"] = Append(ws["S"], "Cand"))
      BY <1>t, <2>1, <2>2, <2>4, ReceiverWrote
    <3>2. Flow' /\ (Calm => Calm') /\ (ReadyHeard' => ReadyHeard)
      BY <1>h, <2>1, <2>2, <3>1, WriteFlow
    <3>3. \A m \in {"Answer", "Ready"} : Has(ws'["S"], m) => Has(ws["S"], m)
      <4>1. \A m : Has(Append(ws["S"], "Cand"), m) <=> Has(ws["S"], m) \/ m = "Cand"
        BY <1>q, <2>2, Appended
      <4> QED BY <3>1, <4>1
    <3> QED BY <2>1, <3>2, <3>3, OutsideMoves
  <2> QED BY <1>3, <2>3, <2>4 DEF Side
<1>4. CASE LoseWS
  <2>1. PICK n \in 0 .. Len(ws["R"]) : ws' = [ws EXCEPT !["R"] = SubSeq(@, 1, n)]
    BY <1>4 DEF LoseWS
  <2>2. UNCHANGED <<pc, answered, opened, recvVars>>
    BY <1>4 DEF LoseWS, peerVars
  <2>3. ws'["S"] = ws["S"] /\ ws'["R"] = SubSeq(ws["R"], 1, n)
    BY <1>t, <2>1 DEF WsType, Side
  <2>4. /\ InOrder(SubSeq(ws["R"], 1, n), Held, Passed)
        /\ Quiet(ws["R"], Held, Passed) => Quiet(SubSeq(ws["R"], 1, n), Held, Passed)
        /\ ReadyIn(SubSeq(ws["R"], 1, n), Held, Passed) => ReadyIn(ws["R"], Held, Passed)
    BY <1>q, QueueCut DEF SInv, Flow
  <2>5. Flow' /\ (Calm => Calm') /\ (ReadyHeard' => ReadyHeard)
    BY <1>h, <2>2, <2>3, <2>4 DEF Flow, Calm, ReadyHeard
  <2> QED BY <2>2, <2>3, <2>5, OutsideMoves
<1> QED BY <1>1, <1>2, <1>3, <1>4 DEF TrickleStep

(* The reader goroutines: only that of the session the receiver is in       *)
(* counts, and one that a Version has stopped can but lose messages.        *)
LEMMA ReaderSInv ==
  ASSUME TInv, SInv, NEW g \in Gen, ReaderStep(g)
  PROVE  SInv'
<1>t. WsType /\ ReaderType /\ (Listening => gen \in Gen)
  BY TInvTypes DEF TInv, Listening
<1>q. ws["R"] \in Seq(Frame)
  BY OffersInWs DEF TInv, Side
<1>i. Flow /\ ReadyMeans
  BY DEF SInv
<1>1. CASE ReaderReads(g)
  <2>1. PICK m \in Message : Take(m) /\ reader' = [reader EXCEPT ![g] = m]
    BY <1>1 DEF ReaderReads
  <2>2. /\ reader[g] = "reading"
        /\ UNCHANGED <<pc, wsGone, peerVars, p2pReady, gen, out>>
    BY <1>1 DEF ReaderReads
  <2>3. /\ ws'["S"] = ws["S"]
        /\ \/ ws["R"] # << >> /\ m = Head(ws["R"]) /\ ws'["R"] = Tail(ws["R"])
           \/ m = "error" /\ ws'["R"] = ws["R"]
    BY <1>t, <2>1, <2>2, TakeFacts
  <2>4. Passed' = Passed /\ (Held' = Held \/ (Held = "reading" /\ Held' = m))
    <3>1. Listening' = Listening
      BY <2>2, Zenon DEF Listening
    <3> QED BY <1>t, <2>1, <2>2, <3>1 DEF Held, Passed, ReaderType
  <2>5. Drains
    <3>1. CASE ws["R"] # << >> /\ m = Head(ws["R"]) /\ ws'["R"] = Tail(ws["R"])
      BY <1>i, <1>q, <2>4, <3>1, QueueReads DEF Drains, Flow, Calm, ReadyHeard
    <3>2. CASE m = "error" /\ ws'["R"] = ws["R"]
      BY <1>i, <2>4, <3>2 DEF Drains, Flow, Calm, ReadyHeard, InOrder, Quiet, ReadyIn, Announces
    <3> QED BY <2>3, <3>1, <3>2
  <2> QED BY <1>i, <2>2, <2>3, <2>5, Drained DEF peerVars, ReadyMeans, ReadyPending
<1>2. CASE ReaderPasses(g)
  <2>1. /\ reader[g] \in Message /\ UNCHANGED <<pc, ws, peerVars, p2pReady, gen>>
        /\ \/ out' = [out EXCEPT ![g] = Append(@, reader[g])] /\ reader' = [reader EXCEPT ![g] = Next_(reader[g])]
           \/ out' = out /\ reader' = [reader EXCEPT ![g] = "done"]
    BY <1>2 DEF ReaderPasses, wsVars
  <2>2. Next_(reader[g]) \in Idle /\ "done" \in Idle
    BY DEF Next_, Idle
  <2>3. Listening' = Listening
    BY <2>1, Zenon DEF Listening
  <2>4. Drains
    <3>1. CASE ~(Listening /\ g = gen)
      <4>1. Held' = Held /\ Passed' = Passed
        BY <1>t, <2>1, <2>3, <3>1 DEF Held, Passed, ReaderType
      <4> QED BY <1>i, <2>1, <4>1 DEF Drains, Flow, Calm, ReadyHeard
    <3>2. CASE Listening /\ g = gen
      <4>1. Held = reader[g] /\ Passed = out[g] /\ out[g] \in Seq(Message)
        BY <1>t, <3>2 DEF Held, Passed, ReaderType
      <4>2. PICK x \in Idle : Held' = x /\ (Passed' = Passed \/ Passed' = Append(Passed, Held))
        <5>1. Held' = reader'[g] /\ Passed' = out'[g]
          BY <2>1, <2>3, <3>2 DEF Held, Passed
        <5>2. reader'[g] \in Idle /\ (out'[g] = out[g] \/ out'[g] = Append(out[g], reader[g]))
          BY <1>t, <2>1, <2>2 DEF ReaderType
        <5> QED BY <4>1, <5>1, <5>2
      <4>3. Held \in Message /\ Passed \in Seq(Message) /\ InOrder(ws["R"], Held, Passed)
        BY <1>i, <2>1, <4>1 DEF Flow
      <4>4. /\ InOrder(ws["R"], x, Append(Passed, Held)) /\ InOrder(ws["R"], x, Passed)
            /\ Calm => Quiet(ws["R"], x, Append(Passed, Held)) /\ Quiet(ws["R"], x, Passed)
            /\ ReadyIn(ws["R"], x, Append(Passed, Held)) => ReadyHeard
            /\ ReadyIn(ws["R"], x, Passed) => ReadyHeard
        BY <4>3, QueuePasses DEF Calm, ReadyHeard
      <4> QED BY <2>1, <4>2, <4>4 DEF Drains, Flow, Calm, ReadyHeard
    <3> QED BY <3>1, <3>2
  <2> QED BY <1>i, <2>1, <2>4, Drained DEF peerVars, ReadyMeans, ReadyPending
<1> QED BY <1>1, <1>2 DEF ReaderStep

(* Steps of the receiver.                                                   *)
LEMMA TryingSInv ==
  ASSUME TInv, SInv,
         ReceiverOpenCh \/ ReceiverSignal \/ ReceiverGivesUp \/ ReceiverAgrees
  PROVE  SInv'
<1>t. PcType /\ ReaderType /\ PeerType /\ pc["R"] = "trying" /\ gen \in Gen /\ "R" \in Side /\ Other("R") = "S"
  <2>1. pc["R"] = "trying"
    BY DEF ReceiverOpenCh, ReceiverSignal, ReceiverGivesUp, ReceiverAgrees, Trying
  <2> QED BY <2>1, TInvTypes DEF TInv, Side, Other
<1>i. Flow /\ ReadyMeans
  BY DEF SInv
<1>o. Held = reader[gen] /\ Passed = out[gen] /\ out[gen] \in Seq(Message)
  BY <1>t DEF Held, Passed, Listening, ReaderType
<1>1. /\ UNCHANGED <<answered, gen, reader, ws>>
      /\ opened' = opened \/ opened' = [opened EXCEPT !["R"] = FALSE]
      /\ pc' = pc \/ Goto("R", "tail") \/ Goto("R", "dead") \/ Goto("R", "p2p")
      /\ out' = out \/ (out[gen] # << >> /\ out' = [out EXCEPT ![gen] = Tail(@)])
      /\ Goto("R", "p2p") => ReceiverAgrees
  <2>1. Goto("R", "p2p") => ReceiverAgrees
    <3>1. ReceiverOpenCh \/ ReceiverSignal \/ ReceiverGivesUp =>
              pc' = pc \/ Goto("R", "tail") \/ Goto("R", "dead")
      BY DEF ReceiverOpenCh, ReceiverSignal, ReceiverGivesUp, GiveUpTo
    <3>2. pc' = pc \/ Goto("R", "tail") \/ Goto("R", "dead") => pc'["R"] \in {"trying", "tail", "dead"}
      BY <1>t DEF PcType, Goto
    <3>3. Goto("R", "p2p") => pc'["R"] = "p2p"
      BY <1>t DEF PcType, Goto, Side
    <3> QED BY <3>1, <3>2, <3>3
  <2>2. CASE ReceiverOpenCh
    BY <2>1, <2>2 DEF ReceiverOpenCh, wsVars, peerVars
  <2>3. CASE ReceiverSignal
    BY <2>1, <2>3 DEF ReceiverSignal, Forget, wsVars, peerVars
  <2>4. CASE ReceiverGivesUp
    BY <2>1, <2>4 DEF ReceiverGivesUp, Forget, GiveUpTo
  <2>5. CASE ReceiverAgrees
    BY <2>1, <2>5 DEF ReceiverAgrees, Forget
  <2> QED BY <2>2, <2>3, <2>4, <2>5
<1>2. /\ pc'["S"] = pc["S"] /\ pc'["R"] \in {"trying", "tail", "dead", "p2p"}
      /\ pc'["R"] = "p2p" => Goto("R", "p2p")
  <2>1. CASE pc' = pc
    BY <1>t, <2>1
  <2>2. CASE Goto("R", "tail")
    BY <1>t, <2>2, PcMoves
  <2>3. CASE Goto("R", "dead")
    BY <1>t, <2>3, PcMoves
  <2>4. CASE Goto("R", "p2p")
    BY <1>t, <2>4, PcMoves
  <2> QED BY <1>1, <2>1, <2>2, <2>3, <2>4
<1>3. opened'["S"] = opened["S"]
  BY <1>1, <1>t DEF PeerType, Side
<1>4. Drains
  <2>1. \/ Held' = Held /\ (Passed' = Passed \/ (Passed # << >> /\ Passed' = Tail(Passed)))
        \/ Held' = "off" /\ Passed' = << >>
    <3>1. reader'[gen'] = reader[gen] /\ (out'[gen'] = out[gen] \/ (out[gen] # << >> /\ out'[gen'] = Tail(out[gen])))
      BY <1>t, <1>1 DEF ReaderType
    <3>2. CASE Listening'
      BY <1>o, <3>1, <3>2 DEF Held, Passed
    <3>3. CASE ~Listening'
      BY <3>3 DEF Held, Passed
    <3> QED BY <3>2, <3>3
  <2>2. ws'["R"] = ws["R"] /\ InOrder(ws["R"], Held, Passed) /\ "off" \in Idle
    BY <1>i, <1>1 DEF Flow, Idle
  <2>3. CASE Held' = Held /\ Passed' = Passed
    BY <2>2, <2>3 DEF Drains, Flow, Calm, ReadyHeard
  <2>4. CASE Held' = Held /\ Passed # << >> /\ Passed' = Tail(Passed)
    <3>1. Passed \in Seq(Message)
      BY <1>o
    <3>2. /\ InOrder(ws["R"], Held, Tail(Passed))
          /\ Calm => Quiet(ws["R"], Held, Tail(Passed))
          /\ ReadyIn(ws["R"], Held, Tail(Passed)) => ReadyHeard
      BY <2>2, <2>4, <3>1, QueueTaken DEF Calm, ReadyHeard
    <3> QED BY <2>2, <2>4, <3>2 DEF Drains, Flow, Calm, ReadyHeard
  <2>5. CASE Held' = "off" /\ Passed' = << >>
    <3>1. /\ InOrder(ws["R"], "off", << >>)
          /\ Calm => Quiet(ws["R"], "off", << >>)
          /\ ReadyIn(ws["R"], "off", << >>) => ReadyHeard
      BY <2>2, QueueForgotten DEF Calm, ReadyHeard
    <3> QED BY <2>2, <2>5, <3>1 DEF Drains, Flow, Calm, ReadyHeard
  <2> QED BY <2>1, <2>3, <2>4, <2>5
<1>5. p2pReady' = TRUE => (p2pReady = TRUE \/ ReadyHeard) /\ pc'["R"] = "trying"
  <2>1. CASE ReceiverOpenCh
    BY <1>t, <2>1 DEF ReceiverOpenCh
  <2>2. CASE ReceiverSignal
    <3>1. \/ Head(out[gen]) = "P2PReady" /\ pc' = pc /\ out[gen] # << >>
          \/ p2pReady' = FALSE
          \/ p2pReady' = p2pReady /\ pc' = pc
      BY <2>2 DEF ReceiverSignal
    <3>2. Head(out[gen]) = "P2PReady" /\ out[gen] # << >> => ReadyHeard
      <4>1. InOrder(ws["R"], Held, Passed) /\ Passed \in Seq(Message)
        BY <1>i, <1>o DEF Flow
      <4>2. Passed # << >> /\ Head(Passed) = "P2PReady" => ReadyIn(ws["R"], Held, Passed)
        BY <4>1, QueueTaken
      <4> QED BY <1>o, <4>2 DEF ReadyHeard
    <3> QED BY <1>t, <3>1, <3>2
  <2>3. CASE ReceiverGivesUp \/ ReceiverAgrees
    BY <2>3 DEF ReceiverGivesUp, ReceiverAgrees
  <2> QED BY <2>1, <2>2, <2>3
<1>6. pc'["R"] = "p2p" => ReadyPending
  <2>1. ReceiverAgrees => p2pReady = TRUE
    BY <1>t, Zenon DEF ReceiverAgrees, Agreed, ReaderType
  <2> QED BY <1>1, <1>2, <2>1 DEF ReadyPending
<1> QED BY <1>1, <1>2, <1>3, <1>4, <1>5, <1>6, Drained

(* What the receiver answers to a Version is no Answer.                     *)
LEMMA SenderHears ==
  ASSUME ws["S"] \in Seq(Frame),
         ws'["S"] \in {ws["S"], Append(ws["S"], "Ready"), Append(ws["S"], "Torn")}
  PROVE  /\ Has(ws'["S"], "Answer") <=> Has(ws["S"], "Answer")
         /\ ws'["S"] = ws["S"] => (Has(ws'["S"], "Ready") <=> Has(ws["S"], "Ready"))
<1>1. \A r \in {"Ready", "Torn"} : r \in Frame /\ r # "Answer"
  BY DEF Frame, Message, Signals
<1>2. \A r \in {"Ready", "Torn"} : Has(Append(ws["S"], r), "Answer") <=> Has(ws["S"], "Answer")
  BY <1>1, Appended
<1> QED BY <1>2

LEMMA ReadTailSInv ==
  ASSUME TInv, SInv, ReadTail
  PROVE  SInv'
<1> DEFINE m == Head(out[gen])
<1>1. /\ pc["R"] = "tail" /\ out[gen] # << >> /\ Consume(m)
      /\ out' = [out EXCEPT ![gen] = Tail(@)] /\ ws' \in AndReady(m, ws)
      /\ UNCHANGED <<wsGone, peerVars, p2pReady, gen, reader>>
  BY DEF ReadTail
<1>t. WsType /\ ReaderType /\ gen \in Gen /\ out[gen] \in Seq(Message) /\ ws["S"] \in Seq(Frame)
  BY <1>1, TInvTypes, OffersInWs DEF TInv, ReaderType, Side
<1>i. Flow /\ ReadyMeans /\ AnswerMeans /\ Held = reader[gen] /\ Passed = out[gen]
  BY <1>1 DEF SInv, Held, Passed, Listening
<1>2. m \in Message
  BY <1>1, <1>t, Taken
<1>3. /\ InOrder(ws["R"], Held, Tail(Passed))
      /\ Calm => Quiet(ws["R"], Held, Tail(Passed)) /\ m \notin Announces
      /\ ReadyIn(ws["R"], Held, Tail(Passed)) => ReadyHeard
      /\ m \in Announces => ~ReadyHeard
  <2>1. InOrder(ws["R"], Held, Passed) /\ Passed # << >> /\ Passed \in Seq(Message) /\ m = Head(Passed)
    BY <1>1, <1>t, <1>i DEF Flow
  <2> QED BY <2>1, QueueTaken DEF Calm, ReadyHeard
<1> HIDE DEF m
<1>4. /\ pc'["S"] = pc["S"] /\ pc'["R"] \in {"tail", "first", "ok", "dead"}
      /\ pc'["R"] = "first" => m = "Version"
  BY <1>1, <1>2, ConsumeFacts
<1>5. /\ ws'["R"] = ws["R"]
      /\ \/ ws'["S"] = ws["S"]
         \/ m = "Version" /\ ws'["S"] \in {Append(ws["S"], "Ready"), Append(ws["S"], "Torn")}
  BY <1>1, <1>2, <1>t, ReadyFacts DEF WsType
<1>6. Drains
  <2>1. CASE pc'["R"] = "tail"
    <3>1. Held' = Held /\ Passed' = Tail(Passed)
      BY <1>1, <1>t, <1>i, <2>1 DEF Held, Passed, Listening, ReaderType
    <3> QED BY <1>3, <1>5, <3>1 DEF Drains, Flow, Calm, ReadyHeard
  <2>2. CASE pc'["R"] # "tail"
    <3>1. Held' = "off" /\ Passed' = << >> /\ "off" \in Idle
      BY <1>4, <2>2 DEF Held, Passed, Listening, Idle
    <3>2. /\ InOrder(ws["R"], "off", << >>)
          /\ Calm => Quiet(ws["R"], "off", << >>)
          /\ ReadyIn(ws["R"], "off", << >>) => ReadyHeard
      BY <1>i, <3>1, QueueForgotten DEF Flow, Calm, ReadyHeard
    <3> QED BY <1>5, <3>1, <3>2 DEF Drains, Flow, Calm, ReadyHeard
  <2> QED BY <2>1, <2>2
<1>7. m = "Version" => ~ReadyPending /\ ~AnswerPending
  BY <1>1, <1>3, <1>i DEF ReadyPending, ReadyMeans, AnswerMeans, Announces
<1>8. /\ Has(ws'["S"], "Answer") <=> Has(ws["S"], "Answer")
      /\ Has(ws'["S"], "Ready") => Has(ws["S"], "Ready") \/ ~ReadyPending
  BY <1>t, <1>5, <1>7, SenderHears
<1>9. p2pReady # TRUE
  BY <1>1, <1>i DEF ReadyMeans
<1>10. pc'["R"] \in {"first", "ws"} => ~ReadyHeard /\ ~AnswerPending
  BY <1>4, <1>7 DEF ReadyPending
<1> QED BY <1>1, <1>4, <1>6, <1>8, <1>9, <1>10, Drained DEF peerVars

(* Whoever reads the WebSocket itself has nothing to expect.                *)
LEMMA PlainReads ==
  ASSUME TInv, SInv, pc["R"] \in {"first", "ws"}, UNCHANGED <<answered, opened["S"], pc["S"], p2pReady>>,
         pc'["R"] \in {"first", "ws", "ok", "dead"},
         ws'["R"] = ws["R"] \/ (ws["R"] # << >> /\ ws'["R"] = Tail(ws["R"])),
         ws'["S"] \in {ws["S"], Append(ws["S"], "Ready"), Append(ws["S"], "Torn")}
  PROVE  SInv'
<1>q. ws["S"] \in Seq(Frame) /\ ws["R"] \in Seq(Frame)
  BY OffersInWs DEF TInv, Side
<1>i. Flow /\ ~ReadyPending /\ ~AnswerPending /\ p2pReady # TRUE
  BY DEF SInv, ReadyMeans, AnswerMeans
<1>1. Held' = Held /\ Passed' = Passed
  BY DEF Held, Passed, Listening
<1>2. Drains
  <2>1. CASE ws'["R"] = ws["R"]
    BY <1>i, <1>1, <2>1 DEF Drains, Flow, Calm, ReadyHeard
  <2>2. CASE ws["R"] # << >> /\ ws'["R"] = Tail(ws["R"])
    BY <1>i, <1>q, <1>1, <2>2, QueueReads DEF Drains, Flow, Calm, ReadyHeard
  <2> QED BY <2>1, <2>2
<1>3. Has(ws'["S"], "Answer") <=> Has(ws["S"], "Answer")
  BY <1>q, SenderHears
<1>4. ~ReadyHeard
  BY <1>i DEF ReadyPending
<1> QED BY <1>i, <1>2, <1>3, <1>4, Drained

LEMMA ReadSInv ==
  ASSUME TInv, SInv, ReadWS \/ ReadP2P
  PROVE  SInv'
<1>t. WsType /\ ws["R"] \in Seq(Frame)
  BY OffersInWs DEF TInv, Side
<1>1. CASE ReadWS
  <2>1. pc["R"] = "ws" /\ UNCHANGED <<peerVars, p2pReady>>
    BY <1>1 DEF ReadWS
  <2>2. PICK m \in Message :
           /\ Consume(m)
           /\ ws'["R"] = ws["R"] \/ (ws["R"] # << >> /\ ws'["R"] = Tail(ws["R"]))
           /\ ws'["S"] \in {ws["S"], Append(ws["S"], "Ready"), Append(ws["S"], "Torn")}
    <3>1. CASE ws["R"] # << >> /\ Consume(Head(ws["R"]))
               /\ ws' \in AndReady(Head(ws["R"]), [ws EXCEPT !["R"] = Tail(@)])
      <4> DEFINE w == [ws EXCEPT !["R"] = Tail(@)]
      <4>1. Head(ws["R"]) \in Message /\ Tail(ws["R"]) \in Seq(Frame)
        BY <1>t, <3>1, Taken DEF Frame
      <4>2. w \in [Side -> Seq(Frame)] /\ w["S"] = ws["S"] /\ w["R"] = Tail(ws["R"])
        BY <1>t, <4>1 DEF WsType, Side
      <4>3. ws' \in AndReady(Head(ws["R"]), w)
        BY <3>1
      <4> HIDE DEF w
      <4>4. /\ ws'["R"] = Tail(ws["R"])
            /\ ws'["S"] \in {ws["S"], Append(ws["S"], "Ready"), Append(ws["S"], "Torn")}
        BY <1>t, <4>1, <4>2, <4>3, ReadyFacts
      <4> QED BY <3>1, <4>1, <4>4
    <3>2. CASE Consume("error") /\ ws' = ws
      BY <3>2 DEF Message
    <3> QED BY <1>1, <3>1, <3>2 DEF ReadWS
  <2>3. pc'["S"] = pc["S"] /\ pc'["R"] \in {"ws", "first", "ok", "dead"}
    BY <2>1, <2>2, ConsumeFacts
  <2> QED BY <2>1, <2>2, <2>3, PlainReads DEF peerVars
<1>2. CASE ReadP2P
  <2>1. pc["R"] = "p2p" /\ UNCHANGED <<ws, peerVars, p2pReady>>
    BY <1>2 DEF ReadP2P, wsVars
  <2>2. PICK m \in Message : Consume(m) /\ m # "Version"
    <3>1. dc # << >> => Head(dc) \in {Stream[i] : i \in 1 .. 3}
      BY Taken DEF TInv, StreamType
    <3>2. \A x \in {Stream[i] : i \in 1 .. 3} \cup {"error"} : x \in Message /\ x # "Version"
      BY DEF Message, Stream
    <3> QED BY <1>2, <3>1, <3>2 DEF ReadP2P
  <2>3. pc'["S"] = pc["S"] /\ pc'["R"] \in {"p2p", "ok", "dead"}
    BY <2>1, <2>2, ConsumeFacts
  <2>4. Held' = Held /\ Passed' = Passed
    BY <2>1, <2>3 DEF Held, Passed, Listening
  <2>5. Drains
    BY <2>1, <2>4 DEF SInv, Drains, Flow, Calm, ReadyHeard
  <2>6. ReadyPending /\ p2pReady # TRUE
    BY <2>1 DEF SInv, ReadyMeans, ReadyPending
  <2> QED BY <2>1, <2>3, <2>5, <2>6, Drained DEF peerVars
<1> QED BY <1>1, <1>2

LEMMA FirstSInv ==
  ASSUME TInv, SInv, ReceiveFirst
  PROVE  SInv'
<1>1. /\ pc["R"] = "first" /\ ws["R"] # << >> /\ ws'["R"] = Tail(ws["R"])
      /\ UNCHANGED <<answered, out>> /\ pc'["S"] = pc["S"]
  BY FirstFacts
<1>q. ws["S"] \in Seq(Frame) /\ ws["R"] \in Seq(Frame) /\ ReaderType /\ PeerType
  BY OffersInWs DEF TInv, Side
<1>i. Flow /\ OpenMeans /\ ~ReadyPending /\ ~AnswerPending
  BY <1>1 DEF SInv, ReadyMeans, AnswerMeans
<1>2. CASE FirstMsg # "Offer"
  BY <1>1, <1>2, FirstFacts, PlainReads
<1>3. CASE FirstMsg = "Offer"
  <2>1. /\ pc'["R"] = "trying" /\ gen' = gen + 1
        /\ reader' = [reader EXCEPT ![gen + 1] = "reading"]
        /\ opened' = [opened EXCEPT !["R"] = FALSE] /\ p2pReady' = FALSE
        /\ ws'["S"] \in {ws["S"], Append(ws["S"], AnswerToOffer), Append(ws["S"], "Torn")}
    BY <1>3, FirstFacts
  <2>2. gen' \in Gen /\ gen \in Nat
    <3>1. TInv'
      BY FirstTInv
    <3> QED BY <2>1, <3>1, TInvTypes DEF TInv, ReaderType
  <2>3. Held' = "reading" /\ Passed' = << >> /\ "reading" \in Idle
    <3>1. gen + 1 > gen
      BY <2>2
    <3>2. reader'[gen + 1] = "reading" /\ out[gen + 1] = << >>
      BY <1>q, <2>1, <2>2, <3>1 DEF ReaderType
    <3> QED BY <1>1, <2>1, <3>2 DEF Held, Passed, Listening, Idle
  <2>4. /\ InOrder(Tail(ws["R"]), "reading", << >>)
        /\ ReadyIn(Tail(ws["R"]), "reading", << >>) => ReadyHeard
    <3>1. InOrder(Tail(ws["R"]), Held, Passed) /\ (ReadyIn(Tail(ws["R"]), Held, Passed) => ReadyHeard)
      BY <1>1, <1>q, <1>i, QueueReads DEF Flow, ReadyHeard
    <3> QED BY <2>3, <3>1, QueueForgotten
  <2>5. Flow' /\ ~ReadyPending'
    BY <1>1, <1>i, <2>1, <2>3, <2>4 DEF Flow, ReadyHeard, ReadyPending
  <2>6. ReadyMeans'
    BY <2>1, <2>5 DEF ReadyMeans
  <2>7. Has(ws'["S"], "Answer") => Has(ws["S"], "Answer") \/ AnswerToOffer = "Answer"
    <3>1. AnswerToOffer \in Frame /\ "Torn" \in Frame
      BY DEF AnswerToOffer, Frame, Message, Signals
    <3>2. \A x : Has(Append(ws["S"], AnswerToOffer), x) <=> Has(ws["S"], x) \/ x = AnswerToOffer
      BY <1>q, <3>1, Appended
    <3>3. \A x : Has(Append(ws["S"], "Torn"), x) <=> Has(ws["S"], x) \/ x = "Torn"
      BY <1>q, <3>1, Appended
    <3> QED BY <2>1, <3>2, <3>3
  <2>8. AnswerToOffer = "Answer" =>
           pc["S"] = "trying" /\ \A i \in 2 .. Len(ws["R"]) : ws["R"][i] \notin Announces
    BY DEF AnswerToOffer, OfferIsCurrent, Announces
  <2>9. (\A i \in 2 .. Len(ws["R"]) : ws["R"][i] \notin Announces) => Clear(Tail(ws["R"]))
    <3>1. /\ Len(ws["R"]) \in Nat /\ Len(Tail(ws["R"])) = Len(ws["R"]) - 1
          /\ \A i \in 1 .. Len(Tail(ws["R"])) : Tail(ws["R"])[i] = ws["R"][i + 1]
      <4>1. Len(ws["R"]) \in Nat \ {0}
        BY <1>1, <1>q, EmptySeq
      <4> QED BY <1>1, <1>q, <4>1, HeadTailProperties
    <3>2. \A i \in 1 .. Len(Tail(ws["R"])) : i + 1 \in 2 .. Len(ws["R"])
      BY <3>1
    <3> QED BY <3>1, <3>2 DEF Clear
  <2>10. AnswerMeans'
    <3> SUFFICES ASSUME AnswerPending' PROVE Calm'
      BY <2>1 DEF AnswerMeans
    <3>1. AnswerToOffer = "Answer"
      BY <1>1, <1>i, <2>7 DEF AnswerPending
    <3>2. "reading" \notin Announces /\ Clear(<< >>)
      BY Silent DEF Announces
    <3> QED BY <1>1, <2>3, <2>8, <2>9, <3>1, <3>2 DEF Calm, Quiet
  <2>11. OpenMeans'
    <3>1. opened'["S"] = opened["S"]
      BY <1>q, <2>1 DEF PeerType, Side
    <3>2. pc["S"] \in {"await", "offer"} => ~Has(ws'["S"], "Answer")
      BY <1>i, <2>7, <2>8 DEF OpenMeans
    <3> QED BY <1>1, <1>i, <3>1, <3>2 DEF OpenMeans
  <2> QED BY <2>5, <2>6, <2>10, <2>11 DEF SInv
<1> QED BY <1>2, <1>3

LEMMA ReceiverEndsSInv ==
  ASSUME TInv, SInv, ReceiveFirstFails \/ ReadDeadline \/ ReceiverExits
  PROVE  SInv'
<1>t. PcType /\ "R" \in Side /\ Other("R") = "S"
  BY DEF TInv, Side, Other
<1>1. /\ UNCHANGED <<ws, opened, answered, recvVars>>
      /\ pc["R"] \in {"first", "ws", "p2p", "ok", "dead"}
      /\ pc' = pc \/ Goto("R", "dead")
      /\ pc["R"] \in {"first", "ws"} => Goto("R", "dead")
  BY DEF ReceiveFirstFails, ReadDeadline, ReceiverExits, wsVars, peerVars
<1>2. /\ pc'["S"] = pc["S"]
      /\ pc'["R"] = "dead" \/ (pc' = pc /\ pc["R"] \in {"p2p", "ok", "dead"})
  BY <1>t, <1>1, PcMoves
<1>3. Held' = Held /\ Passed' = Passed
  BY <1>1, <1>2 DEF Held, Passed, Listening
<1>4. Drains
  BY <1>1, <1>3 DEF SInv, Drains, Flow, Calm, ReadyHeard
<1>5. p2pReady' # TRUE
  BY <1>1 DEF SInv, ReadyMeans, recvVars
<1>6. pc'["R"] = "p2p" => ReadyPending
  BY <1>2 DEF ReadyPending
<1> QED BY <1>1, <1>2, <1>4, <1>5, <1>6, Drained

LEMMA CrashSInv ==
  ASSUME TInv, SInv, NEW x \in Side, ConcurrentWrite(x)
  PROVE  SInv'
<1>1. /\ pc'[x] = "dead" /\ pc'[Other(x)] = pc[Other(x)]
      /\ UNCHANGED <<ws, opened, answered, recvVars>>
  BY CrashFacts
<1>i. Flow /\ ReadyMeans /\ AnswerMeans /\ OpenMeans
  BY DEF SInv
<1>2. CASE x = "S"
  <2>1. pc'["R"] = pc["R"] /\ pc'["S"] = "dead"
    BY <1>1, <1>2 DEF Other
  <2>2. UNCHANGED <<Held, Passed, pc["R"], p2pReady>>
    BY <1>1, <2>1 DEF Held, Passed, Listening, recvVars
  <2>3. Flow' /\ (ReadyHeard' => ReadyHeard)
    BY <1>i, <1>1, <2>2 DEF Flow, ReadyHeard
  <2>4. OpenMeans' /\ ~AnswerPending'
    BY <2>1 DEF OpenMeans, AnswerPending
  <2> QED BY <2>1, <2>2, <2>3, <2>4, SenderMoves
<1>3. CASE x = "R"
  <2>1. pc'["R"] = "dead" /\ pc'["S"] = pc["S"] /\ pc["R"] \in {"first", "ws", "tail"}
    BY <1>1, <1>3 DEF Other, ConcurrentWrite, WritesNext
  <2>2. Held' = "off" /\ Passed' = << >> /\ "off" \in Idle
    BY <2>1 DEF Held, Passed, Listening, Idle
  <2>3. /\ InOrder(ws["R"], "off", << >>)
        /\ Calm => Quiet(ws["R"], "off", << >>)
        /\ ReadyIn(ws["R"], "off", << >>) => ReadyHeard
    BY <1>i, <2>2, QueueForgotten DEF Flow, Calm, ReadyHeard
  <2>4. Drains
    BY <1>1, <2>2, <2>3 DEF Drains, Flow, Calm, ReadyHeard
  <2>5. p2pReady' # TRUE
    BY <1>i, <1>1, <2>1 DEF ReadyMeans, recvVars
  <2> QED BY <1>1, <2>1, <2>4, <2>5, Drained
<1> QED BY <1>2, <1>3 DEF Side

LEMMA InitSInv == Init => SInv
<1> SUFFICES ASSUME Init PROVE SInv
  OBVIOUS
<1>1. /\ ws["R"] = << >> /\ ws["S"] = << >> /\ pc["S"] = "offer" /\ pc["R"] = "first"
      /\ opened["S"] = FALSE /\ answered = FALSE /\ p2pReady = FALSE
  BY DEF Init, Side
<1>2. Held = "off" /\ Passed = << >>
  BY <1>1 DEF Held, Passed, Listening
<1>3. Flow /\ ~ReadyHeard
  BY <1>1, <1>2, Silent DEF Flow, InOrder, ReadyHeard, ReadyIn
<1>4. ~Has(ws["S"], "Answer")
  BY <1>1 DEF Has
<1> QED BY <1>1, <1>3, <1>4 DEF SInv, ReadyMeans, ReadyPending, AnswerMeans, AnswerPending, OpenMeans

LEMMA NextSInv == TInv /\ SInv /\ [Next]_vars => SInv'
<1> SUFFICES ASSUME TInv, SInv, [Next]_vars PROVE SInv'
  OBVIOUS
<1>1. CASE SenderStep
  BY <1>1, SenderSInv
<1>2. CASE SenderExits \/ AwaitReady \/ Restart
  BY <1>2, SenderEndsSInv
<1>3. CASE ReceiverStep
  BY <1>3, FirstSInv, TryingSInv, ReadTailSInv, ReadSInv DEF ReceiverStep
<1>4. CASE ReceiveFirstFails \/ ReadDeadline \/ ReceiverExits
  BY <1>4, ReceiverEndsSInv
<1>5. CASE LoseWS \/ \E x \in Side : TrickleStep(x) \/ Opens(x) \/ PeerFails(x) \/ TimeOut(x)
  BY <1>5, OutsideSInv
<1>c. CASE \E x \in Side : ConcurrentWrite(x)
  BY <1>c, CrashSInv
<1>6. CASE \E g \in Gen : ReaderStep(g)
  BY <1>6, ReaderSInv
<1>7. CASE UNCHANGED vars
  <2>1. UNCHANGED <<pc, ws, answered, opened, recvVars>>
    BY <1>7 DEF vars, wsVars, peerVars
  <2>2. UNCHANGED <<Held, Passed>>
    BY <2>1 DEF Held, Passed, Listening, recvVars
  <2>3. Flow' /\ (Calm => Calm') /\ (ReadyHeard' => ReadyHeard)
    BY <2>1, <2>2 DEF SInv, Flow, Calm, ReadyHeard
  <2> QED BY <2>1, <2>3, OutsideMoves
<1> QED BY <1>1, <1>2, <1>3, <1>4, <1>5, <1>c, <1>6, <1>7 DEF Next

LEMMA SpecSInv == Spec => [](TInv /\ SInv)
<1>1. Init => TInv /\ SInv
  BY InitTInv, InitSInv
<1>2. (TInv /\ SInv) /\ [Next]_vars => (TInv /\ SInv)'
  BY NextTInv, NextSInv
<1> QED BY <1>1, <1>2, PTL DEF Spec

(* The two sides never part ways: a sender that streams over the WebSocket  *)
(* has no receiver that settled on the data channel.  The receiver settles   *)
(* only with a P2PReady, after which the sender is on the data channel too, *)
(* ended, or reloaded and waiting for a Ready that never comes: the         *)
(* receiver, past its first message, does not hear an announcement.         *)
THEOREM NeverApart == Spec => []NoSplit
<1>1. SInv => NoSplit
  BY DEF SInv, ReadyMeans, ReadyPending, NoSplit
<1> QED BY <1>1, SpecSInv, PTL

-----------------------------------------------------------------------------
(* Why one goroutine at a time reads the WebSocket: while the sender is not *)
(* reloaded there is no Version anywhere, and without one the receiver does *)
(* not come back to reading its first message.                              *)

NoVersion ==
    /\ ~Has(ws["R"], "Version")
    /\ \A g \in Gen : reader[g] # "Version" /\ ~Has(out[g], "Version")

OneSession == gen <= 1 /\ (pc["R"] \in {"first", "ws"} => gen = 0)

RInv == restarts = 0 => NoVersion /\ OneSession

LEMMA SameReaders ==
  ASSUME RInv, NEW m \in Frame, UNCHANGED <<restarts, recvVars>>,
         pc'["R"] = pc["R"] \/ pc'["R"] \notin {"first", "ws"}, TInv,
         \/ ws'["R"] = ws["R"]
         \/ m # "Version" /\ ws'["R"] = Append(ws["R"], m)
         \/ \E n \in 0 .. Len(ws["R"]) : ws'["R"] = SubSeq(ws["R"], 1, n)
  PROVE  RInv'
<1>q. ws["R"] \in Seq(Frame)
  BY OffersInWs DEF TInv, Side
<1>1. ~Has(ws["R"], "Version") => ~Has(ws'["R"], "Version")
  <2>1. \A x : Has(Append(ws["R"], m), x) <=> Has(ws["R"], x) \/ x = m
    BY <1>q, Appended
  <2>2. \A n \in 0 .. Len(ws["R"]) : \A x : Has(SubSeq(ws["R"], 1, n), x) => Has(ws["R"], x)
    BY <1>q, Cut
  <2> QED BY <2>1, <2>2
<1> QED BY <1>1 DEF RInv, NoVersion, OneSession, recvVars

LEMMA SenderRInv ==
  ASSUME TInv, RInv, SenderStep \/ SenderExits \/ AwaitReady \/ Restart
  PROVE  RInv'
<1>t. PcType /\ WsType /\ "S" \in Side /\ Other("S") = "R" /\ DOMAIN ws = Side
  BY DEF TInv, Side, Other, WsType
<1>m. {"Offer", "P2PReady", "P2PFail", "Torn"} \subseteq Frame
  BY DEF Frame, Message, Signals
<1>1. CASE Restart
  <2>1. restarts \in Nat /\ restarts' = restarts + 1
    BY <1>1 DEF Restart, TInv, StreamType
  <2>2. restarts' # 0
    BY <2>1
  <2> QED BY <2>2 DEF RInv
<1>2. CASE SenderStep \/ SenderExits \/ AwaitReady
  <2>1. UNCHANGED <<restarts, recvVars>>
    BY <1>2 DEF SenderStep, SendOffer, SenderReads, AnswerFails, SenderOpenCh, SenderGivesUp, SendP2PReady,
       SendP2PFail, StreamWS, StreamP2P, SenderExits, AwaitReady, senderVars
  <2>2. pc'["R"] = pc["R"]
    <3>1. pc' = pc \/ \E l \in {"offer", "trying", "joining", "failing", "ws", "p2p", "await", "dead"} : Goto("S", l)
      BY <1>2 DEF SenderStep, SendOffer, SenderReads, AnswerFails, SenderOpenCh, SenderGivesUp, SendP2PReady,
         SendP2PFail, StreamWS, StreamP2P, SenderExits, AwaitReady
    <3> QED BY <1>t, <3>1 DEF PcType, Goto, Side
  <2>3. PICK m \in Frame : m # "Version" /\ (ws'["R"] = ws["R"] \/ ws'["R"] = Append(ws["R"], m))
    <3>1. CASE ws' = ws \/ ws' = [ws EXCEPT !["S"] = Tail(@)] \/ Forget("S")
      <4>1. ws'["R"] = ws["R"]
        BY <1>t, <3>1 DEF Forget, Side
      <4> QED BY <1>m, <4>1
    <3>2. ASSUME NEW x \in Frame, x # "Version", ws' = Written("S", x)
          PROVE  \E m \in Frame : m # "Version" /\ (ws'["R"] = ws["R"] \/ ws'["R"] = Append(ws["R"], m))
      <4>1. ws'["R"] = ws["R"] \/ ws'["R"] = Append(ws["R"], x)
        BY <1>t, <3>2, WrittenFacts
      <4> QED BY <3>2, <4>1
    <3>3. CASE StreamWS /\ ws' = Written("S", Stream[sPos + 1])
      <4>1. sPos \in 0 .. 2
        BY <3>3 DEF StreamWS, TInv, StreamType
      <4>2. Stream[sPos + 1] \in Frame /\ Stream[sPos + 1] # "Version"
        BY <4>1 DEF Frame, Message, Stream
      <4> QED BY <3>2, <3>3, <4>2
    <3>4. CASE \E x \in {"Offer", "P2PReady", "P2PFail", "Torn"} : ws' = Written("S", x)
      BY <1>m, <3>2, <3>4
    <3>5. \/ ws' = ws \/ ws' = [ws EXCEPT !["S"] = Tail(@)] \/ Forget("S")
          \/ StreamWS /\ ws' = Written("S", Stream[sPos + 1])
          \/ \E x \in {"Offer", "P2PReady", "P2PFail", "Torn"} : ws' = Written("S", x)
      BY <1>2, SentIs DEF SenderStep, SendOffer, SenderReads, AnswerFails, SenderOpenCh, SenderGivesUp, SendP2PReady,
         SendP2PFail, StreamWS, StreamP2P, SenderExits, AwaitReady, wsVars
    <3> QED BY <3>1, <3>3, <3>4, <3>5
  <2> QED BY <2>1, <2>2, <2>3, SameReaders
<1> QED BY <1>1, <1>2

LEMMA OutsideRInv ==
  ASSUME TInv, RInv,
         \/ LoseWS \/ \E x \in Side : TrickleStep(x) \/ Opens(x) \/ PeerFails(x) \/ TimeOut(x)
         \/ ReceiveFirstFails \/ ReadDeadline \/ ReceiverExits
  PROVE  RInv'
<1>t. PcType /\ WsType /\ DOMAIN ws = Side /\ "Cand" \in Frame /\ "Cand" # "Version"
  BY DEF TInv, WsType, Frame, Message, Signals
<1>1. ASSUME NEW x \in Side, TrickleWrite(x)
      PROVE  RInv'
  <2>1. UNCHANGED <<pc, restarts, recvVars>> /\ ws' = Written(x, "Cand")
    BY <1>1 DEF TrickleWrite, senderVars
  <2>2. ws'["R"] = ws["R"] \/ ws'["R"] = Append(ws["R"], "Cand")
    <3>1. CASE x = "S"
      BY <1>t, <2>1, <3>1, WrittenFacts DEF Other, Side
    <3>2. CASE x = "R"
      BY <1>t, <2>1, <3>2, WrittenFacts DEF Other, Side
    <3> QED BY <3>1, <3>2 DEF Side
  <2> QED BY <1>t, <2>1, <2>2, SameReaders
<1>2. CASE LoseWS
  <2>1. PICK n \in 0 .. Len(ws["R"]) : ws' = [ws EXCEPT !["R"] = SubSeq(@, 1, n)]
    BY <1>2 DEF LoseWS
  <2>2. UNCHANGED <<pc, restarts, recvVars>>
    BY <1>2 DEF LoseWS, senderVars
  <2>3. ws'["R"] = SubSeq(ws["R"], 1, n)
    BY <1>t, <2>1 DEF Side
  <2> QED BY <1>t, <2>2, <2>3, SameReaders
<1>3. ASSUME UNCHANGED <<ws, restarts, recvVars>>, pc' = pc \/ Goto("R", "dead")
      PROVE  RInv'
  <2>1. pc'["R"] = pc["R"] \/ pc'["R"] = "dead"
    BY <1>t, <1>3 DEF PcType, Goto, Side
  <2> QED BY <1>t, <1>3, <2>1, SameReaders
<1>4. ASSUME NEW x \in Side, TrickleTake(x) \/ TrickleStop(x) \/ Opens(x) \/ PeerFails(x) \/ TimeOut(x)
      PROVE  RInv'
  BY <1>3, <1>4 DEF TrickleTake, TrickleStop, Opens, PeerFails, TimeOut, wsVars, senderVars
<1>5. CASE ReceiveFirstFails \/ ReadDeadline \/ ReceiverExits
  BY <1>3, <1>5 DEF ReceiveFirstFails, ReadDeadline, ReceiverExits, wsVars, senderVars
<1> QED BY <1>1, <1>2, <1>4, <1>5 DEF TrickleStep

LEMMA ReaderRInv ==
  ASSUME TInv, RInv, NEW g \in Gen, ReaderStep(g)
  PROVE  RInv'
<1>t. WsType /\ ReaderType /\ ws["R"] \in Seq(Frame)
  BY OffersInWs DEF TInv, Side
<1>1. CASE ReaderReads(g)
  <2>1. PICK m \in Message : Take(m) /\ reader' = [reader EXCEPT ![g] = m]
    BY <1>1 DEF ReaderReads
  <2>2. UNCHANGED <<pc, wsGone, restarts, gen, out>>
    BY <1>1 DEF ReaderReads, senderVars
  <2>3. \/ ws["R"] # << >> /\ m = Head(ws["R"]) /\ ws'["R"] = Tail(ws["R"])
        \/ m = "error" /\ ws'["R"] = ws["R"]
    BY <1>t, <2>1, <2>2, TakeFacts
  <2>4. ~Has(ws["R"], "Version") => ~Has(ws'["R"], "Version") /\ m # "Version"
    <3>1. CASE ws["R"] # << >> /\ m = Head(ws["R"]) /\ ws'["R"] = Tail(ws["R"])
      <4>1. Has(ws["R"], Head(ws["R"])) /\ \A x : Has(Tail(ws["R"]), x) => Has(ws["R"], x)
        BY <1>t, <3>1, Taken
      <4>2. m = "Version" => Has(ws["R"], "Version")
        BY <3>1, <4>1
      <4> QED BY <3>1, <4>1, <4>2
    <3> QED BY <2>3, <3>1
  <2> QED BY <1>t, <2>1, <2>2, <2>4 DEF RInv, NoVersion, OneSession, ReaderType
<1>2. CASE ReaderPasses(g)
  <2>1. /\ reader[g] \in Message /\ UNCHANGED <<pc, ws, restarts, gen>>
        /\ out' = out \/ out' = [out EXCEPT ![g] = Append(@, reader[g])]
        /\ reader' = [reader EXCEPT ![g] = Next_(reader[g])] \/ reader' = [reader EXCEPT ![g] = "done"]
    BY <1>2 DEF ReaderPasses, wsVars, senderVars
  <2>2. Next_(reader[g]) # "Version"
    BY DEF Next_
  <2>3. \A x : Has(Append(out[g], reader[g]), x) <=> Has(out[g], x) \/ x = reader[g]
    <3>1. out[g] \in Seq(Message)
      BY <1>t DEF ReaderType
    <3> QED BY <2>1, <3>1, Appended
  <2>4. NoVersion => \A h \in Gen : reader'[h] # "Version"
    BY <1>t, <2>1, <2>2 DEF NoVersion, ReaderType
  <2>5. NoVersion => \A h \in Gen : ~Has(out'[h], "Version")
    <3>1. \A h \in Gen : out'[h] = out[h] \/ (h = g /\ out'[h] = Append(out[g], reader[g]))
      BY <1>t, <2>1 DEF ReaderType
    <3>2. NoVersion => ~Has(Append(out[g], reader[g]), "Version")
      BY <2>3 DEF NoVersion
    <3> QED BY <3>1, <3>2 DEF NoVersion
  <2> QED BY <2>1, <2>4, <2>5 DEF RInv, NoVersion, OneSession
<1> QED BY <1>1, <1>2 DEF ReaderStep

LEMMA ReceiverRInv ==
  ASSUME TInv, RInv, ReceiverStep
  PROVE  RInv'
<1>t. WsType /\ ReaderType /\ PcType /\ ws["R"] \in Seq(Frame) /\ "R" \in Side /\ Other("R") = "S"
  BY OffersInWs DEF TInv, Side, Other
<1>n. "Version" \in Message /\ "error" \in Message
  BY DEF Message, Signals
<1>r. ws["R"] # << >> =>
         (~Has(ws["R"], "Version") => Head(ws["R"]) # "Version" /\ ~Has(Tail(ws["R"]), "Version"))
  <2> SUFFICES ASSUME ws["R"] # << >>, ~Has(ws["R"], "Version")
               PROVE  Head(ws["R"]) # "Version" /\ ~Has(Tail(ws["R"]), "Version")
    OBVIOUS
  <2>1. Has(ws["R"], Head(ws["R"])) /\ (Has(Tail(ws["R"]), "Version") => Has(ws["R"], "Version"))
    BY <1>t, Taken
  <2>2. Head(ws["R"]) = "Version" => Has(ws["R"], "Version")
    BY <2>1
  <2> QED BY <2>1, <2>2
<1>o. ASSUME gen \in Gen, out[gen] # << >>, NoVersion
      PROVE  Head(out[gen]) \in Message \ {"Version"} /\ ~Has(Tail(out[gen]), "Version")
  <2>1. out[gen] \in Seq(Message) /\ ~Has(out[gen], "Version")
    BY <1>t, <1>o DEF ReaderType, NoVersion
  <2>2. /\ Has(out[gen], Head(out[gen])) /\ Head(out[gen]) \in Message
        /\ Has(Tail(out[gen]), "Version") => Has(out[gen], "Version")
    BY <1>o, <2>1, Taken
  <2>3. Head(out[gen]) = "Version" => Has(out[gen], "Version")
    BY <2>2
  <2> QED BY <2>1, <2>2, <2>3
<1>1. CASE ReceiveFirst
  <2>1. /\ pc["R"] = "first" /\ ws["R"] # << >> /\ ws'["R"] = Tail(ws["R"])
        /\ UNCHANGED <<restarts, out>>
    BY <1>1, FirstFacts
  <2>2. CASE FirstMsg = "Offer"
    <3>1. pc'["R"] = "trying" /\ gen' = gen + 1 /\ reader' = [reader EXCEPT ![gen + 1] = "reading"]
      BY <1>1, <2>2, FirstFacts
    <3>2. NoVersion => \A g \in Gen : reader'[g] # "Version"
      BY <1>t, <3>1 DEF NoVersion, ReaderType
    <3>3. NoVersion => NoVersion'
      BY <1>r, <2>1, <3>2 DEF NoVersion
    <3>4. OneSession => OneSession'
      BY <2>1, <3>1 DEF OneSession
    <3> QED BY <2>1, <3>3, <3>4 DEF RInv
  <2>3. CASE FirstMsg # "Offer"
    <3>1. UNCHANGED <<gen, reader>>
      BY <1>1, <2>3, FirstFacts
    <3> QED BY <1>r, <2>1, <3>1 DEF RInv, NoVersion, OneSession
  <2> QED BY <2>2, <2>3
<1>2. CASE ReceiverOpenCh \/ ReceiverSignal \/ ReceiverGivesUp \/ ReceiverAgrees
  <2>1. pc["R"] = "trying"
    BY <1>2 DEF ReceiverOpenCh, ReceiverSignal, ReceiverGivesUp, ReceiverAgrees, Trying
  <2>2. gen \in Gen
    BY <2>1, TInvTypes DEF TInv
  <2>3. /\ UNCHANGED <<ws, restarts, gen, reader>>
        /\ out' = out \/ (out[gen] # << >> /\ out' = [out EXCEPT ![gen] = Tail(@)])
        /\ pc' = pc \/ Goto("R", "tail") \/ Goto("R", "dead") \/ Goto("R", "p2p")
    BY <1>2 DEF ReceiverOpenCh, ReceiverSignal, ReceiverGivesUp, GiveUpTo, ReceiverAgrees, Forget,
       wsVars, senderVars
  <2>4. pc'["R"] \notin {"first", "ws"}
    BY <1>t, <2>1, <2>3 DEF PcType, Goto, Side
  <2>5. NoVersion => \A g \in Gen : ~Has(out'[g], "Version")
    <3>1. \A g \in Gen : out'[g] = out[g] \/ (g = gen /\ out[gen] # << >> /\ out'[g] = Tail(out[gen]))
      BY <1>t, <2>3 DEF ReaderType
    <3> QED BY <1>o, <2>2, <3>1 DEF NoVersion
  <2> QED BY <2>3, <2>4, <2>5 DEF RInv, NoVersion, OneSession
<1>3. CASE ReadTail
  <2>1. /\ pc["R"] = "tail" /\ out[gen] # << >> /\ Consume(Head(out[gen]))
        /\ out' = [out EXCEPT ![gen] = Tail(@)] /\ ws' \in AndReady(Head(out[gen]), ws)
        /\ UNCHANGED <<restarts, gen, reader>>
    BY <1>3 DEF ReadTail, senderVars
  <2>2. gen \in Gen
    BY <2>1, TInvTypes DEF TInv
  <2>3. ASSUME NoVersion
        PROVE  ws'["R"] = ws["R"] /\ pc'["R"] \in {"tail", "ok", "dead"} /\ \A g \in Gen : ~Has(out'[g], "Version")
    <3>1. Head(out[gen]) \in Message /\ Head(out[gen]) # "Version" /\ ~Has(Tail(out[gen]), "Version")
      BY <1>o, <2>1, <2>2, <2>3
    <3>2. pc'["R"] \in {"tail", "ok", "dead"}
      BY <2>1, <3>1, ConsumeFacts
    <3>3. ws'["R"] = ws["R"]
      BY <2>1, <3>1 DEF AndReady
    <3>4. \A g \in Gen : out'[g] = out[g] \/ (g = gen /\ out'[g] = Tail(out[gen]))
      BY <1>t, <2>1 DEF ReaderType
    <3> QED BY <2>3, <3>1, <3>2, <3>3, <3>4 DEF NoVersion
  <2> QED BY <2>1, <2>3 DEF RInv, NoVersion, OneSession
<1>4. CASE ReadWS \/ ReadP2P
  <2>1. UNCHANGED <<restarts, gen, reader, out>> /\ pc["R"] \in {"ws", "p2p"}
    BY <1>4 DEF ReadWS, ReadP2P, senderVars
  <2>2. ASSUME NoVersion
        PROVE  ~Has(ws'["R"], "Version") /\ pc'["R"] \in {pc["R"], "ok", "dead"}
    <3>1. CASE ReadWS /\ ws["R"] # << >> /\ Consume(Head(ws["R"]))
               /\ ws' \in AndReady(Head(ws["R"]), [ws EXCEPT !["R"] = Tail(@)])
      <4>1. Head(ws["R"]) \in Message /\ Head(ws["R"]) # "Version" /\ ~Has(Tail(ws["R"]), "Version")
        <5>1. Head(ws["R"]) \in Frame
          BY <1>t, <3>1, Taken
        <5> QED BY <1>r, <2>2, <3>1, <5>1 DEF NoVersion, Frame
      <4>2. ws'["R"] = Tail(ws["R"])
        BY <1>t, <3>1, <4>1 DEF AndReady, WsType, Side
      <4> QED BY <2>1, <3>1, <4>1, <4>2, ConsumeFacts
    <3>2. ASSUME NEW m \in Message, m # "Version", Consume(m), ws'["R"] = ws["R"]
          PROVE  ~Has(ws'["R"], "Version") /\ pc'["R"] \in {pc["R"], "ok", "dead"}
      BY <2>1, <2>2, <3>2, ConsumeFacts DEF NoVersion
    <3>3. CASE ReadP2P
      <4>1. PICK m \in Message : Consume(m) /\ m # "Version"
        <5>1. dc # << >> => Head(dc) \in {Stream[i] : i \in 1 .. 3}
          BY Taken DEF TInv, StreamType
        <5>2. \A x \in {Stream[i] : i \in 1 .. 3} \cup {"error"} : x \in Message /\ x # "Version"
          BY DEF Message, Stream
        <5> QED BY <3>3, <5>1, <5>2 DEF ReadP2P
      <4>2. ws' = ws
        BY <3>3 DEF ReadP2P, wsVars
      <4> QED BY <3>2, <4>1, <4>2
    <3>4. CASE ReadWS /\ Consume("error") /\ ws' = ws
      BY <1>n, <3>2, <3>4
    <3> QED BY <1>4, <3>1, <3>3, <3>4 DEF ReadWS
  <2> QED BY <2>1, <2>2 DEF RInv, NoVersion, OneSession
<1> QED BY <1>1, <1>2, <1>3, <1>4 DEF ReceiverStep

LEMMA CrashRInv ==
  ASSUME TInv, RInv, NEW x \in Side, ConcurrentWrite(x)
  PROVE  RInv'
<1>1. /\ pc'[x] = "dead" /\ pc'[Other(x)] = pc[Other(x)]
      /\ UNCHANGED <<ws, senderVars, recvVars>>
  BY CrashFacts
<1>2. pc'["R"] \in {pc["R"], "dead"}
  BY <1>1 DEF Side, Other
<1>3. "Torn" \in Frame
  BY DEF Frame, Message, Signals
<1> QED BY <1>1, <1>2, <1>3, SameReaders DEF senderVars

LEMMA NextRInv == TInv /\ RInv /\ [Next]_vars => RInv'
<1> SUFFICES ASSUME TInv, RInv, [Next]_vars PROVE RInv'
  OBVIOUS
<1>1. CASE SenderStep \/ SenderExits \/ AwaitReady \/ Restart
  BY <1>1, SenderRInv
<1>2. CASE ReceiverStep
  BY <1>2, ReceiverRInv
<1>3. CASE \/ LoseWS \/ \E x \in Side : TrickleStep(x) \/ Opens(x) \/ PeerFails(x) \/ TimeOut(x)
           \/ ReceiveFirstFails \/ ReadDeadline \/ ReceiverExits
  BY <1>3, OutsideRInv
<1>c. CASE \E x \in Side : ConcurrentWrite(x)
  BY <1>c, CrashRInv
<1>4. CASE \E g \in Gen : ReaderStep(g)
  BY <1>4, ReaderRInv
<1>5. CASE UNCHANGED vars
  BY <1>5 DEF RInv, NoVersion, OneSession, vars, wsVars, senderVars, recvVars
<1> QED BY <1>1, <1>2, <1>3, <1>c, <1>4, <1>5 DEF Next

LEMMA SpecRInv == Spec => [](TInv /\ RInv)
<1>1. Init => RInv
  <2> SUFFICES ASSUME Init PROVE NoVersion /\ OneSession
    BY DEF RInv
  <2>1. ws["R"] = << >> /\ gen = 0 /\ \A g \in Gen : reader[g] = "off" /\ out[g] = << >>
    BY DEF Init, Side
  <2>2. ~Has(<< >>, "Version")
    BY DEF Has
  <2> QED BY <2>1, <2>2 DEF NoVersion, OneSession
<1>2. Init => TInv /\ RInv
  BY <1>1, InitTInv
<1>3. (TInv /\ RInv) /\ [Next]_vars => (TInv /\ RInv)'
  BY NextTInv, NextRInv
<1> QED BY <1>2, <1>3, PTL DEF Spec

(* One goroutine at a time reads the WebSocket, for as long as the sender   *)
(* is not reloaded: the receiver has started at most one reader goroutine,  *)
(* and since then reads through it.                                         *)
THEOREM ReadsAlone == Spec => []OneReader
<1>1. TInv /\ RInv => OneReader
  <2> SUFFICES ASSUME TInv, RInv, restarts = 0, NEW g \in Gen, reader[g] = "reading"
               PROVE  ~MainReads /\ g = gen
    BY DEF OneReader
  <2>1. g <= gen /\ gen \in Nat /\ g \in Int /\ g >= 1
    BY DEF TInv, ReaderType, Gen
  <2>2. gen <= 1 /\ (pc["R"] \in {"first", "ws"} => gen = 0)
    BY DEF RInv, OneSession
  <2> QED BY <2>1, <2>2 DEF MainReads
<1> QED BY <1>1, SpecRInv, PTL

-----------------------------------------------------------------------------
(* Nothing is left over.  All that is on its way to the receiver is one     *)
(* pipe: what its reader goroutine has passed on, then the message in that  *)
(* goroutine's hands, then the WebSocket.                                   *)

PipeOf(w, r, o) == (o \o (IF r \in Message THEN << r >> ELSE << >>)) \o w

Pipe == PipeOf(ws["R"], Held, Passed)

(* Three queues one behind the other, in whichever order they are joined.   *)
Joins(a, b, c) == (a \o b) \o c = a \o (b \o c)

LEMMA ThreeQueues ==
  ASSUME NEW a \in Seq(Message), NEW b \in Seq(Message), NEW c \in Seq(Message)
  PROVE  Joins(a, b, c)
BY ConcatAssociative DEF Joins
(* What of the stream a sender that has sent p of it did not send yet.      *)
AheadOf(p) == {Stream[k] : k \in p + 1 .. 3}

(* A message of the stream that the sender, in its present session, did not *)
(* send is from before a reload: a Version comes after it.                  *)
Behind(s, p) ==
    \A i \in 1 .. Len(s) : s[i] \in AheadOf(p) => \E j \in i + 1 .. Len(s) : s[j] = "Version"

AtMostOne(s) == \A i, j \in 1 .. Len(s) : s[i] = "Version" /\ s[j] = "Version" => i = j

(* The pipe s of a sender at p of its stream after n reloads; "any" says    *)
(* that a reader was stopped, "late" that the receiver is ahead of the      *)
(* sender.                                                                  *)
Sound(s, p, n, any, late) ==
    /\ Behind(s, p)
    /\ n = 0 => ~Has(s, "Version")
    /\ n <= 1 => AtMostOne(s)
    /\ n <= 1 /\ any => ~Has(s, "Version")
    /\ late => Has(s, "Version")

LEMMA NotMessages == \A r \in Idle : r \notin Message
BY DEF Idle, Message, Signals, Stream

LEMMA PipeReads ==
  ASSUME NEW w \in Seq(Frame), NEW o \in Seq(Message), NEW r, r \notin Message, w # << >>
  PROVE  PipeOf(Tail(w), Head(w), o) = PipeOf(w, r, o)
<1>1. Head(w) \in Message /\ w \in Seq(Message) /\ Tail(w) \in Seq(Message)
  <2>1. Head(w) \in Frame /\ Tail(w) \in Seq(Frame) /\ Frame \subseteq Message
    BY Taken DEF Frame
  <2> QED BY <2>1, SeqMonotonic
<1>2. << Head(w) >> \in Seq(Message)
  BY <1>1
<1>3. << Head(w) >> \o Tail(w) = w
  <2> DEFINE u == << Head(w) >> \o Tail(w)
  <2>1. /\ Len(Tail(w)) = Len(w) - 1 /\ \A i \in 1 .. Len(Tail(w)) : Tail(w)[i] = w[i + 1]
        /\ Len(w) \in Nat \ {0}
    BY <1>1, HeadTailProperties, EmptySeq
  <2>2. Len(<< Head(w) >>) = 1 /\ << Head(w) >>[1] = Head(w) /\ Head(w) = w[1]
    OBVIOUS
  <2>3. /\ u \in Seq(Message) /\ Len(u) = 1 + Len(Tail(w))
        /\ \A i \in 1 .. 1 + Len(Tail(w)) :
              u[i] = IF i <= 1 THEN << Head(w) >>[i] ELSE Tail(w)[i - 1]
    BY <1>1, <1>2, <2>2, ConcatProperties
  <2> HIDE DEF u
  <2>4. Len(u) = Len(w)
    BY <2>1, <2>3
  <2>5. ASSUME NEW i \in 1 .. Len(u) PROVE u[i] = w[i]
    <3>1. CASE i = 1
      BY <2>1, <2>2, <2>3, <3>1
    <3>2. CASE i > 1
      <4>1. i - 1 \in 1 .. Len(Tail(w)) /\ i - 1 + 1 = i
        BY <2>1, <2>4, <3>2
      <4>2. Tail(w)[i - 1] = w[i]
        BY <2>1, <4>1
      <4> QED BY <2>1, <2>3, <2>4, <3>2, <4>2
    <3> QED BY <2>1, <2>4, <3>1, <3>2
  <2>6. u = w
    BY <1>1, <2>3, <2>4, <2>5, SeqEqual
  <2> QED BY <2>6 DEF u
<1>4. (o \o << Head(w) >>) \o Tail(w) = o \o w
  BY <1>1, <1>2, <1>3, ConcatAssociative
<1>5. o \o << >> = o
  BY ConcatEmptySeq
<1> QED BY <1>1, <1>4, <1>5 DEF PipeOf

LEMMA PipePasses ==
  ASSUME NEW w \in Seq(Frame), NEW o \in Seq(Message), NEW r \in Message, NEW x, x \notin Message
  PROVE  PipeOf(w, x, Append(o, r)) = PipeOf(w, r, o)
<1>1. Append(o, r) = o \o << r >> /\ Append(o, r) \in Seq(Message)
  BY AppendIsConcat, AppendProperties
<1>2. Append(o, r) \o << >> = Append(o, r)
  BY <1>1, ConcatEmptySeq
<1> QED BY <1>1, <1>2 DEF PipeOf

LEMMA PipeType ==
  ASSUME NEW w \in Seq(Frame), NEW o \in Seq(Message), NEW r
  PROVE  /\ PipeOf(w, r, o) \in Seq(Message)
         /\ r \notin Message /\ o = << >> => PipeOf(w, r, o) = w
         /\ \E a \in Seq(Message) : PipeOf(w, r, o) = a \o w
         /\ w \in Seq(Message)
<1> DEFINE h == IF r \in Message THEN << r >> ELSE << >>
<1>1. w \in Seq(Message) /\ h \in Seq(Message)
  <2>1. Frame \subseteq Message
    BY DEF Frame
  <2>2. w \in Seq(Message)
    BY <2>1, SeqMonotonic
  <2> QED BY <2>2
<1>2. o \o h \in Seq(Message) /\ (o \o h) \o w \in Seq(Message)
  BY <1>1, ConcatProperties
<1>3. r \notin Message /\ o = << >> => (o \o h) \o w = w
  <2> SUFFICES ASSUME r \notin Message, o = << >> PROVE (o \o h) \o w = w
    OBVIOUS
  <2>1. o \o h = << >>
    BY ConcatEmptySeq
  <2> QED BY <1>1, <2>1, ConcatEmptySeq
<1> QED BY <1>1, <1>2, <1>3 DEF PipeOf

LEMMA PipeTaken ==
  ASSUME NEW w \in Seq(Frame), NEW o \in Seq(Message), NEW r, o # << >>
  PROVE  /\ PipeOf(w, r, o) # << >>
         /\ Head(PipeOf(w, r, o)) = Head(o)
         /\ Tail(PipeOf(w, r, o)) = PipeOf(w, r, Tail(o))
<1> DEFINE h == IF r \in Message THEN << r >> ELSE << >>
           z == h \o w
           s == o \o z
<1>1. w \in Seq(Message) /\ h \in Seq(Message)
  <2>1. Frame \subseteq Message
    BY DEF Frame
  <2>2. w \in Seq(Message)
    BY <2>1, SeqMonotonic
  <2> QED BY <2>2
<1>2. Tail(o) \in Seq(Message) /\ Len(o) \in Nat \ {0} /\ Len(Tail(o)) = Len(o) - 1
      /\ \A i \in 1 .. Len(Tail(o)) : Tail(o)[i] = o[i + 1]
  BY HeadTailProperties, EmptySeq
<1>3. PipeOf(w, r, o) = s /\ PipeOf(w, r, Tail(o)) = Tail(o) \o z /\ z \in Seq(Message)
  <2> HIDE DEF h
  <2>1. (o \o h) \o w = o \o (h \o w)
    <3>1. Joins(o, h, w)
      BY <1>1, ThreeQueues
    <3> QED BY <3>1 DEF Joins
  <2>2. Tail(o) \in Seq(Message)
    BY <1>2
  <2>3. (Tail(o) \o h) \o w = Tail(o) \o (h \o w)
    <3>1. Joins(Tail(o), h, w)
      BY <1>1, <2>2, ThreeQueues
    <3> QED BY <3>1 DEF Joins
  <2>4. h \o w \in Seq(Message)
    BY <1>1, ConcatProperties
  <2> QED BY <2>1, <2>3, <2>4 DEF PipeOf, h
<1> HIDE DEF z
<1>4. /\ s \in Seq(Message) /\ Len(s) = Len(o) + Len(z) /\ Len(z) \in Nat
      /\ \A i \in 1 .. Len(o) + Len(z) : s[i] = IF i <= Len(o) THEN o[i] ELSE z[i - Len(o)]
  BY <1>3, ConcatProperties, LenProperties
<1>5. /\ Tail(o) \o z \in Seq(Message) /\ Len(Tail(o) \o z) = Len(o) - 1 + Len(z)
      /\ \A i \in 1 .. Len(o) - 1 + Len(z) :
            (Tail(o) \o z)[i] = IF i <= Len(o) - 1 THEN Tail(o)[i] ELSE z[i - (Len(o) - 1)]
  BY <1>2, <1>3, ConcatProperties
<1> HIDE DEF s
<1>6. s # << >>
  <2>1. Len(<< >>) = 0
    BY EmptySeq
  <2> QED BY <1>2, <1>4, <2>1
<1>7. Head(s) = Head(o)
  <2>1. s[1] = o[1]
    BY <1>2, <1>4
  <2> QED BY <2>1
<1>8. Tail(s) = Tail(o) \o z
  <2> DEFINE t == Tail(s)
             u == Tail(o) \o z
  <2>1. t \in Seq(Message) /\ Len(t) = Len(s) - 1 /\ \A i \in 1 .. Len(t) : t[i] = s[i + 1]
    BY <1>4, <1>6, HeadTailProperties
  <2> HIDE DEF t, u
  <2>2. u \in Seq(Message) /\ Len(u) = Len(t)
    BY <1>2, <1>4, <1>5, <2>1 DEF u
  <2>3. ASSUME NEW i \in 1 .. Len(t) PROVE t[i] = u[i]
    <3>1. t[i] = s[i + 1] /\ i + 1 \in 1 .. Len(o) + Len(z) /\ i \in 1 .. Len(o) - 1 + Len(z)
      BY <1>2, <1>4, <2>1
    <3>2. CASE i + 1 <= Len(o)
      <4>1. i \in 1 .. Len(Tail(o)) /\ i <= Len(o) - 1
        BY <1>2, <3>2
      <4>2. s[i + 1] = o[i + 1] /\ u[i] = Tail(o)[i] /\ Tail(o)[i] = o[i + 1]
        BY <1>2, <1>4, <1>5, <3>1, <3>2, <4>1 DEF u
      <4> QED BY <3>1, <4>2
    <3>3. CASE i + 1 > Len(o)
      <4>1. i + 1 - Len(o) = i - (Len(o) - 1) /\ ~(i <= Len(o) - 1) /\ ~(i + 1 <= Len(o))
        BY <1>2, <3>3
      <4>2. s[i + 1] = z[i + 1 - Len(o)]
        BY <1>4, <3>1, <4>1
      <4>3. u[i] = z[i - (Len(o) - 1)]
        BY <1>5, <3>1, <4>1 DEF u
      <4> QED BY <3>1, <4>1, <4>2, <4>3
    <3> QED BY <1>2, <3>1, <3>2, <3>3
  <2>4. t = u
    BY <2>1, <2>2, <2>3, SeqEqual
  <2> QED BY <2>4 DEF t, u
<1> QED BY <1>3, <1>6, <1>7, <1>8

LEMMA PipeWritten ==
  ASSUME NEW w \in Seq(Frame), NEW o \in Seq(Message), NEW r, NEW m \in Frame
  PROVE  PipeOf(Append(w, m), r, o) = Append(PipeOf(w, r, o), m)
<1> DEFINE h == IF r \in Message THEN << r >> ELSE << >>
<1>1. w \in Seq(Message) /\ h \in Seq(Message) /\ m \in Message
  <2>1. Frame \subseteq Message
    BY DEF Frame
  <2>2. w \in Seq(Message)
    BY <2>1, SeqMonotonic
  <2> QED BY <2>1, <2>2
<1>2. o \o h \in Seq(Message) /\ (o \o h) \o w \in Seq(Message) /\ << m >> \in Seq(Message)
  BY <1>1, ConcatProperties
<1>3. Append(w, m) = w \o << m >> /\ Append((o \o h) \o w, m) = ((o \o h) \o w) \o << m >>
  BY <1>1, <1>2, AppendIsConcat
<1>4. ((o \o h) \o w) \o << m >> = (o \o h) \o (w \o << m >>)
  <2> DEFINE a == o \o h
             e == << m >>
  <2>1. a \in Seq(Message) /\ e \in Seq(Message)
    BY <1>2
  <2>2. w \in Seq(Message)
    BY <1>1
  <2> HIDE DEF a, e, h
  <2>3. Joins(a, w, e)
    BY <2>1, <2>2, ThreeQueues
  <2> QED BY <2>3 DEF Joins, a, e
<1> QED BY <1>3, <1>4 DEF PipeOf

LEMMA ConcatHas ==
  ASSUME NEW S, NEW a \in Seq(S), NEW b \in Seq(S), NEW x
  PROVE  Has(a \o b, x) <=> Has(a, x) \/ Has(b, x)
<1> DEFINE s == a \o b
<1>1. /\ s \in Seq(S) /\ Len(s) = Len(a) + Len(b) /\ Len(a) \in Nat /\ Len(b) \in Nat
      /\ \A i \in 1 .. Len(a) + Len(b) : s[i] = IF i <= Len(a) THEN a[i] ELSE b[i - Len(a)]
  BY ConcatProperties, LenProperties
<1> HIDE DEF s
<1>2. ASSUME Has(s, x) PROVE Has(a, x) \/ Has(b, x)
  <2>1. PICK i \in 1 .. Len(s) : s[i] = x
    BY <1>2 DEF Has
  <2>2. CASE i <= Len(a)
    <3>1. i \in 1 .. Len(a) /\ a[i] = x
      BY <1>1, <2>1, <2>2
    <3> QED BY <3>1 DEF Has
  <2>3. CASE i > Len(a)
    <3>1. i - Len(a) \in 1 .. Len(b) /\ b[i - Len(a)] = x
      BY <1>1, <2>1, <2>3
    <3> QED BY <3>1 DEF Has
  <2> QED BY <1>1, <2>2, <2>3
<1>3. ASSUME Has(a, x) PROVE Has(s, x)
  <2>1. PICK i \in 1 .. Len(a) : a[i] = x
    BY <1>3 DEF Has
  <2>2. i \in 1 .. Len(s) /\ s[i] = x
    BY <1>1, <2>1
  <2> QED BY <2>2 DEF Has
<1>4. ASSUME Has(b, x) PROVE Has(s, x)
  <2>1. PICK i \in 1 .. Len(b) : b[i] = x
    BY <1>4 DEF Has
  <2>2. i + Len(a) \in 1 .. Len(s) /\ i + Len(a) - Len(a) = i /\ ~(i + Len(a) <= Len(a))
    BY <1>1, <2>1
  <2>3. s[i + Len(a)] = x
    BY <1>1, <2>1, <2>2
  <2> QED BY <2>2, <2>3 DEF Has
<1> QED BY <1>2, <1>3, <1>4 DEF s

LEMMA PipeHas ==
  ASSUME NEW w \in Seq(Frame), NEW o \in Seq(Message), NEW r, NEW x \in Message
  PROVE  Has(PipeOf(w, r, o), x) <=> Has(o, x) \/ r = x \/ Has(w, x)
<1> DEFINE h == IF r \in Message THEN << r >> ELSE << >>
<1>1. w \in Seq(Message) /\ h \in Seq(Message)
  <2>1. Frame \subseteq Message
    BY DEF Frame
  <2>2. w \in Seq(Message)
    BY <2>1, SeqMonotonic
  <2> QED BY <2>2
<1>2. o \o h \in Seq(Message)
  BY <1>1, ConcatProperties
<1>3. Has(h, x) <=> r = x
  <2>1. CASE r \in Message
    <3>1. Len(<< r >>) = 1 /\ << r >>[1] = r /\ h = << r >>
      BY <2>1
    <3> QED BY <3>1 DEF Has
  <2>2. CASE r \notin Message
    <3>1. Len(<< >>) = 0 /\ h = << >> /\ r # x
      BY <2>2, EmptySeq
    <3> QED BY <3>1 DEF Has
  <2> QED BY <2>1, <2>2
<1> HIDE DEF h
<1> DEFINE q == o \o h
<1>4. Has(q, x) <=> Has(o, x) \/ Has(h, x)
  BY <1>1, ConcatHas
<1>7. q \in Seq(Message)
  BY <1>2
<1> HIDE DEF q
<1>5. Has(q \o w, x) <=> Has(q, x) \/ Has(w, x)
  BY <1>1, <1>7, ConcatHas
<1>6. Has(q \o w, x) <=> Has(o, x) \/ r = x \/ Has(w, x)
  BY <1>3, <1>4, <1>5
<1> QED BY <1>6 DEF PipeOf, h, q

(* What the steps do to a sound pipe.                                       *)
LEMMA AheadFacts ==
  /\ \A p \in 0 .. 3 : "Version" \notin AheadOf(p) /\ AheadOf(p) \subseteq {Stream[k] : k \in 1 .. 3}
  /\ \A p, q \in 0 .. 3 : p <= q => AheadOf(q) \subseteq AheadOf(p)
  /\ \A p \in 0 .. 2 : Stream[p + 1] \notin AheadOf(p + 1)
  /\ \A m \in Signals \cup {"Torn"}, p \in 0 .. 3 : m \notin AheadOf(p)
<1>1. /\ Stream[1] = "Metadata" /\ Stream[2] = "Complete" /\ Stream[3] = "SessionEnd"
      /\ \A m \in Signals \cup {"Torn"} : m \notin {"Metadata", "Complete", "SessionEnd"}
      /\ "Version" \in Signals
  BY DEF Stream, Signals
<1>2. \A p \in 0 .. 3 : AheadOf(p) \subseteq {Stream[k] : k \in 1 .. 3}
  BY DEF AheadOf
<1>3. \A k \in 1 .. 3 : Stream[k] \in {"Metadata", "Complete", "SessionEnd"}
  BY <1>1
<1>4. \A p, q \in 0 .. 3 : p <= q => AheadOf(q) \subseteq AheadOf(p)
  BY DEF AheadOf
<1>5. ASSUME NEW p \in 0 .. 2 PROVE Stream[p + 1] \notin AheadOf(p + 1)
  <2>1. \A k \in p + 2 .. 3 : Stream[k] # Stream[p + 1]
    BY <1>1
  <2> QED BY <2>1 DEF AheadOf
<1> QED BY <1>1, <1>2, <1>3, <1>4, <1>5

LEMMA SoundWritten ==
  ASSUME NEW s \in Seq(Message), NEW p \in 0 .. 3, NEW q \in 0 .. 3, NEW m \in Message,
         NEW n, NEW any, NEW late, NEW late1,
         Sound(s, p, n, any, late), p <= q, m \notin AheadOf(q), m # "Version", late1 => late
  PROVE  Sound(Append(s, m), q, n, any, late1)
<1> DEFINE t == Append(s, m)
<1>1. /\ Len(s) \in Nat /\ t \in Seq(Message) /\ Len(t) = Len(s) + 1 /\ t[Len(s) + 1] = m
      /\ \A i \in 1 .. Len(s) : t[i] = s[i]
  BY AppendProperties, LenProperties
<1>2. \A x : Has(t, x) <=> Has(s, x) \/ x = m
  BY Appended
<1> HIDE DEF t
<1>3. Behind(t, q)
  <2> SUFFICES ASSUME NEW i \in 1 .. Len(t), t[i] \in AheadOf(q)
               PROVE  \E j \in i + 1 .. Len(t) : t[j] = "Version"
    BY DEF Behind
  <2>1. i \in 1 .. Len(s) /\ s[i] \in AheadOf(p)
    BY <1>1, AheadFacts
  <2>2. PICK j \in i + 1 .. Len(s) : s[j] = "Version"
    BY <2>1 DEF Sound, Behind
  <2> QED BY <1>1, <2>1, <2>2
<1>4. AtMostOne(s) => AtMostOne(t)
  BY <1>1 DEF AtMostOne
<1> QED BY <1>2, <1>3, <1>4 DEF Sound, t

LEMMA SoundRestarted ==
  ASSUME NEW s \in Seq(Message), NEW p \in 0 .. 3, NEW n \in Nat,
         NEW any, NEW late, NEW late1,
         Sound(s, p, n, any, late), n = 0 => ~any, n + 1 <= 1 \/ ~any
  PROVE  Sound(Append(s, "Version"), 0, n + 1, any, late1)
<1> DEFINE t == Append(s, "Version")
<1>0. "Version" \in Message
  BY DEF Message, Signals
<1>1. /\ Len(s) \in Nat /\ t \in Seq(Message) /\ Len(t) = Len(s) + 1 /\ t[Len(s) + 1] = "Version"
      /\ \A i \in 1 .. Len(s) : t[i] = s[i]
  BY <1>0, AppendProperties, LenProperties
<1>2. Has(t, "Version")
  BY <1>0, Appended
<1> HIDE DEF t
<1>3. Behind(t, 0)
  <2> SUFFICES ASSUME NEW i \in 1 .. Len(t), t[i] \in AheadOf(0)
               PROVE  \E j \in i + 1 .. Len(t) : t[j] = "Version"
    BY DEF Behind
  <2>1. i # Len(s) + 1
    BY <1>1, AheadFacts
  <2>2. Len(s) + 1 \in i + 1 .. Len(t)
    BY <1>1, <2>1
  <2> QED BY <1>1, <2>2
<1>4. n + 1 <= 1 => AtMostOne(t)
  <2> SUFFICES ASSUME n = 0 PROVE AtMostOne(t)
    OBVIOUS
  <2>1. ~Has(s, "Version")
    BY DEF Sound
  <2>2. \A i \in 1 .. Len(t) : t[i] = "Version" => i = Len(s) + 1
    BY <1>1, <2>1 DEF Has
  <2> QED BY <2>2 DEF AtMostOne
<1>5. ~(n + 1 = 0) /\ (n + 1 <= 1 => ~any)
  OBVIOUS
<1> QED BY <1>2, <1>3, <1>4, <1>5 DEF Sound, t

LEMMA SoundTaken ==
  ASSUME NEW s \in Seq(Message), s # << >>, NEW p \in 0 .. 3, NEW n \in Nat,
         NEW any, NEW late, NEW any1, NEW late1,
         Sound(s, p, n, any, late),
         late1 => (late /\ Head(s) # "Version") \/ Head(s) \in AheadOf(p),
         n <= 1 /\ any1 => any \/ Head(s) = "Version"
  PROVE  Sound(Tail(s), p, n, any1, late1)
<1> DEFINE t == Tail(s)
<1>1. /\ Len(s) \in Nat /\ Len(s) > 0 /\ t \in Seq(Message) /\ Len(t) = Len(s) - 1
      /\ Head(s) = s[1] /\ \A i \in 1 .. Len(t) : t[i] = s[i + 1]
  <2>1. Len(s) \in Nat \ {0}
    BY EmptySeq
  <2> QED BY <2>1, HeadTailProperties
<1>2. /\ \A x : Has(t, x) => Has(s, x)
      /\ \A x : Has(s, x) => x = Head(s) \/ Has(t, x)
  BY Taken
<1> HIDE DEF t
<1>a. \A j \in 2 .. Len(s) : j - 1 \in 1 .. Len(t) /\ t[j - 1] = s[j]
  BY <1>1
<1>3. Behind(t, p)
  <2> SUFFICES ASSUME NEW i \in 1 .. Len(t), t[i] \in AheadOf(p)
               PROVE  \E j \in i + 1 .. Len(t) : t[j] = "Version"
    BY DEF Behind
  <2>1. i + 1 \in 1 .. Len(s) /\ s[i + 1] \in AheadOf(p)
    BY <1>1
  <2>2. PICK j \in i + 1 + 1 .. Len(s) : s[j] = "Version"
    BY <2>1 DEF Sound, Behind
  <2>3. j \in 2 .. Len(s) /\ j - 1 \in i + 1 .. Len(t)
    BY <1>1, <2>1, <2>2
  <2> QED BY <1>a, <2>2, <2>3
<1>4. AtMostOne(s) => AtMostOne(t)
  <2> SUFFICES ASSUME AtMostOne(s), NEW i \in 1 .. Len(t), NEW j \in 1 .. Len(t),
                      t[i] = "Version", t[j] = "Version"
               PROVE  i = j
    BY DEF AtMostOne
  <2>1. i + 1 \in 1 .. Len(s) /\ j + 1 \in 1 .. Len(s) /\ s[i + 1] = "Version" /\ s[j + 1] = "Version"
    BY <1>1
  <2>2. i + 1 = j + 1
    BY <2>1 DEF AtMostOne
  <2> QED BY <2>2
<1>5. AtMostOne(s) /\ Head(s) = "Version" => ~Has(t, "Version")
  <2> SUFFICES ASSUME AtMostOne(s), s[1] = "Version", NEW i \in 1 .. Len(t), t[i] = "Version"
               PROVE  FALSE
    BY <1>1 DEF Has
  <2>1. i + 1 \in 1 .. Len(s) /\ 1 \in 1 .. Len(s) /\ s[i + 1] = "Version"
    BY <1>1
  <2>2. i + 1 = 1
    BY <2>1 DEF AtMostOne
  <2> QED BY <2>2
<1>6. Head(s) \in AheadOf(p) => Has(t, "Version")
  <2> SUFFICES ASSUME s[1] \in AheadOf(p) PROVE Has(t, "Version")
    BY <1>1
  <2>1. PICK j \in 1 + 1 .. Len(s) : s[j] = "Version"
    BY <1>1 DEF Sound, Behind
  <2>2. j - 1 \in 1 .. Len(t) /\ t[j - 1] = "Version"
    BY <1>a, <2>1
  <2> QED BY <2>2 DEF Has
<1>7. late1 => Has(t, "Version")
  BY <1>2, <1>6 DEF Sound
<1>8. n <= 1 /\ any1 => ~Has(t, "Version")
  BY <1>2, <1>5 DEF Sound
<1>9. n = 0 => ~Has(t, "Version")
  BY <1>2 DEF Sound
<1> QED BY <1>3, <1>4, <1>7, <1>8, <1>9 DEF Sound, t

(* What the receiver leaves behind in its reader goroutine is the front.    *)
LEMMA SoundRest ==
  ASSUME NEW a \in Seq(Message), NEW b \in Seq(Message), NEW p \in 0 .. 3, NEW n,
         NEW any, NEW late, Sound(a \o b, p, n, any, late)
  PROVE  Sound(b, p, n, any, FALSE)
<1> DEFINE s == a \o b
<1>1. /\ s \in Seq(Message) /\ Len(s) = Len(a) + Len(b) /\ Len(a) \in Nat /\ Len(b) \in Nat
      /\ \A i \in 1 .. Len(a) + Len(b) : s[i] = IF i <= Len(a) THEN a[i] ELSE b[i - Len(a)]
  BY ConcatProperties, LenProperties
<1>2. Has(b, "Version") => Has(s, "Version")
  BY ConcatHas
<1>3. Sound(s, p, n, any, late)
  OBVIOUS
<1> HIDE DEF s
<1>4. \A i \in 1 .. Len(b) : i + Len(a) \in 1 .. Len(s) /\ s[i + Len(a)] = b[i]
  <2> TAKE i \in 1 .. Len(b)
  <2>1. /\ i + Len(a) \in 1 .. Len(a) + Len(b) /\ ~(i + Len(a) <= Len(a))
        /\ i + Len(a) - Len(a) = i
    BY <1>1
  <2>2. s[i + Len(a)] = b[i + Len(a) - Len(a)]
    BY <1>1, <2>1
  <2> QED BY <1>1, <2>1, <2>2
<1>5. Behind(b, p)
  <2> SUFFICES ASSUME NEW i \in 1 .. Len(b), b[i] \in AheadOf(p)
               PROVE  \E j \in i + 1 .. Len(b) : b[j] = "Version"
    BY DEF Behind
  <2>1. i + Len(a) \in 1 .. Len(s) /\ s[i + Len(a)] \in AheadOf(p)
    BY <1>4
  <2>2. PICK j \in i + Len(a) + 1 .. Len(s) : s[j] = "Version"
    BY <1>3, <2>1 DEF Sound, Behind
  <2>3. j - Len(a) \in i + 1 .. Len(b) /\ j - Len(a) \in 1 .. Len(b) /\ j - Len(a) + Len(a) = j
    BY <1>1, <2>2
  <2>4. b[j - Len(a)] = s[j]
    BY <1>4, <2>3
  <2> QED BY <2>2, <2>3, <2>4
<1>6. AtMostOne(s) => AtMostOne(b)
  <2> SUFFICES ASSUME AtMostOne(s), NEW i \in 1 .. Len(b), NEW j \in 1 .. Len(b),
                      b[i] = "Version", b[j] = "Version"
               PROVE  i = j
    BY DEF AtMostOne
  <2>1. /\ i + Len(a) \in 1 .. Len(s) /\ j + Len(a) \in 1 .. Len(s)
        /\ s[i + Len(a)] = "Version" /\ s[j + Len(a)] = "Version"
    BY <1>4
  <2>2. i + Len(a) = j + Len(a)
    BY <2>1 DEF AtMostOne
  <2> QED BY <1>1, <2>2
<1> QED BY <1>2, <1>3, <1>5, <1>6 DEF Sound

(* A message that a stopped reader takes out of the middle: no Version is   *)
(* left by then, so nothing before a reload is either.                      *)
LEMMA SoundStolen ==
  ASSUME NEW s \in Seq(Message), NEW t \in Seq(Message), NEW p \in 0 .. 3, NEW n,
         NEW any, NEW late, Sound(s, p, n, any, late), n <= 1, any,
         \A x \in Message : Has(t, x) => Has(s, x)
  PROVE  Sound(t, p, n, any, late)
<1>1. ~Has(s, "Version") /\ ~Has(t, "Version") /\ ~late
  BY DEF Sound, Message, Signals
<1>2. \A x \in AheadOf(p) : ~Has(s, x)
  BY <1>1 DEF Sound, Behind, Has
<1>3. Behind(t, p)
  <2> SUFFICES ASSUME NEW i \in 1 .. Len(t), t[i] \in AheadOf(p)
               PROVE  FALSE
    BY DEF Behind
  <2>1. Has(t, t[i]) /\ t[i] \in Message
    BY ElementOfSeq DEF Has
  <2> QED BY <1>2, <2>1
<1>4. AtMostOne(t)
  BY <1>1 DEF AtMostOne, Has
<1> QED BY <1>1, <1>3, <1>4 DEF Sound

LEMMA SoundSame ==
  ASSUME NEW s \in Seq(Message), NEW p \in 0 .. 3, NEW q \in 0 .. 3, NEW n, NEW any,
         NEW late, NEW late1, Sound(s, p, n, any, late), p <= q, late1 => late
  PROVE  Sound(s, q, n, any, late1)
<1>1. AheadOf(q) \subseteq AheadOf(p)
  BY AheadFacts
<1>2. Behind(s, q)
  BY <1>1 DEF Sound, Behind
<1> QED BY <1>2 DEF Sound

-----------------------------------------------------------------------------
(* The reader goroutines of sessions before the present one are stopped,    *)
(* the present one's is not: and what is under way is sound, unless a       *)
(* stopped reader may take a Version out of the WebSocket.                  *)
SomeStopped == \E g \in Gen : stopped[g]

Live == pc["R"] \in {"first", "trying", "tail", "ws"}

Late == pc["R"] \in {"tail", "ws"} /\ got > sPos

StopInv ==
    /\ \A g \in Gen : (g > gen => ~stopped[g]) /\ (g < gen => stopped[g])
    /\ pc["R"] \in {"first", "ws"} => \A g \in Gen : g = gen => stopped[g]
    /\ Listening => ~stopped[gen]
    /\ Live /\ restarts = 0 => ~SomeStopped

GotInv == pc["R"] \in {"first", "trying"} => got = 0

Known == ~wsGone /\ Live /\ (restarts <= 1 \/ ~SomeStopped)

PipeInv == Known => Sound(Pipe, sPos, restarts, SomeStopped, Late)

LInv == StopInv /\ GotInv /\ PipeInv

LEMMA PipeTypes ==
  ASSUME TInv
  PROVE  /\ ws["R"] \in Seq(Frame) /\ Passed \in Seq(Message) /\ Pipe \in Seq(Message)
         /\ sPos \in 0 .. 3 /\ restarts \in Nat /\ wsGone \in BOOLEAN
         /\ ~Listening => Pipe = ws["R"] /\ Held \notin Message /\ Passed = << >>
         /\ Listening => gen \in Gen /\ Held = reader[gen] /\ Passed = out[gen]
<1>1. ws["R"] \in Seq(Frame) /\ (Listening => gen \in Gen)
  BY OffersInWs, TInvTypes DEF TInv, Side, Listening
<1>2. Passed \in Seq(Message)
  BY <1>1, EmptySeq DEF TInv, ReaderType, Passed
<1>3. ~Listening => Held \notin Message /\ Passed = << >>
  BY NotMessages DEF Held, Passed, Idle
<1>4. Pipe \in Seq(Message) /\ (Held \notin Message /\ Passed = << >> => Pipe = ws["R"])
  BY <1>1, <1>2, PipeType DEF Pipe
<1> QED BY <1>1, <1>2, <1>3, <1>4 DEF TInv, StreamType, WsType, Held, Passed

LEMMA StopSame ==
  ASSUME StopInv, UNCHANGED <<gen, stopped, restarts>>,
         \/ pc'["R"] = pc["R"]
         \/ pc["R"] = "trying" /\ pc'["R"] = "tail"
         \/ pc["R"] = "first" /\ pc'["R"] = "ws"
         \/ pc'["R"] \in {"p2p", "ok", "dead"}
  PROVE  StopInv' /\ (SomeStopped' <=> SomeStopped)
<1>1. SomeStopped' <=> SomeStopped
  BY DEF SomeStopped
<1>2. Live' => Live
  BY DEF Live
<1>3. Listening' => Listening
  BY DEF Listening
<1>4. pc'["R"] \in {"first", "ws"} => pc["R"] \in {"first", "ws"}
  OBVIOUS
<1> QED BY <1>1, <1>2, <1>3, <1>4 DEF StopInv

LEMMA StopStops ==
  ASSUME ReaderType, StopInv, Stop(gen), UNCHANGED <<gen, restarts>>,
         pc'["R"] \notin {"trying", "tail"}, Live' => restarts # 0
  PROVE  StopInv' /\ (SomeStopped => SomeStopped')
<1>1. \A g \in Gen : stopped'[g] <=> g = gen \/ stopped[g]
  BY DEF Stop
<1>2. SomeStopped => SomeStopped'
  BY <1>1 DEF SomeStopped
<1>3. gen \in Nat /\ \A g \in Gen : g \in Nat
  BY BoundAssumption DEF ReaderType, Gen
<1>4. ~Listening'
  BY DEF Listening
<1>5. \A g \in Gen : (g > gen => ~stopped'[g]) /\ (g < gen => stopped'[g]) /\ (g = gen => stopped'[g])
  BY <1>1, <1>3 DEF StopInv
<1> QED BY <1>2, <1>4, <1>5 DEF StopInv

(* The receiver does nothing; something may be written to it.               *)
LEMMA WriteLInv ==
  ASSUME TInv, LInv, UNCHANGED <<restarts, recvVars>>, pc'["R"] = pc["R"],
         sPos' \in 0 .. 3, sPos <= sPos', wsGone' # wsGone => wsGone',
         NEW m \in Frame, m # "Version", m \notin AheadOf(sPos'),
         wsGone' \/ ws'["R"] = ws["R"] \/ ws'["R"] = Append(ws["R"], m)
  PROVE  LInv'
<1>1. UNCHANGED <<Held, Passed>> /\ (Live' <=> Live)
  BY DEF Held, Passed, Listening, recvVars, Live
<1>2. StopInv' /\ (SomeStopped' <=> SomeStopped)
  BY StopSame DEF LInv, recvVars
<1>3. GotInv'
  BY DEF LInv, GotInv, recvVars
<1>4. /\ ws["R"] \in Seq(Frame) /\ Passed \in Seq(Message) /\ Pipe \in Seq(Message)
      /\ sPos \in 0 .. 3 /\ restarts \in Nat /\ wsGone \in BOOLEAN /\ m \in Message
  BY PipeTypes DEF Frame
<1>5. ASSUME Known' PROVE Sound(Pipe', sPos', restarts', SomeStopped', Late')
  <2>1. ~wsGone' /\ Known
    BY <1>1, <1>2, <1>4, <1>5 DEF Known
  <2>2. Sound(Pipe, sPos, restarts, SomeStopped, Late)
    BY <2>1 DEF LInv, PipeInv
  <2>3. Late' => Late
    BY <1>4 DEF Late, recvVars, TInv, ReaderType
  <2>4. Pipe' = Pipe \/ Pipe' = Append(Pipe, m)
    <3>1. Pipe' = PipeOf(ws'["R"], Held, Passed)
      BY <1>1 DEF Pipe
    <3>2. PipeOf(Append(ws["R"], m), Held, Passed) = Append(PipeOf(ws["R"], Held, Passed), m)
      BY <1>4, PipeWritten
    <3> QED BY <2>1, <3>1, <3>2 DEF Pipe
  <2>5. Sound(Pipe, sPos', restarts, SomeStopped, Late')
    BY <1>4, <2>2, <2>3, SoundSame
  <2>6. Sound(Append(Pipe, m), sPos', restarts, SomeStopped, Late')
    BY <1>4, <2>2, <2>3, SoundWritten
  <2>7. Sound(Pipe', sPos', restarts, SomeStopped, Late')
    BY <2>4, <2>5, <2>6
  <2> QED BY <1>2, <2>7 DEF Sound
<1> QED BY <1>2, <1>3, <1>5 DEF LInv, PipeInv

LEMMA SenderLInv ==
  ASSUME TInv, LInv, SenderStep \/ SenderExits \/ AwaitReady \/ Restart
  PROVE  LInv'
<1>t. PcType /\ WsType /\ StreamType /\ "S" \in Side /\ Other("S") = "R" /\ DOMAIN ws = Side
  BY DEF TInv, Side, Other, WsType
<1>m. {"Offer", "P2PReady", "P2PFail", "Torn"} \subseteq Frame \cap (Signals \cup {"Torn"})
  BY DEF Frame, Message, Signals
<1>p. /\ ws["R"] \in Seq(Frame) /\ Passed \in Seq(Message) /\ Pipe \in Seq(Message)
      /\ sPos \in 0 .. 3 /\ restarts \in Nat /\ wsGone \in BOOLEAN
  BY PipeTypes
<1>r. UNCHANGED recvVars
  BY DEF SenderStep, SendOffer, SenderReads, AnswerFails, SenderOpenCh, SenderGivesUp, SendP2PReady,
     SendP2PFail, StreamWS, StreamP2P, SenderExits, AwaitReady, Restart, senderVars
<1>c. pc'["R"] = pc["R"]
  <2>1. pc' = pc \/ \E l \in {"offer", "trying", "joining", "failing", "ws", "p2p", "await", "dead"} : Goto("S", l)
    BY DEF SenderStep, SendOffer, SenderReads, AnswerFails, SenderOpenCh, SenderGivesUp, SendP2PReady,
       SendP2PFail, StreamWS, StreamP2P, SenderExits, AwaitReady, Restart
  <2> QED BY <1>t, <2>1 DEF PcType, Goto, Side
<1>1. CASE Restart
  <2>1. /\ restarts' = restarts + 1 /\ sPos' = 0 /\ ~wsGone /\ wsGone' = wsGone
        /\ ws' = [Written("S", "Version") EXCEPT !["S"] = << >>]
    BY <1>1 DEF Restart
  <2>2. "Version" \in Frame
    BY DEF Frame, Message, Signals
  <2>3. ws'["R"] = Append(ws["R"], "Version")
    <3>1. Written("S", "Version") \in [Side -> Seq(Frame)] /\ Written("S", "Version")["R"] = Append(ws["R"], "Version")
      BY <1>t, <2>1, <2>2, WrittenFacts
    <3> QED BY <2>1, <3>1 DEF Side
  <2>4. UNCHANGED <<Held, Passed>> /\ (Live' <=> Live) /\ (SomeStopped' <=> SomeStopped)
    BY <1>r, <1>c DEF Held, Passed, Listening, recvVars, Live, SomeStopped
  <2>5. Pipe' = Append(Pipe, "Version")
    BY <1>p, <2>2, <2>3, <2>4, PipeWritten DEF Pipe
  <2>6. restarts' # 0 /\ (restarts' <= 1 => restarts = 0)
    BY <1>p, <2>1
  <2>7. StopInv' /\ GotInv'
    BY <1>r, <1>c, <2>6 DEF LInv, StopInv, GotInv, recvVars, Listening
  <2>8. ASSUME Known' PROVE Sound(Pipe', sPos', restarts', SomeStopped', Late')
    <3>1. Known /\ (restarts = 0 => ~SomeStopped) /\ (restarts + 1 <= 1 \/ ~SomeStopped)
      BY <1>p, <2>1, <2>4, <2>6, <2>8 DEF Known, LInv, StopInv
    <3>2. Sound(Pipe, sPos, restarts, SomeStopped, Late)
      BY <3>1 DEF LInv, PipeInv
    <3>3. Sound(Append(Pipe, "Version"), 0, restarts + 1, SomeStopped, Late')
      BY <1>p, <3>1, <3>2, SoundRestarted
    <3> QED BY <2>1, <2>4, <2>5, <3>3 DEF Sound
  <2> QED BY <2>7, <2>8 DEF LInv, PipeInv
<1>2. CASE SenderStep \/ SenderExits \/ AwaitReady
  <2>1. restarts' = restarts /\ (wsGone' # wsGone => wsGone')
    BY <1>2 DEF SenderStep, SendOffer, SenderReads, AnswerFails, SenderOpenCh, SenderGivesUp, SendP2PReady,
       SendP2PFail, StreamWS, StreamP2P, SenderExits, AwaitReady, senderVars, wsVars, Forget
  <2>2. CASE StreamWS /\ ws' = Written("S", Stream[sPos + 1]) /\ sPos' = sPos + 1
    <3>1. sPos \in 0 .. 2
      BY <1>p, <2>2 DEF StreamWS
    <3>2. Stream[sPos + 1] \in Frame /\ Stream[sPos + 1] # "Version" /\ Stream[sPos + 1] \notin AheadOf(sPos')
      <4>1. Stream[sPos + 1] \in {Stream[i] : i \in 1 .. 3}
        BY <3>1
      <4>2. \A x \in {Stream[i] : i \in 1 .. 3} : x \in Frame /\ x # "Version"
        BY DEF Frame, Message, Stream
      <4> QED BY <2>2, <3>1, <4>1, <4>2, AheadFacts
    <3>3. ws'["R"] = ws["R"] \/ ws'["R"] = Append(ws["R"], Stream[sPos + 1])
      BY <1>t, <2>2, <3>2, WrittenFacts
    <3>4. sPos' \in 0 .. 3 /\ sPos <= sPos'
      BY <2>2, <3>1
    <3> QED BY <1>r, <1>c, <2>1, <3>2, <3>3, <3>4, WriteLInv
  <2>3. CASE StreamP2P /\ sPos' = sPos + 1 /\ ws' = ws
    <3>1. sPos' \in 0 .. 3 /\ sPos <= sPos'
      BY <1>p, <2>3 DEF StreamP2P
    <3>2. "Offer" \in Frame /\ "Offer" # "Version" /\ "Offer" \notin AheadOf(sPos')
      BY <1>m, <3>1, AheadFacts
    <3> QED BY <1>r, <1>c, <2>1, <2>3, <3>1, <3>2, WriteLInv
  <2>4. ASSUME sPos' \in {sPos, sPos + 1} \cap (0 .. 3),
               NEW x \in {"Offer", "P2PReady", "P2PFail", "Torn"},
               ws'["R"] = ws["R"] \/ ws' = Written("S", x)
        PROVE  LInv'
    <3>1. x \in Frame /\ x # "Version" /\ x \notin AheadOf(sPos')
      BY <1>m, <1>p, <2>4, AheadFacts
    <3>2. ws'["R"] = ws["R"] \/ ws'["R"] = Append(ws["R"], x)
      BY <1>t, <2>4, <3>1, WrittenFacts
    <3>3. sPos' \in 0 .. 3 /\ sPos <= sPos'
      BY <1>p, <2>4
    <3> QED BY <1>r, <1>c, <2>1, <3>1, <3>2, <3>3, WriteLInv
  <2>5. \/ StreamWS /\ ws' = Written("S", Stream[sPos + 1]) /\ sPos' = sPos + 1
        \/ StreamP2P /\ sPos' = sPos + 1 /\ ws' = ws
        \/ StreamWS /\ ws' = Written("S", "Torn") /\ sPos' = sPos + 1
        \/ /\ sPos' = sPos
           /\ \/ ws' = ws \/ ws' = [ws EXCEPT !["S"] = Tail(@)] \/ Forget("S")
              \/ \E x \in {"Offer", "P2PReady", "P2PFail", "Torn"} : ws' = Written("S", x)
    BY <1>2, SentIs DEF SenderStep, SendOffer, SenderReads, AnswerFails, SenderOpenCh, SenderGivesUp, SendP2PReady,
       SendP2PFail, StreamWS, StreamP2P, SenderExits, AwaitReady, wsVars, senderVars
  <2>6. ws' = ws \/ ws' = [ws EXCEPT !["S"] = Tail(@)] \/ Forget("S") => ws'["R"] = ws["R"]
    BY <1>t DEF Forget, Side
  <2>7. CASE StreamWS /\ ws' = Written("S", "Torn") /\ sPos' = sPos + 1
    <3>1. sPos' \in {sPos, sPos + 1} \cap (0 .. 3)
      <4>1. sPos' = sPos + 1 /\ sPos + 1 \in 0 .. 3
        <5>1. sPos < 3
          BY <2>7 DEF StreamWS
        <5>2. sPos \in 0 .. 3
          BY <1>p
        <5> QED BY <2>7, <5>1, <5>2
      <4> QED BY <4>1
    <3> QED BY <2>4, <2>7, <3>1
  <2>8. CASE /\ sPos' = sPos
             /\ \/ ws' = ws \/ ws' = [ws EXCEPT !["S"] = Tail(@)] \/ Forget("S")
                \/ \E x \in {"Offer", "P2PReady", "P2PFail", "Torn"} : ws' = Written("S", x)
    <3>1. sPos' \in {sPos, sPos + 1} \cap (0 .. 3)
      BY <1>p, <2>8
    <3>2. CASE ws'["R"] = ws["R"]
      <4>1. PICK x \in {"Offer", "P2PReady", "P2PFail", "Torn"} : TRUE
        OBVIOUS
      <4> QED BY <2>4, <3>1, <3>2
    <3>3. CASE \E x \in {"Offer", "P2PReady", "P2PFail", "Torn"} : ws' = Written("S", x)
      BY <2>4, <3>1, <3>3
    <3> QED BY <2>6, <2>8, <3>2, <3>3
  <2> QED BY <2>2, <2>3, <2>5, <2>7, <2>8
<1> QED BY <1>1, <1>2

LEMMA OutsideLInv ==
  ASSUME TInv, LInv,
         \/ LoseWS \/ \E x \in Side : TrickleStep(x) \/ Opens(x) \/ PeerFails(x) \/ TimeOut(x)
         \/ ReceiverExits
  PROVE  LInv'
<1>t. PcType /\ WsType /\ "Cand" \in Frame /\ "Cand" # "Version" /\ "Cand" \notin AheadOf(sPos)
  <2>1. "Cand" \in Signals /\ sPos \in 0 .. 3
    BY PipeTypes DEF Signals
  <2> QED BY <2>1, AheadFacts DEF TInv, Frame, Message, Signals
<1>1. UNCHANGED <<pc, sPos, restarts, recvVars>> /\ sPos \in 0 .. 3 /\ sPos <= sPos
  <2>1. sPos \in 0 .. 3
    BY PipeTypes
  <2> QED BY <2>1 DEF LoseWS, TrickleStep, TrickleTake, TrickleWrite, TrickleStop, Opens, PeerFails, TimeOut, ReceiverExits, senderVars
<1>2. /\ wsGone' # wsGone => wsGone'
      /\ wsGone' \/ ws' = ws \/ \E x \in Side : ws' = Written(x, "Cand")
  BY DEF LoseWS, TrickleStep, TrickleTake, TrickleWrite, TrickleStop, Opens, PeerFails, TimeOut, ReceiverExits, wsVars
<1>3. ASSUME NEW x \in Side, ws' = Written(x, "Cand")
      PROVE  ws'["R"] = ws["R"] \/ ws'["R"] = Append(ws["R"], "Cand")
  <2>1. CASE x = "S"
    BY <1>t, <1>3, <2>1, WrittenFacts DEF Other, Side
  <2>2. CASE x = "R"
    BY <1>t, <1>3, <2>2, WrittenFacts DEF Other, Side
  <2> QED BY <2>1, <2>2 DEF Side
<1>4. wsGone' \/ ws'["R"] = ws["R"] \/ ws'["R"] = Append(ws["R"], "Cand")
  BY <1>2, <1>3
<1>5. sPos' \in 0 .. 3 /\ sPos <= sPos' /\ pc'["R"] = pc["R"] /\ "Cand" \notin AheadOf(sPos')
  BY <1>t, <1>1
<1> QED BY <1>t, <1>1, <1>2, <1>4, <1>5, WriteLInv

LEMMA ReaderLInv ==
  ASSUME TInv, LInv, NEW g \in Gen, ReaderStep(g)
  PROVE  LInv'
<1>t. WsType /\ ReaderType
  BY DEF TInv
<1>p. /\ ws["R"] \in Seq(Frame) /\ Passed \in Seq(Message) /\ Pipe \in Seq(Message)
      /\ sPos \in 0 .. 3 /\ restarts \in Nat
      /\ Listening => gen \in Gen /\ Held = reader[gen] /\ Passed = out[gen]
  BY PipeTypes
<1>u. UNCHANGED <<pc, wsGone, sPos, restarts, gen, stopped, got>>
  BY DEF ReaderStep, ReaderReads, ReaderPasses, wsVars, senderVars
<1>s. StopInv' /\ (SomeStopped' <=> SomeStopped) /\ GotInv'
  BY <1>u, StopSame DEF LInv, GotInv
<1>l. (Known' <=> Known) /\ (Late' <=> Late) /\ (Listening' <=> Listening)
  BY <1>u, <1>s DEF Known, Live, Late, Listening
<1>e. (Pipe' = Pipe) => LInv'
  <2> SUFFICES ASSUME Pipe' = Pipe, Known' PROVE Sound(Pipe', sPos', restarts', SomeStopped', Late')
    BY <1>s DEF LInv, PipeInv
  <2>1. Sound(Pipe, sPos, restarts, SomeStopped, Late)
    BY <1>l DEF LInv, PipeInv
  <2> QED BY <1>u, <1>s, <1>l, <2>1 DEF Sound
<1>k. ~Known => LInv'
  BY <1>s, <1>l DEF LInv, PipeInv
<1>1. CASE ReaderReads(g) /\ Known
  <2>1. PICK m \in Message : Take(m) /\ reader' = [reader EXCEPT ![g] = m]
    BY <1>1 DEF ReaderReads
  <2>2. reader[g] = "reading" /\ UNCHANGED out /\ ~wsGone
    BY <1>1 DEF ReaderReads, Known
  <2>3. ws["R"] # << >> /\ m = Head(ws["R"]) /\ ws'["R"] = Tail(ws["R"])
    BY <1>t, <1>u, <2>1, <2>2, TakeFacts
  <2>4. Passed' = Passed
    BY <1>u, <1>l, <2>2 DEF Passed
  <2>5. CASE Listening /\ g = gen
    <3>1. Held = "reading" /\ Held' = m
      BY <1>t, <1>u, <1>l, <2>1, <2>2, <2>5 DEF Held, ReaderType
    <3>2. "reading" \notin Message
      BY NotMessages DEF Idle
    <3>3. PipeOf(Tail(ws["R"]), Head(ws["R"]), Passed) = PipeOf(ws["R"], "reading", Passed)
      BY <1>p, <2>3, <3>2, PipeReads
    <3>4. Pipe' = Pipe
      BY <2>3, <2>4, <3>1, <3>3 DEF Pipe
    <3> QED BY <1>e, <3>4
  <2>6. CASE ~(Listening /\ g = gen)
    <3>1. Held' = Held
      BY <1>t, <1>p, <1>u, <1>l, <2>1, <2>6 DEF Held, ReaderType
    <3>2. Pipe' = PipeOf(Tail(ws["R"]), Held, Passed) /\ Pipe = PipeOf(ws["R"], Held, Passed)
      BY <2>3, <2>4, <3>1 DEF Pipe
    <3>3. Tail(ws["R"]) \in Seq(Frame) /\ \A x : Has(Tail(ws["R"]), x) => Has(ws["R"], x)
      BY <1>p, <2>3, Taken
    <3>4. \A x \in Message : Has(Pipe', x) => Has(Pipe, x)
      <4> TAKE x \in Message
      <4>1. Has(Pipe', x) <=> Has(Passed, x) \/ Held = x \/ Has(Tail(ws["R"]), x)
        BY <1>p, <3>2, <3>3, PipeHas
      <4>2. Has(Pipe, x) <=> Has(Passed, x) \/ Held = x \/ Has(ws["R"], x)
        BY <1>p, <3>2, PipeHas
      <4> QED BY <3>3, <4>1, <4>2
    <3>5. Pipe' \in Seq(Message)
      BY <1>p, <3>2, <3>3, PipeType
    <3>6. stopped[g]
      <4>1. g <= gen /\ g \in Nat /\ gen \in Nat
        BY <1>t, <2>2 DEF ReaderType, Gen
      <4>2. g < gen \/ (g = gen /\ pc["R"] \in {"first", "ws"})
        BY <1>1, <2>6, <4>1 DEF Known, Live, Listening
      <4> QED BY <4>2 DEF LInv, StopInv
    <3>7. SomeStopped /\ restarts <= 1 /\ Sound(Pipe, sPos, restarts, SomeStopped, Late)
      BY <1>1, <3>6 DEF SomeStopped, Known, LInv, PipeInv
    <3>8. Sound(Pipe', sPos, restarts, SomeStopped, Late)
      BY <1>p, <3>4, <3>5, <3>7, SoundStolen
    <3>9. Sound(Pipe', sPos', restarts', SomeStopped', Late')
      BY <1>u, <1>s, <1>l, <3>8 DEF Sound
    <3> QED BY <1>s, <3>9 DEF LInv, PipeInv
  <2> QED BY <2>5, <2>6
<1>2. CASE ReaderPasses(g) /\ Known
  <2>1. /\ reader[g] \in Message /\ UNCHANGED ws
        /\ \/ /\ out' = [out EXCEPT ![g] = Append(@, reader[g])]
              /\ reader' = [reader EXCEPT ![g] = Next_(reader[g])]
           \/ stopped[g] /\ out' = out /\ reader' = [reader EXCEPT ![g] = "done"]
    BY <1>2 DEF ReaderPasses, wsVars
  <2>2. CASE Listening /\ g = gen
    <3>1. ~stopped[g]
      BY <2>2 DEF LInv, StopInv
    <3>2. Held = reader[g] /\ Held' = Next_(reader[g]) /\ Passed' = Append(Passed, reader[g])
      BY <1>t, <1>p, <1>u, <1>l, <2>1, <2>2, <3>1 DEF Held, Passed, ReaderType
    <3>3. Next_(reader[g]) \notin Message
      BY NotMessages DEF Next_, Idle
    <3>4. PipeOf(ws["R"], Next_(reader[g]), Append(Passed, reader[g])) = PipeOf(ws["R"], reader[g], Passed)
      BY <1>p, <2>1, <3>3, PipePasses
    <3>5. Pipe' = Pipe
      BY <2>1, <3>2, <3>4 DEF Pipe
    <3> QED BY <1>e, <3>5
  <2>3. CASE ~(Listening /\ g = gen)
    <3>1. Held' = Held /\ Passed' = Passed
      BY <1>t, <1>p, <1>u, <1>l, <2>1, <2>3 DEF Held, Passed, ReaderType
    <3>2. Pipe' = Pipe
      BY <2>1, <3>1 DEF Pipe
    <3> QED BY <1>e, <3>2
  <2> QED BY <2>2, <2>3
<1> QED BY <1>1, <1>2, <1>k DEF ReaderStep

(* The receiver is no longer in the WebSocket's session.                    *)
LEMMA EndsLInv ==
  ASSUME TInv, LInv, UNCHANGED <<gen, restarts>>, stopped' = stopped \/ Stop(gen),
         pc'["R"] \in {"p2p", "ok", "dead"}
  PROVE  LInv'
<1>1. ~Live' /\ ~Known'
  BY DEF Live, Known
<1>2. StopInv'
  BY <1>1, StopSame, StopStops DEF LInv, TInv
<1> QED BY <1>1, <1>2 DEF LInv, GotInv, PipeInv

(* The receiver takes the first message of what is under way.               *)
LEMMA TakeLInv ==
  ASSUME TInv, LInv, StopInv', GotInv', UNCHANGED <<wsGone, sPos, restarts>>,
         Live, SomeStopped => SomeStopped',
         Pipe # << >>, Pipe' = Tail(Pipe),
         Late' => (Late /\ Head(Pipe) # "Version") \/ Head(Pipe) \in AheadOf(sPos),
         SomeStopped' => SomeStopped \/ Head(Pipe) = "Version"
  PROVE  LInv'
<1>1. Pipe \in Seq(Message) /\ sPos \in 0 .. 3 /\ restarts \in Nat
  BY PipeTypes
<1>2. ASSUME Known' PROVE Sound(Pipe', sPos', restarts', SomeStopped', Late')
  <2>1. Known
    BY <1>2 DEF Known
  <2>2. Sound(Pipe, sPos, restarts, SomeStopped, Late)
    BY <2>1 DEF LInv, PipeInv
  <2>3. Sound(Tail(Pipe), sPos, restarts, SomeStopped', Late')
    BY <1>1, <2>2, SoundTaken
  <2> QED BY <2>3 DEF Sound
<1> QED BY <1>2 DEF LInv, PipeInv

LEMMA ListeningGen == TInv => (Listening => gen \in Gen)
BY TInvTypes DEF Listening

LEMMA FirstLInv ==
  ASSUME TInv, LInv, ReceiveFirst
  PROVE  LInv'
<1>t. ReaderType /\ pc["R"] = "first" /\ ~Listening /\ Live /\ "reading" \notin Message
  BY NotMessages DEF TInv, ReceiveFirst, Listening, Live, Idle
<1>p. ws["R"] \in Seq(Frame) /\ Pipe = ws["R"] /\ sPos \in 0 .. 3 /\ restarts \in Nat
  BY <1>t, PipeTypes
<1>1. /\ ws["R"] # << >> /\ ws'["R"] = Tail(ws["R"])
      /\ UNCHANGED <<wsGone, sPos, restarts, stopped, out>>
      /\ FirstMsg = "Offer" =>
            /\ pc'["R"] = "trying" /\ gen' = gen + 1 /\ got' = got
            /\ reader' = [reader EXCEPT ![gen + 1] = "reading"]
      /\ FirstMsg # "Offer" =>
            /\ pc'["R"] \in {"first", "ws", "dead"} /\ UNCHANGED <<gen, reader>>
            /\ pc'["R"] = "ws" => FirstMsg \in {"P2PFail", "Metadata"}
            /\ got' = got \/ (got' = 1 /\ FirstMsg = "Metadata")
  BY FirstFacts
<1>2. TInv'
  BY FirstTInv
<1>3. SomeStopped' <=> SomeStopped
  BY <1>1 DEF SomeStopped
<1>4. got = 0
  BY <1>t DEF LInv, GotInv
<1>5. CASE FirstMsg = "Offer"
  <2>1. gen' \in Gen /\ gen \in Nat /\ Listening' /\ ~Late'
    <3>1. (Listening => gen \in Gen)'
      BY <1>2, ListeningGen, PTL
    <3> QED BY <1>t, <1>1, <1>5, <3>1 DEF ReaderType, Listening, Late
  <2>2. Held' = "reading" /\ Passed' = << >>
    <3>1. reader'[gen'] = "reading"
      BY <1>t, <1>1, <1>5, <2>1 DEF ReaderType
    <3>2. out[gen'] = << >>
      BY <1>t, <1>1, <1>5, <2>1 DEF ReaderType
    <3> QED BY <1>1, <2>1, <3>1, <3>2 DEF Held, Passed
  <2>3. Pipe' = Tail(Pipe)
    <3>1. ws'["R"] \in Seq(Frame) /\ << >> \in Seq(Message)
      BY <1>p, <1>1, Taken, EmptySeq
    <3>2. PipeOf(ws'["R"], "reading", << >>) = ws'["R"]
      BY <1>t, <3>1, PipeType
    <3> QED BY <1>p, <1>1, <2>2, <3>2 DEF Pipe
  <2>4. StopInv'
    <3>1. \A h \in Gen : h \in Nat /\ (h > gen => ~stopped[h]) /\ (h < gen => stopped[h]) /\ (h = gen => stopped[h])
      BY <1>t, BoundAssumption DEF LInv, StopInv, Gen
    <3>2. \A h \in Gen : (h > gen + 1 => ~stopped[h]) /\ (h < gen + 1 => stopped[h]) /\ (h = gen + 1 => ~stopped[h])
      BY <2>1, <3>1
    <3>3. restarts = 0 => ~SomeStopped
      BY <1>t DEF LInv, StopInv
    <3> QED BY <1>1, <1>3, <1>5, <2>1, <3>2, <3>3 DEF StopInv
  <2>5. GotInv'
    BY <1>1, <1>4, <1>5 DEF GotInv
  <2> QED BY <1>t, <1>p, <1>1, <1>3, <2>1, <2>3, <2>4, <2>5, TakeLInv
<1>6. CASE FirstMsg # "Offer" /\ pc'["R"] \in {"first", "ws"}
  <2>1. StopInv'
    BY <1>t, <1>1, <1>6, StopSame DEF LInv
  <2>2. Pipe' = Tail(Pipe)
    <3>1. ~Listening'
      BY <1>6 DEF Listening
    <3>2. Pipe' = ws'["R"]
      <4>1. Held' = "off" /\ Passed' = << >> /\ "off" \notin Message /\ << >> \in Seq(Message)
        BY <3>1, NotMessages, EmptySeq DEF Held, Passed, Idle
      <4>2. ws'["R"] \in Seq(Frame)
        BY <1>p, <1>1, Taken
      <4>3. PipeOf(ws'["R"], "off", << >>) = ws'["R"]
        BY <4>1, <4>2, PipeType
      <4> QED BY <4>1, <4>3 DEF Pipe
    <3> QED BY <1>p, <1>1, <3>2
  <2>3. GotInv' /\ (Late' => FirstMsg \in AheadOf(sPos))
    <3>1. CASE got' = got /\ pc'["R"] \in {"first", "ws"}
      BY <1>p, <1>1, <1>4, <3>1 DEF GotInv, Late
    <3>2. CASE FirstMsg = "Metadata" /\ got' = 1
      <4>1. sPos = 0 => "Metadata" \in AheadOf(sPos)
        BY DEF AheadOf, Stream
      <4>2. Late' => sPos = 0
        BY <1>p, <1>1, <3>2 DEF Late
      <4>3. pc'["R"] # "first"
        BY <3>2 DEF ReceiveFirst, FirstMsg, Goto, TInv, PcType, Side
      <4> QED BY <1>6, <3>2, <4>1, <4>2, <4>3 DEF GotInv
    <3> QED BY <1>1, <1>6, <3>1, <3>2
  <2> QED BY <1>t, <1>p, <1>1, <1>3, <2>1, <2>2, <2>3, TakeLInv DEF FirstMsg
<1>7. CASE FirstMsg # "Offer" /\ pc'["R"] = "dead"
  BY <1>1, <1>7, EndsLInv
<1> QED BY <1>1, <1>5, <1>6, <1>7

LEMMA TryingLInv ==
  ASSUME TInv, LInv, ReceiverOpenCh \/ ReceiverSignal \/ ReceiverGivesUp \/ ReceiverAgrees
  PROVE  LInv'
<1>t. PcType /\ ReaderType /\ WsType /\ pc["R"] = "trying" /\ Listening /\ Live
  BY DEF TInv, ReceiverOpenCh, ReceiverSignal, ReceiverGivesUp, ReceiverAgrees, Trying, Listening, Live
<1>p. /\ ws["R"] \in Seq(Frame) /\ Passed \in Seq(Message) /\ Pipe \in Seq(Message)
      /\ sPos \in 0 .. 3 /\ restarts \in Nat
      /\ gen \in Gen /\ Held = reader[gen] /\ Passed = out[gen]
  BY <1>t, PipeTypes
<1>1. /\ UNCHANGED <<wsGone, sPos, restarts, gen, reader, got>> /\ ws'["R"] = ws["R"]
      /\ out' = out \/ (out[gen] # << >> /\ out' = [out EXCEPT ![gen] = Tail(@)])
      /\ \/ stopped' = stopped /\ (pc' = pc \/ Goto("R", "tail"))
         \/ Stop(gen) /\ (Goto("R", "dead") \/ Goto("R", "p2p"))
  BY <1>t DEF ReceiverOpenCh, ReceiverSignal, ReceiverGivesUp, GiveUpTo, ReceiverAgrees, Forget,
     wsVars, senderVars
<1>2. \/ stopped' = stopped /\ pc'["R"] \in {"trying", "tail"}
      \/ Stop(gen) /\ pc'["R"] \in {"dead", "p2p"}
  BY <1>t, <1>1 DEF PcType, Goto, Side
<1>3. CASE Stop(gen) /\ pc'["R"] \in {"dead", "p2p"}
  BY <1>1, <1>3, EndsLInv
<1>4. CASE stopped' = stopped /\ pc'["R"] \in {"trying", "tail"}
  <2>1. StopInv' /\ (SomeStopped' <=> SomeStopped)
    BY <1>t, <1>1, <1>4, StopSame DEF LInv
  <2>2. got' = 0 /\ ~Late' /\ GotInv' /\ Listening'
    BY <1>t, <1>p, <1>1, <1>4 DEF LInv, GotInv, Late, Listening
  <2>3. Held' = Held /\ (Passed' = Passed \/ (Passed # << >> /\ Passed' = Tail(Passed)))
    BY <1>t, <1>p, <1>1, <2>2 DEF Held, Passed, ReaderType
  <2>4. CASE Passed' = Passed
    <3>1. Pipe' = Pipe
      BY <1>1, <2>3, <2>4 DEF Pipe
    <3>2. ASSUME Known' PROVE Sound(Pipe', sPos', restarts', SomeStopped', Late')
      <4>1. Known
        BY <1>t, <1>1, <2>1, <3>2 DEF Known
      <4>2. Sound(Pipe, sPos, restarts, SomeStopped, Late)
        BY <4>1 DEF LInv, PipeInv
      <4> QED BY <1>1, <2>1, <2>2, <3>1, <4>2 DEF Sound
    <3> QED BY <2>1, <2>2, <3>2 DEF LInv, PipeInv
  <2>5. CASE Passed # << >> /\ Passed' = Tail(Passed)
    <3>1. Pipe # << >> /\ Tail(Pipe) = PipeOf(ws["R"], Held, Tail(Passed))
      BY <1>p, <2>5, PipeTaken DEF Pipe
    <3>2. Pipe' = Tail(Pipe)
      BY <1>1, <2>3, <2>5, <3>1 DEF Pipe
    <3> QED BY <1>t, <1>1, <2>1, <2>2, <3>1, <3>2, TakeLInv
  <2> QED BY <2>3, <2>4, <2>5
<1> QED BY <1>2, <1>3, <1>4

(* What the receiver has taken in is what it takes now, or as before.       *)
LEMMA ConsumeGot ==
  ASSUME NEW m \in Message, m # "Version", Consume(m), TInv
  PROVE  got' = got \/ (m \in {Stream[i] : i \in 1 .. 3} /\ \A p \in 0 .. 3 : got' > p => m \in AheadOf(p))
<1>1. \/ got' = got
      \/ got' = 1 /\ m = "Metadata"
      \/ got' = 2 /\ m = "Complete"
      \/ got' = 3 /\ m = "SessionEnd"
  BY DEF Consume, InFile, AfterFile, Rehandshake
<1>2. ASSUME NEW k \in 1 .. 3, got' = k, m = Stream[k]
      PROVE  m \in {Stream[i] : i \in 1 .. 3} /\ \A p \in 0 .. 3 : got' > p => m \in AheadOf(p)
  <2>1. \A p \in 0 .. 3 : k > p => k \in p + 1 .. 3
    OBVIOUS
  <2> QED BY <1>2, <2>1 DEF AheadOf
<1>3. Stream[1] = "Metadata" /\ Stream[2] = "Complete" /\ Stream[3] = "SessionEnd"
  BY DEF Stream
<1> QED BY <1>1, <1>2, <1>3

LEMMA ReadTailLInv ==
  ASSUME TInv, RInv, LInv, ReadTail
  PROVE  LInv'
<1> DEFINE m == Head(out[gen])
<1>1. /\ pc["R"] = "tail" /\ out[gen] # << >> /\ Consume(m)
      /\ out' = [out EXCEPT ![gen] = Tail(@)] /\ ws' \in AndReady(m, ws)
      /\ UNCHANGED <<wsGone, sPos, restarts, gen, reader>>
  BY DEF ReadTail, senderVars
<1>t. WsType /\ ReaderType /\ Listening /\ Live
  BY <1>1 DEF TInv, Listening, Live
<1>p. /\ ws["R"] \in Seq(Frame) /\ Passed \in Seq(Message) /\ Pipe \in Seq(Message)
      /\ sPos \in 0 .. 3 /\ restarts \in Nat
      /\ gen \in Gen /\ Held = reader[gen] /\ Passed = out[gen]
  BY <1>t, PipeTypes
<1>2. m \in Message
  BY <1>1, <1>p, Taken
<1>3. Pipe # << >> /\ Head(Pipe) = m /\ Tail(Pipe) = PipeOf(ws["R"], Held, Tail(Passed))
      /\ Tail(Passed) \in Seq(Message)
  BY <1>1, <1>p, PipeTaken, Taken DEF Pipe
<1>n. restarts = 0 => m # "Version"
  <2>1. Has(out[gen], m)
    BY <1>1, <1>p, Taken
  <2> QED BY <1>p, <2>1 DEF RInv, NoVersion
<1> HIDE DEF m
<1>4. /\ pc'["R"] \in {"tail", "first", "ok", "dead"} /\ (pc'["R"] = "first" <=> m = "Version")
      /\ m = "Version" => Stop(gen) /\ got' = 0
      /\ m # "Version" => stopped' = stopped
  BY <1>1, <1>2, ConsumeFacts
<1>5. ws'["R"] = ws["R"]
  BY <1>1, <1>2, <1>t, ReadyFacts DEF WsType
<1>6. CASE pc'["R"] \in {"ok", "dead"}
  BY <1>1, <1>4, <1>6, EndsLInv
<1>7. CASE pc'["R"] = "tail"
  <2>1. m # "Version" /\ StopInv' /\ (SomeStopped' <=> SomeStopped) /\ GotInv' /\ Listening'
    BY <1>1, <1>4, <1>7, StopSame DEF LInv, GotInv, Listening
  <2>2. Pipe' = Tail(Pipe)
    <3>1. Held' = Held /\ Passed' = Tail(Passed)
      BY <1>1, <1>t, <1>p, <2>1 DEF Held, Passed, ReaderType
    <3> QED BY <1>3, <1>5, <3>1 DEF Pipe
  <2>3. Late' => Late \/ m \in AheadOf(sPos)
    <3>1. got' = got \/ \A p \in 0 .. 3 : got' > p => m \in AheadOf(p)
      BY <1>1, <1>2, <2>1, ConsumeGot
    <3> QED BY <1>1, <1>p, <1>7, <3>1 DEF Late
  <2> QED BY <1>1, <1>t, <1>3, <2>1, <2>2, <2>3, TakeLInv
<1>8. CASE pc'["R"] = "first"
  <2>1. m = "Version" /\ Stop(gen) /\ got' = 0 /\ ~Listening' /\ ~Late' /\ GotInv' /\ restarts # 0
    BY <1>4, <1>8, <1>n DEF Listening, Late, GotInv
  <2>2. StopInv' /\ (SomeStopped => SomeStopped')
    BY <1>1, <1>t, <1>8, <2>1, StopStops DEF LInv
  <2>3. Pipe' = ws["R"]
    <3>1. Held' = "off" /\ Passed' = << >> /\ "off" \notin Message /\ << >> \in Seq(Message)
      BY <2>1, NotMessages, EmptySeq DEF Held, Passed, Idle
    <3>2. PipeOf(ws["R"], "off", << >>) = ws["R"]
      BY <1>p, <3>1, PipeType
    <3> QED BY <1>5, <3>1, <3>2 DEF Pipe
  <2>4. ASSUME Known' PROVE Sound(Pipe', sPos', restarts', SomeStopped', Late')
    <3>1. Known
      BY <1>1, <1>t, <2>2, <2>4 DEF Known
    <3>2. Sound(Pipe, sPos, restarts, SomeStopped, Late)
      BY <3>1 DEF LInv, PipeInv
    <3>3. Sound(Tail(Pipe), sPos, restarts, SomeStopped', FALSE)
      BY <1>p, <1>3, <2>1, <3>2, SoundTaken
    <3>4. PICK a \in Seq(Message) : Tail(Pipe) = a \o ws["R"]
      <4>1. \E a \in Seq(Message) : PipeOf(ws["R"], Held, Tail(Passed)) = a \o ws["R"]
        <5>1. ws["R"] \in Seq(Frame) /\ Tail(Passed) \in Seq(Message)
          BY <1>p, <1>3
        <5> QED BY <5>1, PipeType
      <4> QED BY <1>3, <4>1
    <3>5. ws["R"] \in Seq(Message)
      BY <1>p, PipeType
    <3>6. Sound(ws["R"], sPos, restarts, SomeStopped', FALSE)
      <4>1. Sound(a \o ws["R"], sPos, restarts, SomeStopped', FALSE)
        BY <3>3, <3>4
      <4> QED BY <1>p, <3>4, <3>5, <4>1, SoundRest
    <3> QED BY <1>1, <2>1, <2>3, <3>6 DEF Sound
  <2> QED BY <2>1, <2>2, <2>4 DEF LInv, PipeInv
<1> QED BY <1>4, <1>6, <1>7, <1>8

LEMMA ReadLInv ==
  ASSUME TInv, RInv, LInv, ReadWS \/ ReadP2P \/ ReceiveFirstFails \/ ReadDeadline
  PROVE  LInv'
<1>t. WsType /\ ReaderType /\ PcType
  BY DEF TInv
<1>p. /\ ws["R"] \in Seq(Frame) /\ sPos \in 0 .. 3 /\ restarts \in Nat
      /\ ~Listening => Pipe = ws["R"]
  BY PipeTypes
<1>u. UNCHANGED <<restarts, gen>>
  BY DEF ReadWS, ReadP2P, ReceiveFirstFails, ReadDeadline, senderVars, recvVars
<1>e. "error" \in Message /\ "error" # "Version"
  BY DEF Message
<1>1. CASE ReceiveFirstFails \/ ReadDeadline
  <2>1. Goto("R", "dead") /\ stopped' = stopped
    BY <1>1 DEF ReceiveFirstFails, ReadDeadline, recvVars
  <2>2. pc'["R"] = "dead"
    BY <1>t, <2>1 DEF PcType, Goto, Side
  <2> QED BY <1>u, <2>1, <2>2, EndsLInv
<1>2. CASE ReadP2P
  <2>1. PICK m \in Message : Consume(m) /\ m # "Version"
    <3>1. dc # << >> => Head(dc) \in {Stream[i] : i \in 1 .. 3}
      BY Taken DEF TInv, StreamType
    <3>2. \A x \in {Stream[i] : i \in 1 .. 3} \cup {"error"} : x \in Message /\ x # "Version"
      BY DEF Message, Stream
    <3> QED BY <1>2, <3>1, <3>2 DEF ReadP2P
  <2>2. stopped' = stopped /\ pc'["R"] \in {"p2p", "ok", "dead"}
    <3>1. pc["R"] = "p2p"
      BY <1>2 DEF ReadP2P
    <3> QED BY <2>1, <3>1, ConsumeFacts
  <2> QED BY <1>u, <2>2, EndsLInv
<1>3. CASE ReadWS /\ wsGone /\ Consume("error")
  <2>1. stopped' = stopped /\ pc'["R"] \in {"ws", "ok", "dead"} /\ pc["R"] = "ws" /\ wsGone'
    <3>1. pc["R"] = "ws" /\ wsGone'
      BY <1>3 DEF ReadWS
    <3> QED BY <1>3, <1>e, <3>1, ConsumeFacts
  <2>2. StopInv' /\ GotInv' /\ ~Known'
    BY <1>u, <2>1, StopSame DEF LInv, GotInv, Known
  <2> QED BY <2>2 DEF LInv, PipeInv
<1>4. CASE ReadWS /\ ws["R"] # << >> /\ Consume(Head(ws["R"]))
           /\ ws' \in AndReady(Head(ws["R"]), [ws EXCEPT !["R"] = Tail(@)])
  <2> DEFINE m == Head(ws["R"])
  <2>1. /\ m \in Message /\ Tail(ws["R"]) \in Seq(Frame)
        /\ restarts = 0 => m # "Version"
    <3>1. m \in Frame /\ Tail(ws["R"]) \in Seq(Frame) /\ Has(ws["R"], m)
      BY <1>p, <1>4, Taken
    <3> QED BY <3>1 DEF Frame, RInv, NoVersion
  <2>2. ws'["R"] = Tail(ws["R"])
    <3> DEFINE w == [ws EXCEPT !["R"] = Tail(@)]
    <3>1. w \in [Side -> Seq(Frame)] /\ w["S"] = ws["S"] /\ w["R"] = Tail(ws["R"])
      BY <1>t, <2>1 DEF WsType, Side
    <3>2. ws' \in AndReady(m, w)
      BY <1>4
    <3> HIDE DEF w, m
    <3> QED BY <1>t, <2>1, <3>1, <3>2, ReadyFacts
  <2> HIDE DEF m
  <2>3. pc["R"] = "ws" /\ UNCHANGED <<wsGone, sPos>> /\ ~Listening /\ Live /\ Consume(m)
    BY <1>4 DEF ReadWS, senderVars, Listening, Live, m
  <2>4. /\ pc'["R"] \in {"ws", "first", "ok", "dead"} /\ (pc'["R"] = "first" <=> m = "Version")
        /\ m = "Version" => Stop(gen) /\ got' = 0
        /\ m # "Version" => stopped' = stopped
    BY <2>1, <2>3, ConsumeFacts
  <2>5. CASE pc'["R"] \in {"ok", "dead"}
    BY <1>u, <2>4, <2>5, EndsLInv
  <2>6. CASE pc'["R"] \in {"ws", "first"}
    <3>1. StopInv' /\ (SomeStopped => SomeStopped') /\ (m # "Version" => (SomeStopped' <=> SomeStopped))
      <4>1. CASE m # "Version"
        BY <1>u, <2>3, <2>4, <2>6, <4>1, StopSame DEF LInv
      <4>2. CASE m = "Version"
        BY <1>t, <1>u, <2>1, <2>4, <2>6, <4>2, StopStops DEF LInv
      <4> QED BY <4>1, <4>2
    <3>2. GotInv'
      BY <2>4, <2>6 DEF GotInv
    <3>3. Pipe # << >> /\ Head(Pipe) = m /\ Pipe' = Tail(Pipe)
      <4>1. ~Listening'
        BY <2>6 DEF Listening
      <4>2. Held' = "off" /\ Passed' = << >> /\ "off" \notin Message /\ << >> \in Seq(Message)
        BY <4>1, NotMessages, EmptySeq DEF Held, Passed, Idle
      <4>3. PipeOf(Tail(ws["R"]), "off", << >>) = Tail(ws["R"])
        BY <2>1, <4>2, PipeType
      <4> QED BY <1>p, <1>4, <2>2, <2>3, <4>2, <4>3 DEF Pipe, m
    <3>4. Late' => (Late /\ m # "Version") \/ m \in AheadOf(sPos)
      <4>1. CASE m = "Version"
        BY <2>4, <4>1 DEF Late
      <4>2. CASE m # "Version"
        <5>1. got' = got \/ \A p \in 0 .. 3 : got' > p => m \in AheadOf(p)
          BY <2>1, <2>3, <4>2, ConsumeGot
        <5> QED BY <1>p, <2>3, <2>6, <4>2, <5>1 DEF Late
      <4> QED BY <4>1, <4>2
    <3>5. SomeStopped' => SomeStopped \/ m = "Version"
      BY <3>1
    <3> QED BY <1>u, <2>3, <3>1, <3>2, <3>3, <3>4, <3>5, TakeLInv
  <2> QED BY <2>4, <2>5, <2>6
<1> QED BY <1>1, <1>2, <1>3, <1>4 DEF ReadWS

LEMMA CrashLInv ==
  ASSUME TInv, LInv, NEW x \in Side, ConcurrentWrite(x)
  PROVE  LInv'
<1>1. /\ wsGone' = TRUE /\ pc'[x] = "dead" /\ pc'[Other(x)] = pc[Other(x)]
      /\ UNCHANGED <<ws, senderVars, recvVars>>
  BY CrashFacts
<1>2. CASE x = "S"
  <2>1. pc'["R"] = pc["R"]
    BY <1>1, <1>2 DEF Other
  <2>2. sPos \in 0 .. 3 /\ sPos' = sPos /\ restarts' = restarts
    BY <1>1, PipeTypes DEF senderVars
  <2>3. "Torn" \in Frame /\ "Torn" # "Version" /\ "Torn" \notin AheadOf(sPos')
    BY <2>2, AheadFacts DEF Frame, Message, Signals
  <2> QED BY <1>1, <2>1, <2>2, <2>3, WriteLInv
<1>3. CASE x = "R"
  BY <1>1, <1>3, EndsLInv DEF senderVars, recvVars
<1> QED BY <1>2, <1>3 DEF Side

LEMMA NextLInv == TInv /\ RInv /\ LInv /\ [Next]_vars => LInv'
<1> SUFFICES ASSUME TInv, RInv, LInv, [Next]_vars PROVE LInv'
  OBVIOUS
<1>1. CASE SenderStep \/ SenderExits \/ AwaitReady \/ Restart
  BY <1>1, SenderLInv
<1>2. CASE ReceiverStep
  BY <1>2, FirstLInv, TryingLInv, ReadTailLInv, ReadLInv DEF ReceiverStep
<1>3. CASE \/ LoseWS \/ \E x \in Side : TrickleStep(x) \/ Opens(x) \/ PeerFails(x) \/ TimeOut(x)
           \/ ReceiverExits
  BY <1>3, OutsideLInv
<1>c. CASE \E x \in Side : ConcurrentWrite(x)
  BY <1>c, CrashLInv
<1>4. CASE ReceiveFirstFails \/ ReadDeadline
  BY <1>4, ReadLInv
<1>5. CASE \E g \in Gen : ReaderStep(g)
  BY <1>5, ReaderLInv
<1>6. CASE UNCHANGED vars
  <2>1. UNCHANGED <<pc, ws, wsGone, sPos, restarts, gen, reader, out, stopped, got>>
    BY <1>6 DEF vars, wsVars, senderVars, recvVars
  <2> QED BY <2>1 DEF LInv, StopInv, GotInv, PipeInv, Known, Live, Late, Listening, SomeStopped, Pipe, Held,
             Passed, Listening
<1> QED BY <1>1, <1>2, <1>3, <1>c, <1>4, <1>5, <1>6 DEF Next

(* After a reload of the sender nothing of the session before it counts:    *)
(* as long as the receiver is ahead of the sender, the Version that tells   *)
(* it to begin again is on its way to it, or was taken by a stopped reader. *)
THEOREM NothingLeft == Spec => []NoLeftovers
<1>1. Init => LInv
  <2> SUFFICES ASSUME Init PROVE LInv
    OBVIOUS
  <2>1. /\ ws["R"] = << >> /\ pc["R"] = "first" /\ gen = 0 /\ got = 0 /\ sPos = 0
        /\ \A g \in Gen : ~stopped[g] /\ g > 0
    BY BoundAssumption DEF Init, Side, Gen
  <2>2. ~Listening /\ ~SomeStopped /\ ~Late
    BY <2>1 DEF Listening, SomeStopped, Late
  <2>3. Pipe = << >>
    BY <2>1, <2>2, InitTInv, PipeTypes
  <2>4. Len(<< >>) = 0
    BY EmptySeq
  <2>5. Sound(Pipe, sPos, restarts, SomeStopped, Late)
    BY <2>2, <2>3, <2>4 DEF Sound, Behind, AtMostOne, Has
  <2>6. StopInv /\ GotInv
    <3>1. \A g \in Gen : ~(g < gen) /\ ~(g = gen) /\ ~stopped[g]
      BY <2>1, BoundAssumption DEF Gen, BoundAssumption
    <3> QED BY <2>1, <2>2, <3>1 DEF StopInv, GotInv
  <2> QED BY <2>5, <2>6 DEF LInv, PipeInv
<1>2. TInv /\ LInv => NoLeftovers
  <2> SUFFICES ASSUME TInv, LInv, pc["R"] \in {"tail", "ws"}, got > sPos, ~wsGone, ~VersionTaken
               PROVE  VersionAhead
    BY DEF NoLeftovers, VersionAhead
  <2>1. Known /\ Late
    <3>1. restarts \in Nat
      BY PipeTypes
    <3> QED BY <3>1 DEF Known, Live, Late, VersionTaken, SomeStopped
  <2>2. Has(Pipe, "Version")
    BY <2>1 DEF LInv, PipeInv, Sound
  <2>3. "Version" \in Message /\ ws["R"] \in Seq(Frame) /\ Passed \in Seq(Message)
    BY PipeTypes DEF Message, Signals
  <2>4. Has(Passed, "Version") \/ Held = "Version" \/ Has(ws["R"], "Version")
    BY <2>2, <2>3, PipeHas DEF Pipe
  <2>5. CASE Has(ws["R"], "Version")
    BY <2>5 DEF VersionAhead, Has
  <2>6. CASE Has(Passed, "Version") \/ Held = "Version"
    <3>1. Listening
      BY <2>6, EmptySeq DEF Held, Passed, Has
    <3>2. gen \in Gen /\ Held = reader[gen] /\ Passed = out[gen]
      BY <3>1, PipeTypes
    <3>3. gen > 0
      BY <3>2 DEF Gen
    <3> QED BY <2>6, <3>2, <3>3 DEF VersionAhead, Has
  <2> QED BY <2>4, <2>5, <2>6
<1>3. TInv /\ RInv /\ LInv /\ [Next]_vars => LInv'
  BY NextLInv
<1> QED BY <1>1, <1>2, <1>3, SpecRInv, PTL DEF Spec
=============================================================================
