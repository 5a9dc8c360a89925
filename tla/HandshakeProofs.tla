-------------------------- MODULE HandshakeProofs --------------------------
(***************************************************************************)
(* Handshake.tla for any numbers of starts and any limits in minutes: the   *)
(* shape of the state, that a resume request is the peer's, that version    *)
(* checks fail closed and that the relay ends the wait for a peer.          *)
(***************************************************************************)
EXTENDS Handshake, FiniteSetTheorems, SequenceTheorems, TLAPS

-----------------------------------------------------------------------------
(* The frames of a queue.                                                   *)

Elems(s) == {s[i] : i \in 1 .. Len(s)}

LEMMA ElemsEmpty == Elems(<< >>) = {}
BY EmptySeq, SMT DEF Elems

LEMMA ElemsAppend ==
    ASSUME NEW S, NEW s \in Seq(S), NEW x \in S
    PROVE  Append(s, x) \in Seq(S) /\ Elems(Append(s, x)) = Elems(s) \cup {x}
<1>1. /\ Append(s, x) \in Seq(S) /\ Len(s) \in Nat
      /\ Len(Append(s, x)) = Len(s) + 1 /\ Append(s, x)[Len(s) + 1] = x
      /\ \A i \in 1 .. Len(s) : Append(s, x)[i] = s[i]
  BY AppendProperties, LenProperties
<1>2. 1 .. Len(s) + 1 = (1 .. Len(s)) \cup {Len(s) + 1}
  BY <1>1, SMT
<1> QED BY <1>1, <1>2 DEF Elems

LEMMA ElemsHeadTail ==
    ASSUME NEW S, NEW s \in Seq(S), s # << >>
    PROVE  /\ Head(s) \in S /\ Tail(s) \in Seq(S)
           /\ Head(s) \in Elems(s) /\ Elems(Tail(s)) \subseteq Elems(s)
<1>1. /\ Head(s) \in S /\ Tail(s) \in Seq(S) /\ Len(s) \in Nat \ {0} /\ Head(s) = s[1]
      /\ Len(Tail(s)) = Len(s) - 1
      /\ \A i \in 1 .. Len(Tail(s)) : Tail(s)[i] = s[i + 1]
  BY HeadTailProperties, EmptySeq
<1>2. \A i \in 1 .. Len(Tail(s)) : i + 1 \in 1 .. Len(s)
  BY <1>1, SMT
<1>3. 1 \in 1 .. Len(s)
  BY <1>1, SMT
<1> QED BY <1>1, <1>2, <1>3 DEF Elems

LEMMA ElemsOf ==
    ASSUME NEW S, NEW s \in Seq(S)
    PROVE  Elems(s) \subseteq S
BY ElementOfSeq DEF Elems

(* A room of two.                                                           *)
LEMMA RoomForOne ==
    ASSUME NEW S, IsFiniteSet(S), Cardinality(S) < 2, NEW m \in S
    PROVE  S = {m}
<1>1. Cardinality(S \ {m}) = Cardinality(S) - 1 /\ IsFiniteSet(S \ {m})
  BY FS_RemoveElement
<1>2. Cardinality(S) \in Nat /\ Cardinality(S \ {m}) \in Nat
  BY <1>1, FS_CardinalityType
<1>3. Cardinality(S \ {m}) = 0
  BY <1>1, <1>2, SMT
<1>4. S \ {m} = {}
  BY <1>1, <1>3, FS_EmptySet
<1> QED BY <1>4

LEMMA RoomForTwo ==
    ASSUME NEW S, IsFiniteSet(S), Cardinality(S) <= 2, NEW m \in S, NEW a \in S, NEW b \in S,
           a # m, b # m
    PROVE  a = b
<1>1. Cardinality(S \ {m}) = Cardinality(S) - 1 /\ IsFiniteSet(S \ {m})
  BY FS_RemoveElement
<1>2. Cardinality(S) \in Nat /\ Cardinality(S \ {m}) \in Nat
  BY <1>1, FS_CardinalityType
<1>3. Cardinality(S \ {m}) < 2
  BY <1>1, <1>2, SMT
<1>4. S \ {m} = {a}
  BY <1>1, <1>3, RoomForOne
<1> QED BY <1>4

-----------------------------------------------------------------------------
(* What the actions come to.                                                *)

(* The program x ends.                                                      *)
Ends(x) ==
    /\ Running(x) /\ End(x)
    /\ UNCHANGED <<mode, start, kind, resumes, pending, peer, outbox, roomVars>>

(* It reads a frame and goes on as before.                                  *)
Skips(x) ==
    /\ inbox[x] # << >> /\ Take(x)
    /\ UNCHANGED <<mode, progVars, outbox, roomVars>>

(* WaitForPeer keeps a resume request.                                      *)
Keeps ==
    /\ inbox["S"] # << >> /\ Next_("S").type = "resume" /\ pc["S"] = "waiting"
    /\ pending' = Next_("S") /\ Take("S")
    /\ UNCHANGED <<mode, start, kind, pc, resumes, peer, waited, outbox, roomVars>>

(* It reads the frame that begins its session.                              *)
Meets(x, type, from, to) ==
    /\ inbox[x] # << >> /\ Next_(x).type = type /\ pc[x] = from
    /\ Goto(x, to)
    /\ peer' = [peer EXCEPT ![x] = Next_(x)]
    /\ inbox' = [inbox EXCEPT ![x] = << >>]
    /\ UNCHANGED <<mode, start, kind, resumes, pending, outbox, roomVars>>

Joined == \E to \in {"offering", "choosing"} :
             Meets("S", "join", "waiting", to) /\ Accepts(Next_("S"))
GotReady == Meets("S", "ready", "await", "offering")
GotOffer == mode = "live" /\ Meets("R", "offer", "first", "session")

GotOfferAgain ==
    /\ mode # "live" /\ pc["R"] = "first"
    /\ Goto("R", "session") /\ inbox' = [inbox EXCEPT !["R"] = << >>]
    /\ UNCHANGED <<mode, start, kind, resumes, pending, peer, outbox, roomVars>>

(* It answers a version.                                                    *)
Answers ==
    /\ mode = "announced" /\ pc["R"] \in {"version", "first"} /\ inbox["R"] # << >>
    /\ Next_("R").type = "version" /\ Checked(Next_("R"))
    /\ Write("R", "ready", 0) /\ Goto("R", "first") /\ Take("R")
    /\ peer' = [peer EXCEPT !["R"] = Next_("R")]
    /\ UNCHANGED <<mode, start, kind, resumes, pending, roomVars>>

LEMMA Steps ==
    ASSUME [Next]_vars
    PROVE  \/ \E x \in Sides, k \in Kinds, r \in BOOLEAN : StartProgram(x, k, r)
           \/ \E x \in Sides : Ends(x) \/ Skips(x)
           \/ Keeps \/ Joined \/ GotReady \/ GotOffer \/ GotOfferAgain \/ Answers \/ Choose
           \/ SendOffer \/ SendResume \/ SendJoin \/ SendVersion
           \/ \E c \in Conn : Relay(c) \/ DropFrames(c) \/ RemoveClient(c)
           \/ Cleanup \/ RelayRestarts \/ Minute \/ UNCHANGED vars
<1> DEFINE Sum ==
           \/ \E x \in Sides : Ends(x) \/ Skips(x)
           \/ Keeps \/ Joined \/ GotReady \/ GotOffer \/ GotOfferAgain \/ Answers
<1>1. "S" \in Sides /\ "R" \in Sides
  BY DEF Sides
<1>2. CASE \E x \in Sides : Leave(x) \/ ConnectionLost(x)
  BY <1>2 DEF Leave, ConnectionLost, Ends
<1>3. CASE ReadResume
  BY <1>1, <1>3 DEF ReadResume, Keeps, Skips, progVars
<1>4. CASE ReadJoin
  <2>1. CASE Accepts(Next_("S"))
    BY <1>4, <2>1 DEF ReadJoin, Joined, Meets
  <2>2. CASE ~Accepts(Next_("S"))
    BY <1>1, <1>4, <2>2 DEF ReadJoin, Ends, Running
  <2> QED BY <2>1, <2>2
<1>5. CASE IgnoreOther
  BY <1>1, <1>5 DEF IgnoreOther, Skips
<1>6. CASE ReadReady
  <2>1. CASE Next_("S").type = "ready"
    BY <1>6, <2>1 DEF ReadReady, GotReady, Meets
  <2>2. CASE Next_("S").type # "ready" /\ kind["S"] = "cli"
    BY <1>1, <1>6, <2>2 DEF ReadReady, Ends, Running
  <2>3. CASE Next_("S").type # "ready" /\ kind["S"] # "cli"
    BY <1>1, <1>6, <2>3 DEF ReadReady, Skips, progVars
  <2> QED BY <2>1, <2>2, <2>3
<1>7. CASE ReadyEnds \/ FirstMessageEnds \/ ConnectEnds
  BY <1>1, <1>7 DEF ReadyEnds, FirstMessageEnds, ConnectEnds, Ends, Running
<1>8. CASE ReadOffer
  BY <1>8 DEF ReadOffer, GotOffer, GotOfferAgain, Meets
<1>9. CASE ReadUnexpected
  <2>1. CASE kind["R"] = "cli"
    BY <1>1, <1>9, <2>1 DEF ReadUnexpected, Ends, Running
  <2>2. CASE kind["R"] # "cli"
    BY <1>1, <1>9, <2>2 DEF ReadUnexpected, Skips, progVars
  <2> QED BY <2>1, <2>2
<1>10. CASE ReadVersion
  <2>1. CASE Next_("R").type = "version" /\ Checked(Next_("R"))
    BY <1>10, <2>1 DEF ReadVersion, Answers
  <2>2. CASE ~(Next_("R").type = "version" /\ Checked(Next_("R")))
    BY <1>1, <1>10, <2>2 DEF ReadVersion, Ends, Running
  <2> QED BY <2>1, <2>2
<1> QED
  BY <1>1, <1>2, <1>3, <1>4, <1>5, <1>6, <1>7, <1>8, <1>9, <1>10
  DEF Next, SenderStep, ReceiverStep, RelayStep, User

-----------------------------------------------------------------------------
(* The shape of the state.                                                  *)

TypeInv ==
    /\ TypeOK /\ IsFiniteSet(room)
    /\ \A x \in Sides : start[x] <= MaxStarts[x]

LEMMA Numbers ==
    /\ MaxStarts["S"] \in Nat /\ MaxStarts["R"] \in Nat
    /\ \A x \in Sides : MaxStarts[x] \in Nat
    /\ \A x \in Sides, n \in Nat : n <= MaxStarts[x] => n \in Start
    /\ \A x \in Sides, n \in Nat : 0 < n /\ n <= MaxStarts[x] => <<x, n>> \in Conn
    /\ \A n \in Start : n \in Nat
<1>1. /\ MaxStarts["S"] \in Nat /\ MaxStarts["R"] \in Nat
      /\ \A x \in Sides : MaxStarts[x] \in Nat
  BY TimesAssumption DEF Sides
<1>2. ASSUME NEW x \in Sides, NEW n \in Nat, n <= MaxStarts[x]
      PROVE  n \in Start
  BY <1>1, <1>2, SMT DEF Start, Sides
<1>3. \A n \in Start : n \in Nat
  BY <1>1, SMT DEF Start
<1> QED BY <1>1, <1>2, <1>3 DEF Conn

LEMMA Frames ==
    ASSUME NEW f \in Frame
    PROVE  /\ f # NoFrame /\ f.of \in Start
           /\ \A b \in BOOLEAN : [f EXCEPT !.late = b] \in Frame
BY DEF Frame, NoFrame

LEMMA TypeInit == Init => TypeInv
<1> SUFFICES ASSUME Init PROVE TypeInv
  OBVIOUS
<1>1. start \in [Sides -> Start] /\ \A x \in Sides : start[x] <= MaxStarts[x]
  BY Numbers, SMT DEF Init, Start
<1>2. IsFiniteSet(room) /\ Cardinality(room) <= 2 /\ room \subseteq Conn
  BY FS_EmptySet DEF Init
<1>3. /\ outbox \in [Conn -> Seq(Frame)] /\ inbox \in [Sides -> Seq(Frame)]
  BY EmptySeq DEF Init
<1>4. DOMAIN pc = Sides /\ pc["S"] \in SenderStates /\ pc["R"] \in ReceiverStates
  BY DEF Init, Sides, SenderStates, ReceiverStates
<1> QED BY <1>1, <1>2, <1>3, <1>4 DEF Init, TypeInv, TypeOK, Sides

(* What happens to the program that a step is about, and nothing else.      *)
LEMMA TypeMove ==
    ASSUME TypeInv, NEW x \in Sides, NEW l, Goto(x, l),
           l \in IF x = "S" THEN SenderStates ELSE ReceiverStates
    PROVE  /\ DOMAIN pc' = Sides /\ pc'["S"] \in SenderStates /\ pc'["R"] \in ReceiverStates
           /\ waited' \in [Sides -> Nat]
BY DEF TypeInv, TypeOK, Goto, Sides

LEMMA TypeTake ==
    ASSUME TypeInv, NEW x \in Sides, inbox[x] # << >>
    PROVE  /\ Next_(x) \in Frame /\ Next_(x) \in Elems(inbox[x])
           /\ Take(x) => inbox' \in [Sides -> Seq(Frame)]
           /\ [inbox EXCEPT ![x] = << >>] \in [Sides -> Seq(Frame)]
<1>1. inbox[x] \in Seq(Frame)
  BY DEF TypeInv, TypeOK
<1>2. << >> \in Seq(Frame)
  BY EmptySeq
<1>3. /\ Head(inbox[x]) \in Frame /\ Head(inbox[x]) \in Elems(inbox[x])
      /\ Tail(inbox[x]) \in Seq(Frame)
  BY <1>1, ElemsHeadTail
<1>4. Take(x) => inbox' \in [Sides -> Seq(Frame)]
  BY <1>3 DEF Take, TypeInv, TypeOK
<1>5. [inbox EXCEPT ![x] = << >>] \in [Sides -> Seq(Frame)]
  BY <1>2 DEF TypeInv, TypeOK
<1> QED BY <1>3, <1>4, <1>5 DEF Next_

LEMMA TypeWrite ==
    ASSUME TypeInv, NEW x \in Sides, NEW type \in {"resume", "join", "offer", "version", "ready"},
           NEW v \in {0, PageVersion, ProtocolVersion}, Write(x, type, v)
    PROVE  outbox' \in [Conn -> Seq(Frame)]
<1> DEFINE f == [type |-> type, of |-> start[x], v |-> v, late |-> FALSE]
<1>1. f \in Frame
  BY DEF TypeInv, TypeOK, Frame
<1>2. CASE Me(x) \in room
  <2>1. Me(x) \in Conn /\ outbox[Me(x)] \in Seq(Frame)
    BY <1>2 DEF TypeInv, TypeOK
  <2>2. Append(outbox[Me(x)], f) \in Seq(Frame)
    BY <1>1, <2>1, ElemsAppend
  <2> QED BY <1>2, <2>1, <2>2 DEF Write, TypeInv, TypeOK
<1>3. CASE Me(x) \notin room
  BY <1>3 DEF Write, TypeInv, TypeOK
<1> QED BY <1>2, <1>3

LEMMA TypeStart ==
    ASSUME TypeInv, NEW x \in Sides, NEW k \in Kinds, NEW r \in BOOLEAN, StartProgram(x, k, r)
    PROVE  TypeInv'
<1>1. start[x] \in Nat /\ start[x] + 1 <= MaxStarts[x] /\ start[x] + 1 \in Nat
  BY Numbers, SMTT(30) DEF TypeInv, TypeOK, StartProgram
<1>2. start[x] + 1 \in Start /\ <<x, start[x] + 1>> \in Conn
  BY <1>1, Numbers, SMT
<1>3. start' \in [Sides -> Start] /\ \A y \in Sides : start'[y] <= MaxStarts[y]
  BY <1>1, <1>2 DEF TypeInv, TypeOK, StartProgram
<1>4. k \in {"cli", "page"}
  BY ProgramsAssumption
<1>5. mode \in {"live", "announced"}
  BY ProgramsAssumption DEF TypeInv, TypeOK
<1>6. FirstState(x) \in IF x = "S" THEN SenderStates ELSE ReceiverStates
  BY <1>5 DEF FirstState, SenderStates, ReceiverStates, Sides
<1>7. "gone" \in IF x = "S" THEN SenderStates ELSE ReceiverStates
  BY DEF SenderStates, ReceiverStates
<1>8. /\ DOMAIN pc' = Sides /\ pc'["S"] \in SenderStates /\ pc'["R"] \in ReceiverStates
      /\ waited' \in [Sides -> Nat]
  BY <1>6, <1>7, TypeMove DEF StartProgram
<1>9. /\ room' \subseteq Conn /\ IsFiniteSet(room') /\ Cardinality(room') <= 2 /\ quiet' \in Nat
  <2>1. CASE HasPlace
    <3>1. room' = room \cup {<<x, start[x] + 1>>} /\ quiet' = 0
      BY <2>1 DEF StartProgram
    <3>2. IsFiniteSet(room) /\ Cardinality(room) < 2 /\ room \subseteq Conn /\ Cardinality(room) \in Nat
      BY <2>1, FS_CardinalityType DEF HasPlace, TypeInv, TypeOK
    <3>3. IsFiniteSet(room') /\ (Cardinality(room') = Cardinality(room) \/ Cardinality(room') = Cardinality(room) + 1)
      BY <3>1, <3>2, FS_AddElement
    <3> QED BY <1>2, <3>1, <3>2, <3>3
  <2>2. CASE ~HasPlace
    BY <2>2 DEF StartProgram, Refused, TypeInv, TypeOK
  <2> QED BY <2>1, <2>2
<1>10. pending' \in Frame \cup {NoFrame} /\ peer' \in [Sides -> Frame \cup {NoFrame}]
  BY DEF TypeInv, TypeOK, StartProgram
<1>11. resumes' \in BOOLEAN /\ kind' \in [Sides -> {"cli", "page"}]
  BY <1>4 DEF TypeInv, TypeOK, StartProgram
<1> QED BY <1>3, <1>8, <1>9, <1>10, <1>11 DEF TypeInv, TypeOK, StartProgram

LEMMA TypeReads ==
    ASSUME TypeInv,
           \/ \E x \in Sides : Ends(x) \/ Skips(x)
           \/ Keeps \/ Joined \/ GotReady \/ GotOffer \/ GotOfferAgain \/ Answers
    PROVE  TypeInv'
<1> USE DEF progVars, roomVars
<1>0. "S" \in Sides /\ "R" \in Sides
  BY DEF Sides
<1>1. ASSUME NEW x \in Sides, Ends(x) PROVE TypeInv'
  <2>1. "gone" \in IF x = "S" THEN SenderStates ELSE ReceiverStates
    BY DEF SenderStates, ReceiverStates
  <2>2. Goto(x, "gone") /\ inbox' = [inbox EXCEPT ![x] = << >>]
    BY <1>1 DEF Ends, End
  <2>3. << >> \in Seq(Frame)
    BY EmptySeq
  <2>4. inbox' \in [Sides -> Seq(Frame)]
    BY <2>2, <2>3 DEF TypeInv, TypeOK
  <2>5. /\ DOMAIN pc' = Sides /\ pc'["S"] \in SenderStates /\ pc'["R"] \in ReceiverStates
        /\ waited' \in [Sides -> Nat]
    BY <2>1, <2>2, TypeMove
  <2> QED BY <1>1, <2>4, <2>5 DEF Ends, TypeInv, TypeOK
<1>2. ASSUME NEW x \in Sides, Skips(x) PROVE TypeInv'
  BY <1>2, TypeTake DEF Skips, TypeInv, TypeOK
<1>3. CASE Keeps
  BY <1>0, <1>3, TypeTake DEF Keeps, TypeInv, TypeOK
<1>4. ASSUME NEW x \in Sides, NEW type, NEW from, NEW to, Meets(x, type, from, to),
             to \in IF x = "S" THEN SenderStates ELSE ReceiverStates
      PROVE  TypeInv'
  <2>1. Next_(x) \in Frame /\ inbox' \in [Sides -> Seq(Frame)]
    BY <1>4, TypeTake DEF Meets
  <2>2. /\ DOMAIN pc' = Sides /\ pc'["S"] \in SenderStates /\ pc'["R"] \in ReceiverStates
        /\ waited' \in [Sides -> Nat]
    BY <1>4, TypeMove DEF Meets
  <2> QED BY <1>4, <2>1, <2>2 DEF Meets, TypeInv, TypeOK
<1>5. CASE Joined
  BY <1>0, <1>4, <1>5 DEF Joined, SenderStates
<1>6. CASE GotReady
  BY <1>0, <1>4, <1>6 DEF GotReady, SenderStates
<1>7. CASE GotOffer
  BY <1>0, <1>4, <1>7 DEF GotOffer, ReceiverStates
<1>8. CASE GotOfferAgain
  <2>1. /\ DOMAIN pc' = Sides /\ pc'["S"] \in SenderStates /\ pc'["R"] \in ReceiverStates
        /\ waited' \in [Sides -> Nat]
    BY <1>0, <1>8, TypeMove DEF GotOfferAgain, ReceiverStates
  <2>2. << >> \in Seq(Frame)
    BY EmptySeq
  <2>3. inbox' \in [Sides -> Seq(Frame)]
    BY <1>0, <1>8, <2>2 DEF GotOfferAgain, TypeInv, TypeOK
  <2> QED BY <1>8, <2>1, <2>3 DEF GotOfferAgain, TypeInv, TypeOK
<1>9. CASE Answers
  <2>1. /\ DOMAIN pc' = Sides /\ pc'["S"] \in SenderStates /\ pc'["R"] \in ReceiverStates
        /\ waited' \in [Sides -> Nat]
    BY <1>0, <1>9, TypeMove DEF Answers, ReceiverStates
  <2>2. Next_("R") \in Frame /\ inbox' \in [Sides -> Seq(Frame)]
    BY <1>0, <1>9, TypeTake DEF Answers
  <2>3. outbox' \in [Conn -> Seq(Frame)]
    BY <1>0, <1>9, TypeWrite DEF Answers
  <2> QED BY <1>9, <2>1, <2>2, <2>3 DEF Answers, TypeInv, TypeOK
<1> QED BY <1>1, <1>2, <1>3, <1>5, <1>6, <1>7, <1>8, <1>9

LEMMA TypeSays ==
    ASSUME TypeInv, Choose \/ SendOffer \/ SendResume \/ SendJoin \/ SendVersion
    PROVE  TypeInv'
<1> USE DEF progVars, roomVars
<1>0. "S" \in Sides /\ "R" \in Sides
  BY DEF Sides
<1>1. PICK x \in Sides, l \in SenderStates \cup ReceiverStates :
         Goto(x, l) /\ l \in IF x = "S" THEN SenderStates ELSE ReceiverStates
  BY <1>0 DEF Choose, SendOffer, SendResume, SendJoin, SendVersion, SenderStates, ReceiverStates
<1>2. /\ DOMAIN pc' = Sides /\ pc'["S"] \in SenderStates /\ pc'["R"] \in ReceiverStates
      /\ waited' \in [Sides -> Nat]
  BY <1>1, TypeMove
<1>3. Version("S") \in {0, PageVersion, ProtocolVersion}
  BY DEF Version
<1>4. outbox' \in [Conn -> Seq(Frame)]
  BY <1>0, <1>3, TypeWrite DEF Choose, SendOffer, SendResume, SendJoin, SendVersion, TypeInv, TypeOK
<1> QED BY <1>2, <1>4 DEF Choose, SendOffer, SendResume, SendJoin, SendVersion, TypeInv, TypeOK

LEMMA TypeRelay ==
    ASSUME TypeInv,
           \/ \E c \in Conn : Relay(c) \/ DropFrames(c) \/ RemoveClient(c)
           \/ Cleanup \/ RelayRestarts \/ Minute
    PROVE  TypeInv'
<1> USE DEF progVars, roomVars
<1>1. ASSUME NEW c \in Conn, Relay(c) PROVE TypeInv'
  <2>1. /\ outbox[c] \in Seq(Frame) /\ outbox[c] # << >>
    BY <1>1 DEF Relay, TypeInv, TypeOK
  <2>2. Head(outbox[c]) \in Frame /\ Tail(outbox[c]) \in Seq(Frame)
    BY <2>1, ElemsHeadTail
  <2> DEFINE m == [Head(outbox[c]) EXCEPT !.late = c \notin room]
  <2>3. m \in Frame
    BY <2>2, Frames
  <2>4. \A x \in Sides : inbox[x] \in Seq(Frame)
    BY DEF TypeInv, TypeOK
  <2>5. \A x \in Sides : Append(inbox[x], m) \in Seq(Frame)
    BY <2>3, <2>4, ElemsAppend
  <2>6. inbox' \in [Sides -> Seq(Frame)]
    BY <1>1, <2>4, <2>5 DEF Relay
  <2>7. outbox' \in [Conn -> Seq(Frame)]
    BY <1>1, <2>2 DEF Relay, TypeInv, TypeOK
  <2> QED BY <1>1, <2>6, <2>7 DEF Relay, TypeInv, TypeOK
<1>2. ASSUME NEW c \in Conn, DropFrames(c) PROVE TypeInv'
  <2>1. << >> \in Seq(Frame)
    BY EmptySeq
  <2> QED BY <1>2, <2>1 DEF DropFrames, TypeInv, TypeOK
<1>3. IsFiniteSet({}) /\ Cardinality({}) = 0
  BY FS_EmptySet
<1>4. CASE \E c \in Conn : RemoveClient(c)
  BY <1>3, <1>4 DEF RemoveClient, Remaining, TypeInv, TypeOK
<1>5. CASE Cleanup
  BY <1>3, <1>5 DEF Cleanup, TypeInv, TypeOK
<1>6. CASE RelayRestarts
  <2>1. << >> \in Seq(Frame)
    BY EmptySeq
  <2> QED BY <1>3, <1>6, <2>1 DEF RelayRestarts, TypeInv, TypeOK
<1>7. CASE Minute
  <2>1. quiet' \in Nat /\ waited' \in [Sides -> Nat]
    BY <1>7 DEF Minute, TypeInv, TypeOK
  <2> QED BY <1>7, <2>1 DEF Minute, TypeInv, TypeOK
<1> QED BY <1>1, <1>2, <1>4, <1>5, <1>6, <1>7

LEMMA TypeNext == TypeInv /\ [Next]_vars => TypeInv'
<1> SUFFICES ASSUME TypeInv, [Next]_vars PROVE TypeInv'
  OBVIOUS
<1>1. CASE UNCHANGED vars
  BY <1>1 DEF vars, progVars, roomVars, TypeInv, TypeOK
<1> QED BY <1>1, Steps, TypeStart, TypeReads, TypeSays, TypeRelay

(* Every variable keeps its shape, and a room never lists a third client,   *)
(* however often the programs are started and the relay with them.          *)
THEOREM TypeCorrect == Spec => []TypeOK
<1>1. TypeInv => TypeOK
  BY DEF TypeInv
<1> QED BY <1>1, TypeInit, TypeNext, PTL DEF Spec

-----------------------------------------------------------------------------
(* Which states belong to which way of meeting.                             *)

ModeInv ==
    /\ pc["S"] = "waiting" => mode = "live"
    /\ pc["S"] \in {"announcing", "await"} => mode = "announced"
    /\ pc["R"] \in {"joining", "resumed"} => mode = "live"
    /\ pc["R"] = "version" => mode = "announced"
    /\ mode = "announced" => kind["R"] = "cli" /\ pending = NoFrame
    /\ \A x \in Sides : ~Running(x) => inbox[x] = << >>

LEMMA ModeInit == Init => ModeInv
BY DEF Init, ModeInv, Sides

LEMMA ModeReads ==
    ASSUME TypeInv, ModeInv,
           \/ \E x \in Sides : Ends(x) \/ Skips(x)
           \/ Keeps \/ Joined \/ GotReady \/ GotOffer \/ GotOfferAgain \/ Answers
    PROVE  ModeInv'
<1> USE DEF progVars, roomVars, Goto, Sides
<1>0. /\ "S" \in Sides /\ "R" \in Sides /\ DOMAIN pc = Sides /\ mode \in {"live", "announced"}
      /\ inbox \in [Sides -> Seq(Frame)]
  BY ProgramsAssumption DEF TypeInv, TypeOK
<1>1. ASSUME NEW x \in Sides, Ends(x) PROVE ModeInv'
  BY <1>0, <1>1 DEF Ends, End, ModeInv, Running
<1>2. ASSUME NEW x \in Sides, Skips(x) PROVE ModeInv'
  BY <1>0, <1>2 DEF Skips, Take, ModeInv, Running
<1>3. CASE Keeps
  BY <1>0, <1>3 DEF Keeps, Take, ModeInv, Running
<1>4. CASE Joined
  BY <1>0, <1>4 DEF Joined, Meets, ModeInv, Running
<1>5. CASE GotReady \/ GotOffer \/ GotOfferAgain
  BY <1>0, <1>5 DEF GotReady, GotOffer, GotOfferAgain, Meets, ModeInv, Running
<1>6. CASE Answers
  BY <1>0, <1>6 DEF Answers, Take, ModeInv, Running
<1> QED BY <1>1, <1>2, <1>3, <1>4, <1>5, <1>6

LEMMA ModeOthers ==
    ASSUME TypeInv, ModeInv,
           \/ \E x \in Sides, k \in Kinds, r \in BOOLEAN : StartProgram(x, k, r)
           \/ Choose \/ SendOffer \/ SendResume \/ SendJoin \/ SendVersion
           \/ \E c \in Conn : Relay(c) \/ DropFrames(c) \/ RemoveClient(c)
           \/ Cleanup \/ RelayRestarts \/ Minute
    PROVE  ModeInv'
<1> USE DEF progVars, roomVars, Goto, Sides
<1>0. /\ "S" \in Sides /\ "R" \in Sides /\ DOMAIN pc = Sides /\ mode \in {"live", "announced"}
      /\ kind \in [Sides -> {"cli", "page"}]
  BY ProgramsAssumption DEF TypeInv, TypeOK
<1>1. ASSUME NEW x \in Sides, NEW k \in Kinds, NEW r \in BOOLEAN, StartProgram(x, k, r)
      PROVE  ModeInv'
  <2>1. kind' = [kind EXCEPT ![x] = k] /\ (k = "cli" \/ mode = "live" \/ x = "S")
    BY <1>1 DEF StartProgram
  <2>2. pending' \in {pending, NoFrame} /\ mode' = mode /\ inbox' = inbox /\ ~Running(x)
    BY <1>1 DEF StartProgram
  <2>3. \/ pc' = [pc EXCEPT ![x] = "gone"] \/ pc' = [pc EXCEPT ![x] = FirstState(x)]
    BY <1>1 DEF StartProgram
  <2> QED BY <1>0, <2>1, <2>2, <2>3 DEF FirstState, ModeInv, Running
<1>2. CASE Choose \/ SendOffer \/ SendResume \/ SendJoin \/ SendVersion
  BY <1>0, <1>2 DEF Choose, SendOffer, SendResume, SendJoin, SendVersion, ModeInv, Running
<1>3. ASSUME NEW c \in Conn, Relay(c) PROVE ModeInv'
  BY <1>3 DEF Relay, Reading, ModeInv, Running
<1>4. CASE \/ \E c \in Conn : DropFrames(c) \/ RemoveClient(c)
           \/ Cleanup \/ RelayRestarts \/ Minute
  BY <1>4 DEF DropFrames, RemoveClient, Cleanup, RelayRestarts, Minute, ModeInv, Running
<1> QED BY <1>1, <1>2, <1>3, <1>4

LEMMA ModeNext == TypeInv /\ ModeInv /\ [Next]_vars => ModeInv'
<1> SUFFICES ASSUME TypeInv, ModeInv, [Next]_vars PROVE ModeInv'
  OBVIOUS
<1>1. CASE UNCHANGED vars
  BY <1>1 DEF vars, progVars, ModeInv, Running
<1> QED BY <1>1, Steps, ModeReads, ModeOthers

-----------------------------------------------------------------------------
(* The sender's wait.                                                       *)

Underway == \E c \in Conn : outbox[c] # << >>

(* The room's clock starts anew only when a client joins, and one that      *)
(* joins a waiting sender fills the room, or when a frame is relayed, which *)
(* only such a client can have written.  So while the sender is alone it    *)
(* has waited no longer than the room has been quiet, and that, at most one *)
(* idle limit, is all that a newcomer can add to.                           *)
WaitInv ==
    /\ quiet <= IdleLimit + 1
    /\ pc["S"] # "waiting" => waited["S"] = 0
    /\ waited["S"] <= 2 * (IdleLimit + 1)
    /\ pc["S"] = "waiting" /\ Me("S") \in room =>
          /\ waited["S"] <= quiet + IdleLimit + 1
          /\ room = {Me("S")} => waited["S"] <= quiet
          /\ Underway \/ pc["R"] \in {"joining", "resumed"} => waited["S"] <= IdleLimit + 1
          /\ room = {Me("S")} /\ Underway => waited["S"] = 0

LEMMA WaitInit == Init => WaitInv
BY TimesAssumption, SMT DEF Init, WaitInv, Sides

(* Steps that leave the sender where it is, the room and both clocks.       *)
LEMMA WaitSame ==
    ASSUME WaitInv, UNCHANGED <<start, room, quiet>>,
           pc'["S"] = pc["S"], waited'["S"] = waited["S"],
           pc'["R"] = pc["R"] \/ pc'["R"] \notin {"joining", "resumed"},
           Underway' => Underway
    PROVE  WaitInv'
BY DEF WaitInv, Me

(* Steps that take the sender elsewhere.                                    *)
LEMMA WaitOver ==
    ASSUME WaitInv, quiet' <= IdleLimit + 1, waited'["S"] = 0, pc'["S"] # "waiting"
    PROVE  WaitInv'
BY TimesAssumption, SMT DEF WaitInv

LEMMA WaitReads ==
    ASSUME TypeInv, ModeInv, WaitInv,
           \/ \E x \in Sides : Ends(x) \/ Skips(x)
           \/ Keeps \/ Joined \/ GotReady \/ GotOffer \/ GotOfferAgain
    PROVE  WaitInv'
<1> USE DEF progVars, roomVars, Goto
<1>0. /\ "S" \in Sides /\ "R" \in Sides /\ "S" # "R" /\ Sides = {"S", "R"}
      /\ DOMAIN pc = Sides /\ DOMAIN waited = Sides /\ quiet <= IdleLimit + 1
  BY DEF TypeInv, TypeOK, Sides, WaitInv
<1>1. UNCHANGED <<start, room, quiet>> /\ (Underway' => Underway)
  BY DEF Ends, Skips, Keeps, Joined, GotReady, GotOffer, GotOfferAgain, Meets, Underway
<1>2. ASSUME NEW l, Goto("S", l), l # "waiting" PROVE WaitInv'
  BY <1>0, <1>1, <1>2, WaitOver
<1>3. ASSUME NEW l, Goto("R", l), l \notin {"joining", "resumed"} PROVE WaitInv'
  BY <1>0, <1>1, <1>3, WaitSame
<1>4. ASSUME UNCHANGED <<pc, waited>> PROVE WaitInv'
  BY <1>1, <1>4, WaitSame
<1>5. CASE \E x \in Sides : Ends(x)
  BY <1>0, <1>2, <1>3, <1>5 DEF Ends, End
<1>6. CASE (\E x \in Sides : Skips(x)) \/ Keeps
  BY <1>4, <1>6 DEF Skips, Keeps
<1>7. CASE Joined \/ GotReady \/ GotOffer \/ GotOfferAgain
  BY <1>2, <1>3, <1>7, ZenonT(40) DEF Joined, GotReady, GotOffer, GotOfferAgain, Meets
<1> QED BY <1>5, <1>6, <1>7

LEMMA WaitSays ==
    ASSUME TypeInv, ModeInv, WaitInv,
           Answers \/ Choose \/ SendOffer \/ SendResume \/ SendJoin \/ SendVersion
    PROVE  WaitInv'
<1> USE DEF progVars, roomVars, Goto
<1>0. /\ "S" \in Sides /\ "R" \in Sides /\ "S" # "R" /\ Sides = {"S", "R"}
      /\ DOMAIN pc = Sides /\ DOMAIN waited = Sides /\ quiet <= IdleLimit + 1
  BY DEF TypeInv, TypeOK, Sides, WaitInv
<1>1. CASE Choose \/ SendOffer \/ SendVersion
  BY <1>0, <1>1, WaitOver DEF Choose, SendOffer, SendVersion
<1>2. CASE Answers
  <2>1. pc["S"] # "waiting" /\ UNCHANGED <<start, room, quiet>>
    BY <1>2 DEF Answers, ModeInv
  <2>2. pc'["S"] = pc["S"] /\ waited'["S"] = waited["S"]
    BY <1>0, <1>2 DEF Answers
  <2> QED BY <1>0, <2>1, <2>2, WaitOver DEF WaitInv
<1>3. CASE SendResume \/ SendJoin
  <2>1. /\ UNCHANGED <<start, room, quiet>> /\ pc'["S"] = pc["S"] /\ waited'["S"] = waited["S"]
        /\ pc["R"] \in {"joining", "resumed"} /\ resumes \in BOOLEAN
    BY <1>0, <1>3 DEF SendResume, SendJoin, TypeInv, TypeOK
  <2>2. Me("R") \notin room => outbox' = outbox
    BY <1>3 DEF SendResume, SendJoin, Write
  <2>3. Me("R") # Me("S")
    BY DEF Me
  <2>4. room = {Me("S")} => (Underway' => Underway)
    BY <2>2, <2>3 DEF Underway
  <2> QED BY <2>1, <2>4 DEF WaitInv, Me
<1> QED BY <1>1, <1>2, <1>3

LEMMA WaitStart ==
    ASSUME TypeInv, ModeInv, WaitInv,
           NEW x \in Sides, NEW k \in Kinds, NEW r \in BOOLEAN, StartProgram(x, k, r)
    PROVE  WaitInv'
<1> USE DEF Goto
<1>0. /\ "S" \in Sides /\ "R" \in Sides /\ "S" # "R" /\ Sides = {"S", "R"}
      /\ DOMAIN pc = Sides /\ DOMAIN waited = Sides
      /\ quiet \in Nat /\ IdleLimit \in Nat /\ waited["S"] \in Nat /\ start \in [Sides -> Start]
  BY TimesAssumption DEF TypeInv, TypeOK, Sides
<1>1. quiet' \in {0, quiet} /\ quiet' <= IdleLimit + 1
  BY <1>0, SMT DEF StartProgram, Refused, WaitInv
<1>2. CASE x = "S"
  <2>1. waited'["S"] = 0
    BY <1>0, <1>2 DEF StartProgram
  <2>0. quiet' \in Nat /\ IdleLimit \in Nat
    BY <1>0, <1>1
  <2>2. /\ 0 <= IdleLimit + 1 /\ 0 <= 2 * (IdleLimit + 1)
        /\ 0 <= quiet' + IdleLimit + 1 /\ 0 <= quiet'
    <3>1. \A i, q \in Nat : /\ 0 <= i + 1 /\ 0 <= 2 * (i + 1)
                            /\ 0 <= q + i + 1 /\ 0 <= q
      BY SMT
    <3> QED BY <2>0, <3>1
  <2> QED BY <1>1, <2>1, <2>2 DEF WaitInv
<1>3. CASE x = "R"
  <2>1. pc'["S"] = pc["S"] /\ waited'["S"] = waited["S"] /\ start'["S"] = start["S"]
        /\ outbox' = outbox
    BY <1>0, <1>3 DEF StartProgram
  <2>2. CASE ~HasPlace
    <3>1. UNCHANGED <<room, quiet>> /\ pc'["R"] = "gone"
      BY <1>0, <1>3, <2>2 DEF StartProgram, Refused
    <3> QED BY <2>1, <3>1 DEF WaitInv, Me, Underway
  <2>3. CASE HasPlace
    <3>1. room' = room \cup {<<"R", start["R"] + 1>>} /\ quiet' = 0
      BY <1>3, <2>3 DEF StartProgram
    <3>2. Me("S")' = Me("S") /\ Me("S") # <<"R", start["R"] + 1>>
      BY <2>1 DEF Me
    <3>3. CASE pc["S"] = "waiting" /\ Me("S") \in room
      <4>1. room = {Me("S")}
        BY <2>3, <3>3, RoomForOne DEF HasPlace, TypeInv
      <4>2. waited["S"] <= quiet /\ quiet <= IdleLimit + 1
        BY <3>3, <4>1 DEF WaitInv
      <4>3. waited["S"] <= IdleLimit + 1
        BY <1>0, <4>2, SMT
      <4>4. <<"R", start["R"] + 1>> \in room' /\ <<"R", start["R"] + 1>> # Me("S")
        BY <3>1, <3>2
      <4>5. room' # {Me("S")}
        BY <4>4
      <4> QED BY <1>0, <1>1, <2>1, <3>1, <3>2, <4>3, <4>5, SMT DEF WaitInv
    <3>4. CASE pc["S"] # "waiting" \/ Me("S") \notin room
      <4>1. pc'["S"] # "waiting" \/ Me("S")' \notin room'
        BY <2>1, <3>1, <3>2, <3>4
      <4> QED BY <1>1, <2>1, <4>1 DEF WaitInv
    <3> QED BY <3>3, <3>4
  <2> QED BY <2>2, <2>3
<1> QED BY <1>0, <1>2, <1>3

LEMMA WaitRelay ==
    ASSUME TypeInv, WaitInv,
           \/ \E c \in Conn : Relay(c) \/ DropFrames(c) \/ RemoveClient(c)
           \/ Cleanup \/ RelayRestarts \/ Minute
    PROVE  WaitInv'
<1> USE DEF progVars, roomVars
<1>0. /\ "S" \in Sides /\ "R" \in Sides
      /\ quiet \in Nat /\ IdleLimit \in Nat /\ waited["S"] \in Nat
      /\ pc["S"] # "version"
  BY TimesAssumption DEF TypeInv, TypeOK, Sides, SenderStates
<1>1. ASSUME NEW c \in Conn, Relay(c) PROVE WaitInv'
  <2>1. Underway /\ quiet' = 0 /\ UNCHANGED <<start, pc, waited, room>>
    BY <1>1 DEF Relay, Underway
  <2> QED BY <1>0, <2>1, SMT DEF WaitInv, Me
<1>2. ASSUME NEW c \in Conn, DropFrames(c) PROVE WaitInv'
  <2>1. Underway /\ UNCHANGED <<start, pc, waited, room, quiet>>
    BY <1>2 DEF DropFrames, Underway
  <2> QED BY <2>1, WaitSame
<1>3. CASE (\E c \in Conn : RemoveClient(c)) \/ Cleanup \/ RelayRestarts
  <2>1. room' = {} /\ UNCHANGED <<pc, waited, quiet>>
    BY <1>3 DEF RemoveClient, Remaining, Cleanup, RelayRestarts
  <2> QED BY <2>1 DEF WaitInv
<1>4. CASE Minute
  <2>1. /\ UNCHANGED <<start, pc, room, outbox>> /\ quiet' = quiet + 1 /\ quiet <= IdleLimit
        /\ ~Underway /\ pc["R"] \notin {"joining", "resumed"}
    BY <1>0, <1>4 DEF Minute, Underway, Brief
  <2>2. waited'["S"] \in {waited["S"], waited["S"] + 1} /\ (pc["S"] # "waiting" => waited'["S"] = waited["S"])
    BY <1>0, <1>4 DEF Minute, Timed
  <2>3. pc["S"] = "waiting" => Me("S") \in room
    BY <1>0, <1>4 DEF Minute, Brief, Connected, Running, Heeds
  <2>4. ~Underway' /\ Me("S")' = Me("S")
    BY <2>1 DEF Underway, Me
  <2> QED BY <1>0, <2>1, <2>2, <2>3, <2>4, SMT DEF WaitInv
<1> QED BY <1>1, <1>2, <1>3, <1>4

LEMMA WaitNext == TypeInv /\ ModeInv /\ WaitInv /\ [Next]_vars => WaitInv'
<1> SUFFICES ASSUME TypeInv, ModeInv, WaitInv, [Next]_vars PROVE WaitInv'
  OBVIOUS
<1>1. CASE UNCHANGED vars
  BY <1>1 DEF vars, progVars, roomVars, WaitInv, Me, Underway
<1> QED BY <1>1, Steps, WaitReads, WaitSays, WaitStart, WaitRelay

(* WaitForPeer's own limit is never reached: for any limits that are as far *)
(* apart as the code's, the relay has closed the room before, whoever joins *)
(* the sender, is refused, leaves or vanishes.                              *)
THEOREM RelayEnds == Spec => []RelayEndsTheWait
<1>1. TypeInv /\ WaitInv => RelayEndsTheWait
  BY TimesAssumption, SMT DEF TypeInv, TypeOK, Sides, WaitInv, RelayEndsTheWait
<1> QED
  BY <1>1, TypeInit, TypeNext, ModeInit, ModeNext, WaitInit, WaitNext, PTL DEF Spec

-----------------------------------------------------------------------------
(* Resume requests.                                                         *)

(* What the sender knows or has still to read of receivers that had their   *)
(* place in the room when the relay passed it on.                           *)
Marks == {f \in Elems(inbox["S"]) \cup {pending} : f.type \in {"resume", "join"} /\ ~f.late}

(* A room of two: while the sender is in it there is one receiver that all  *)
(* of them are from, and once it has left there is nothing new.             *)
ResumeInv ==
    /\ \A c \in Conn : \A f \in Elems(outbox[c]) :
          f.of = c[2] /\ (f.type \in {"resume", "join"} => c[1] = "R")
    /\ \A f, g \in Marks : f.of = g.of
    /\ Running("S") /\ Me("S") \in room => \A f \in Marks : <<"R", f.of>> \in room
    /\ pending # NoFrame => pending.type = "resume"
    /\ ResumeIsPeers

LEMMA ResumeInit == Init => ResumeInv
<1> SUFFICES ASSUME Init PROVE ResumeInv
  OBVIOUS
<1>1. Marks = {}
  BY ElemsEmpty DEF Init, Marks, NoFrame, Sides
<1>2. \A c \in Conn : Elems(outbox[c]) = {}
  BY ElemsEmpty DEF Init
<1> QED BY <1>1, <1>2 DEF Init, ResumeInv, ResumeIsPeers

(* Steps by which nothing gets to the sender.                               *)
LEMMA ResumeSame ==
    ASSUME ResumeInv, start'["S"] = start["S"], Marks' \subseteq Marks, room \subseteq room',
           Running("S")' => Running("S"),
           Me("S") \in room' => Me("S") \in room,
           \A c \in Conn : \A f \in Elems(outbox'[c]) :
              f.of = c[2] /\ (f.type \in {"resume", "join"} => c[1] = "R"),
           pending' # NoFrame => pending'.type = "resume",
           ResumeIsPeers'
    PROVE  ResumeInv'
BY DEF ResumeInv, Me

(* What a program writes is from it.                                        *)
LEMMA WritesOwn ==
    ASSUME TypeInv, NEW x \in Sides, NEW type, NEW v, Write(x, type, v),
           type \in {"resume", "join", "offer", "version", "ready"},
           v \in {0, PageVersion, ProtocolVersion},
           NEW c \in Conn, NEW f \in Elems(outbox'[c])
    PROVE  \/ f \in Elems(outbox[c])
           \/ c = Me(x) /\ f = [type |-> type, of |-> start[x], v |-> v, late |-> FALSE]
<1> DEFINE n == [type |-> type, of |-> start[x], v |-> v, late |-> FALSE]
<1>1. outbox \in [Conn -> Seq(Frame)] /\ n \in Frame
  BY DEF TypeInv, TypeOK, Frame
<1>2. CASE c = Me(x) /\ Me(x) \in room
  <2>1. outbox'[c] = Append(outbox[c], n)
    BY <1>1, <1>2 DEF Write
  <2>2. outbox[c] \in Seq(Frame)
    BY <1>1
  <2> HIDE DEF n
  <2>3. Elems(Append(outbox[c], n)) = Elems(outbox[c]) \cup {n}
    BY <1>1, <2>2, ElemsAppend
  <2>4. f = n \/ f \in Elems(outbox[c])
    BY <2>1, <2>3
  <2> QED BY <1>2, <2>4 DEF n
<1>3. CASE ~(c = Me(x) /\ Me(x) \in room)
  BY <1>1, <1>3 DEF Write
<1> QED BY <1>2, <1>3

LEMMA TakesLess ==
    ASSUME TypeInv, NEW x \in Sides, inbox[x] # << >>, Take(x), NEW y \in Sides
    PROVE  Elems(inbox'[y]) \subseteq Elems(inbox[y])
<1>1. inbox \in [Sides -> Seq(Frame)]
  BY DEF TypeInv, TypeOK
<1>2. Elems(Tail(inbox[x])) \subseteq Elems(inbox[x])
  BY <1>1, ElemsHeadTail
<1> QED BY <1>1, <1>2 DEF Take

LEMMA Clears ==
    ASSUME TypeInv, NEW x \in Sides, inbox' = [inbox EXCEPT ![x] = << >>], NEW y \in Sides
    PROVE  Elems(inbox'[y]) \subseteq Elems(inbox[y])
BY ElemsEmpty DEF TypeInv, TypeOK

LEMMA ResumeReads ==
    ASSUME TypeInv, ModeInv, ResumeInv,
           \/ \E x \in Sides : Ends(x) \/ Skips(x)
           \/ Keeps \/ Joined \/ GotReady \/ GotOffer \/ GotOfferAgain \/ Answers
    PROVE  ResumeInv'
<1> USE DEF progVars, roomVars, Goto
<1>0. /\ "S" \in Sides /\ "R" \in Sides /\ "S" # "R" /\ Sides = {"S", "R"}
      /\ DOMAIN pc = Sides /\ DOMAIN peer = Sides
  BY DEF TypeInv, TypeOK, Sides
<1>1. ASSUME NEW y \in Sides PROVE Elems(inbox'[y]) \subseteq Elems(inbox[y])
  <2>1. PICK x \in Sides : \/ inbox[x] # << >> /\ Take(x)
                           \/ inbox' = [inbox EXCEPT ![x] = << >>]
    BY <1>0
    DEF Ends, End, Skips, Keeps, Joined, GotReady, GotOffer, GotOfferAgain, Meets, Answers
  <2> QED BY <2>1, TakesLess, Clears
<1>2. UNCHANGED <<start, room>>
  BY DEF Ends, Skips, Keeps, Joined, GotReady, GotOffer, GotOfferAgain, Meets, Answers
<1>3. Running("S")' => Running("S")
  BY <1>0 DEF Ends, End, Skips, Keeps, Joined, GotReady, GotOffer, GotOfferAgain, Meets, Answers, Running
<1>4. \A c \in Conn : \A f \in Elems(outbox'[c]) :
          f.of = c[2] /\ (f.type \in {"resume", "join"} => c[1] = "R")
  <2>1. CASE Answers
    BY <1>0, <2>1, WritesOwn DEF Answers, ResumeInv, Me
  <2>2. CASE ~Answers
    BY <2>2 DEF Ends, Skips, Keeps, Joined, GotReady, GotOffer, GotOfferAgain, Meets, ResumeInv
  <2> QED BY <2>1, <2>2
<1>5. CASE Keeps
  <2>1. Next_("S") \in Elems(inbox["S"]) /\ pending' = Next_("S") /\ pending'.type = "resume"
    BY <1>0, <1>5, TypeTake DEF Keeps
  <2>2. Marks' \subseteq Marks
    BY <1>0, <1>1, <2>1 DEF Marks
  <2>3. ResumeIsPeers'
    BY <1>5 DEF Keeps, ResumeIsPeers, InSession
  <2> QED BY <1>2, <1>3, <1>4, <2>1, <2>2, <2>3, ResumeSame, Zenon
<1>6. CASE Joined
  <2>1. Next_("S") \in Elems(inbox["S"]) /\ Next_("S").type = "join" /\ peer'["S"] = Next_("S")
        /\ pending' = pending
    BY <1>0, <1>6, TypeTake DEF Joined, Meets
  <2>2. Marks' \subseteq Marks
    BY <1>0, <1>1, <2>1 DEF Marks
  <2>3. pending # NoFrame => pending.of = Next_("S").of \/ pending.late \/ Next_("S").late
    BY <2>1 DEF ResumeInv, Marks
  <2>4. ResumeIsPeers'
    BY <2>1, <2>3 DEF ResumeIsPeers
  <2>5. pending' # NoFrame => pending'.type = "resume"
    BY <2>1 DEF ResumeInv
  <2> QED BY <1>2, <1>3, <1>4, <2>2, <2>4, <2>5, ResumeSame, Zenon
<1>7. CASE ~Keeps /\ ~Joined
  <2>1. pending' = pending
    BY <1>7 DEF Ends, Skips, GotReady, GotOffer, GotOfferAgain, Meets, Answers
  <2>2. Marks' \subseteq Marks
    BY <1>0, <1>1, <2>1 DEF Marks
  <2>3. ResumeIsPeers'
    <3>1. CASE GotReady
      BY <3>1, <2>1 DEF GotReady, Meets, ModeInv, ResumeIsPeers
    <3>2. CASE ~GotReady
      <4>1. peer'["S"] = peer["S"] /\ (InSession("S")' => InSession("S"))
        BY <1>0, <1>7, <3>2
        DEF Ends, End, Skips, GotOffer, GotOfferAgain, Meets, Answers, InSession
      <4> QED BY <2>1, <4>1 DEF ResumeInv, ResumeIsPeers
    <3> QED BY <3>1, <3>2
  <2>4. pending' # NoFrame => pending'.type = "resume"
    BY <2>1 DEF ResumeInv
  <2> QED BY <1>2, <1>3, <1>4, <2>2, <2>3, <2>4, ResumeSame, Zenon
<1> QED BY <1>5, <1>6, <1>7

LEMMA ResumeSays ==
    ASSUME TypeInv, ResumeInv, Choose \/ SendOffer \/ SendResume \/ SendJoin \/ SendVersion
    PROVE  ResumeInv'
<1> USE DEF progVars, roomVars, Goto
<1>0. /\ "S" \in Sides /\ "R" \in Sides /\ "S" # "R" /\ DOMAIN pc = Sides
  BY DEF TypeInv, TypeOK, Sides
<1>1. UNCHANGED <<start, room, inbox, pending, peer>>
  BY DEF Choose, SendOffer, SendResume, SendJoin, SendVersion
<1>2. /\ Running("S")' => Running("S")
      /\ InSession("S")' => InSession("S")
  BY <1>0 DEF Choose, SendOffer, SendResume, SendJoin, SendVersion, Running, InSession
<1>3. Version("S") \in {0, PageVersion, ProtocolVersion}
  BY DEF Version
<1>4. \A c \in Conn : \A f \in Elems(outbox'[c]) :
          f.of = c[2] /\ (f.type \in {"resume", "join"} => c[1] = "R")
  <2>1. CASE Choose
    BY <2>1 DEF Choose, ResumeInv
  <2>2. CASE SendOffer \/ SendVersion
    BY <1>0, <1>3, <2>2, WritesOwn DEF SendOffer, SendVersion, ResumeInv, Me
  <2>3. CASE SendResume \/ SendJoin
    BY <1>0, <2>3, WritesOwn DEF SendResume, SendJoin, ResumeInv, Me
  <2> QED BY <2>1, <2>2, <2>3
<1>5. ResumeIsPeers' /\ (pending' # NoFrame => pending'.type = "resume") /\ Marks' = Marks
  BY <1>1, <1>2 DEF ResumeInv, ResumeIsPeers, Marks
<1> QED BY <1>1, <1>2, <1>4, <1>5, ResumeSame, Zenon

LEMMA ResumeStart ==
    ASSUME TypeInv, ModeInv, ResumeInv,
           NEW x \in Sides, NEW k \in Kinds, NEW r \in BOOLEAN, StartProgram(x, k, r)
    PROVE  ResumeInv'
<1> USE DEF Goto
<1>0. /\ "S" \in Sides /\ "R" \in Sides /\ "S" # "R" /\ Sides = {"S", "R"} /\ DOMAIN pc = Sides
      /\ DOMAIN start = Sides /\ DOMAIN peer = Sides
  BY DEF TypeInv, TypeOK, Sides
<1>1. UNCHANGED <<outbox, inbox>>
  BY DEF StartProgram
<1>2. CASE x = "S"
  <2>1. pending' = NoFrame /\ inbox["S"] = << >>
    BY <1>0, <1>2 DEF StartProgram, ModeInv
  <2>2. Marks' = {}
    BY <1>1, <2>1, ElemsEmpty DEF Marks, NoFrame
  <2> QED BY <1>1, <2>1, <2>2 DEF ResumeInv, ResumeIsPeers
<1>3. CASE x = "R"
  <2>1. /\ start'["S"] = start["S"] /\ pending' = pending /\ peer'["S"] = peer["S"]
        /\ pc'["S"] = pc["S"]
    BY <1>0, <1>3 DEF StartProgram
  <2>2. room' = room \/ room' = room \cup {<<"R", start["R"] + 1>>}
    BY <1>3 DEF StartProgram
  <2>3. Marks' = Marks
    BY <1>1, <2>1 DEF Marks
  <2>4. ResumeIsPeers' /\ (pending' # NoFrame => pending'.type = "resume")
    BY <2>1 DEF ResumeInv, ResumeIsPeers, InSession
  <2>5. Running("S")' => Running("S")
    BY <2>1 DEF Running
  <2>6. room \subseteq room' /\ (Me("S") \in room' => Me("S") \in room)
    BY <2>2 DEF Me
  <2>7. \A c \in Conn : \A f \in Elems(outbox'[c]) :
            f.of = c[2] /\ (f.type \in {"resume", "join"} => c[1] = "R")
    BY <1>1 DEF ResumeInv
  <2> QED BY <2>1, <2>3, <2>4, <2>5, <2>6, <2>7, ResumeSame, Zenon
<1> QED BY <1>0, <1>2, <1>3

LEMMA ResumeRelay ==
    ASSUME TypeInv, ResumeInv, NEW c \in Conn, Relay(c)
    PROVE  ResumeInv'
<1> DEFINE h == Head(outbox[c])
           m == [h EXCEPT !.late = c \notin room]
<1>0. /\ "S" \in Sides /\ inbox \in [Sides -> Seq(Frame)] /\ outbox \in [Conn -> Seq(Frame)]
      /\ UNCHANGED <<start, pc, pending, peer, room>>
      /\ inbox' = [x \in Sides |->
                      IF Me(x) \in room \ {c} /\ Reading(x) THEN Append(inbox[x], m) ELSE inbox[x]]
      /\ outbox[c] # << >> /\ outbox' = [outbox EXCEPT ![c] = Tail(@)]
  BY DEF Relay, progVars, TypeInv, TypeOK, Sides
<1>1. h \in Frame /\ h \in Elems(outbox[c]) /\ Elems(Tail(outbox[c])) \subseteq Elems(outbox[c])
  BY <1>0, ElemsHeadTail
<1>2. m \in Frame /\ m.of = h.of /\ m.type = h.type /\ m.late = (c \notin room)
  BY <1>1 DEF Frame
<1>3. \A d \in Conn : Elems(outbox'[d]) \subseteq Elems(outbox[d])
  BY <1>0, <1>1
<1>4. \A d \in Conn : \A f \in Elems(outbox'[d]) :
          f.of = d[2] /\ (f.type \in {"resume", "join"} => d[1] = "R")
  BY <1>3 DEF ResumeInv
<1>5. m.of = c[2] /\ (m.type \in {"resume", "join"} => c = <<"R", c[2]>>)
  <2>1. c = <<c[1], c[2]>>
    BY DEF Conn
  <2> QED BY <1>1, <1>2, <2>1 DEF ResumeInv
<1>6. ResumeIsPeers' /\ (pending' # NoFrame => pending'.type = "resume")
  BY <1>0 DEF ResumeInv, ResumeIsPeers, InSession
<1>7. Running("S")' = Running("S") /\ Me("S")' = Me("S")
  BY <1>0 DEF Running, Me
<1> HIDE DEF h, m
<1>8. CASE Me("S") \in room \ {c} /\ Running("S")
  <2>1. inbox["S"] \in Seq(Frame)
    BY <1>0
  <2>2. Elems(Append(inbox["S"], m)) = Elems(inbox["S"]) \cup {m}
    BY <1>2, <2>1, ElemsAppend
  <2>3. Elems(inbox'["S"]) \subseteq Elems(inbox["S"]) \cup {m}
    BY <1>0, <2>2
  <2>4. Marks' \subseteq Marks \cup {m}
    BY <1>0, <2>3 DEF Marks
  <2>5. \A f \in Marks : <<"R", f.of>> \in room /\ <<"R", f.of>> # Me("S")
    BY <1>8 DEF ResumeInv, Me
  <2>6. m \in Marks' => c \in room /\ c = <<"R", m.of>>
    BY <1>2, <1>5 DEF Marks
  <2>7. ASSUME m \in Marks', NEW f \in Marks PROVE f.of = m.of
    <3>1. /\ <<"R", f.of>> \in room /\ <<"R", f.of>> # Me("S")
          /\ c \in room /\ c # Me("S") /\ Me("S") \in room
          /\ IsFiniteSet(room) /\ Cardinality(room) <= 2
      BY <1>8, <2>5, <2>6, <2>7 DEF TypeInv, TypeOK
    <3>2. <<"R", f.of>> = c
      BY <3>1, RoomForTwo
    <3> QED BY <2>6, <2>7, <3>2
  <2>8. \A f, g \in Marks' : f.of = g.of
    BY <2>4, <2>7 DEF ResumeInv
  <2>9. \A f \in Marks' : <<"R", f.of>> \in room
    BY <2>4, <2>5, <2>6
  <2> QED BY <1>0, <1>4, <1>6, <2>8, <2>9 DEF ResumeInv
<1>9. CASE ~(Me("S") \in room \ {c} /\ Running("S"))
  <2>1. inbox'["S"] = inbox["S"]
    BY <1>0, <1>9 DEF Reading
  <2>2. Marks' = Marks
    BY <1>0, <2>1 DEF Marks
  <2> QED BY <1>0, <1>4, <1>6, <1>7, <2>2 DEF ResumeInv
<1> QED BY <1>8, <1>9

LEMMA ResumeRest ==
    ASSUME TypeInv, ResumeInv,
           \/ \E c \in Conn : DropFrames(c) \/ RemoveClient(c)
           \/ Cleanup \/ RelayRestarts \/ Minute
    PROVE  ResumeInv'
<1> USE DEF progVars, roomVars
<1>1. UNCHANGED <<start, pc, pending, peer, inbox>> /\ (room' = room \/ room' = {})
  BY DEF DropFrames, RemoveClient, Remaining, Cleanup, RelayRestarts, Minute
<1>2. \A c \in Conn : Elems(outbox'[c]) \subseteq Elems(outbox[c])
  BY ElemsEmpty DEF DropFrames, RemoveClient, Cleanup, RelayRestarts, Minute, TypeInv, TypeOK
<1>3. \A c \in Conn : \A f \in Elems(outbox'[c]) :
          f.of = c[2] /\ (f.type \in {"resume", "join"} => c[1] = "R")
  BY <1>2 DEF ResumeInv
<1>4. Marks' = Marks /\ Running("S")' = Running("S") /\ Me("S")' = Me("S")
  BY <1>1 DEF Marks, Running, Me
<1>5. ResumeIsPeers' /\ (pending' # NoFrame => pending'.type = "resume")
  BY <1>1 DEF ResumeInv, ResumeIsPeers, InSession
<1> QED BY <1>1, <1>3, <1>4, <1>5 DEF ResumeInv

LEMMA ResumeNext == TypeInv /\ ModeInv /\ ResumeInv /\ [Next]_vars => ResumeInv'
<1> SUFFICES ASSUME TypeInv, ModeInv, ResumeInv, [Next]_vars PROVE ResumeInv'
  OBVIOUS
<1>1. CASE UNCHANGED vars
  BY <1>1 DEF vars, progVars, roomVars, ResumeInv, ResumeIsPeers, InSession, Marks, Running, Me
<1> QED BY <1>1, Steps, ResumeReads, ResumeSays, ResumeStart, ResumeRelay, ResumeRest

(* A sender never acts on the resume request of a receiver other than the   *)
(* one it serves, however many come and go before one says PeerJoin, late   *)
(* frames excepted.                                                         *)
THEOREM ResumeRequestIsPeers == Spec => []ResumeIsPeers
<1>1. ResumeInv => ResumeIsPeers
  BY DEF ResumeInv
<1> QED
  BY <1>1, TypeInit, TypeNext, ModeInit, ModeNext, ResumeInit, ResumeNext, PTL DEF Spec

-----------------------------------------------------------------------------
(* Versions.                                                                *)

JoinVersion == IF kind["R"] = "cli" THEN ProtocolVersion ELSE 0

(* What a frame tells of the program that is its sender, if that is still   *)
(* the one that runs.                                                       *)
TellsVersion(f) ==
    /\ f.type = "version" => f.of <= start["S"] /\ (f.of = start["S"] => f.v = Version("S"))
    /\ f.type = "join" => f.of <= start["R"] /\ (f.of = start["R"] => f.v = JoinVersion)

(* Every frame on its way or acted on tells the version of its sender, and  *)
(* a program that checks is in a session because of one that it has seen.   *)
VersionInv ==
    /\ \A c \in Conn : \A f \in Elems(outbox[c]) : TellsVersion(f)
    /\ \A x \in Sides : \A f \in Elems(inbox[x]) : TellsVersion(f)
    /\ \A x \in Sides : TellsVersion(peer[x])
    /\ mode = "live" /\ InSession("S") /\ kind["S"] = "cli" =>
          peer["S"].type = "join" /\ peer["S"].v = ProtocolVersion
    /\ mode = "announced" /\ pc["R"] \in {"first", "session"} =>
          peer["R"].type = "version" /\ peer["R"].v = ProtocolVersion

LEMMA VersionInit == Init => VersionInv
<1> SUFFICES ASSUME Init PROVE VersionInv
  OBVIOUS
<1>1. /\ \A c \in Conn : Elems(outbox[c]) = {}
      /\ \A x \in Sides : Elems(inbox[x]) = {}
  BY ElemsEmpty DEF Init
<1>2. \A x \in Sides : TellsVersion(peer[x])
  BY DEF Init, TellsVersion, NoFrame
<1> QED BY <1>1, <1>2 DEF Init, VersionInv, InSession, Sides

LEMMA TellsSame ==
    ASSUME UNCHANGED <<start, kind>>, NEW f, TellsVersion(f)
    PROVE  TellsVersion(f)'
BY DEF TellsVersion, Version, JoinVersion

LEMMA VersionReads ==
    ASSUME TypeInv, ModeInv, VersionInv,
           \/ \E x \in Sides : Ends(x) \/ Skips(x)
           \/ Keeps \/ Joined \/ GotReady \/ GotOffer \/ GotOfferAgain \/ Answers
    PROVE  VersionInv'
<1> USE DEF progVars, roomVars, Goto
<1>0. /\ "S" \in Sides /\ "R" \in Sides /\ "S" # "R" /\ Sides = {"S", "R"}
      /\ DOMAIN pc = Sides /\ DOMAIN peer = Sides /\ start \in [Sides -> Nat]
  BY Numbers DEF TypeInv, TypeOK, Sides
<1>1. ASSUME NEW y \in Sides PROVE Elems(inbox'[y]) \subseteq Elems(inbox[y])
  <2>1. PICK x \in Sides : \/ inbox[x] # << >> /\ Take(x)
                           \/ inbox' = [inbox EXCEPT ![x] = << >>]
    BY <1>0
    DEF Ends, End, Skips, Keeps, Joined, GotReady, GotOffer, GotOfferAgain, Meets, Answers
  <2> QED BY <2>1, TakesLess, Clears
<1>2. UNCHANGED <<mode, start, kind>>
  BY DEF Ends, Skips, Keeps, Joined, GotReady, GotOffer, GotOfferAgain, Meets, Answers
<1>3. \A x \in Sides : \A f \in Elems(inbox'[x]) : TellsVersion(f)'
  BY <1>1, <1>2, TellsSame DEF VersionInv
<1>4. \A c \in Conn : \A f \in Elems(outbox'[c]) : TellsVersion(f)'
  <2>1. CASE Answers
    <3>1. Write("R", "ready", 0)
      BY <2>1 DEF Answers
    <3> SUFFICES ASSUME NEW c \in Conn, NEW f \in Elems(outbox'[c]) PROVE TellsVersion(f)'
      OBVIOUS
    <3>2. f \in Elems(outbox[c]) \/ f.type = "ready"
      BY <1>0, <3>1, WritesOwn
    <3> QED BY <1>2, <3>2, TellsSame DEF VersionInv, TellsVersion
  <2>2. CASE ~Answers
    <3>1. outbox' = outbox
      BY <2>2 DEF Ends, Skips, Keeps, Joined, GotReady, GotOffer, GotOfferAgain, Meets
    <3> QED BY <1>2, <3>1, TellsSame DEF VersionInv
  <2> QED BY <2>1, <2>2
<1>5. ASSUME NEW x \in Sides PROVE TellsVersion(peer[x])'
  <2>1. TellsVersion(peer[x])
    BY DEF VersionInv
  <2>2. peer'[x] = peer[x] \/ peer'[x] \in Elems(inbox[x])
    <3>1. CASE Joined \/ GotReady \/ GotOffer \/ Answers
      <4>1. PICK y \in Sides : inbox[y] # << >> /\ peer' = [peer EXCEPT ![y] = Next_(y)]
        BY <1>0, <3>1 DEF Joined, GotReady, GotOffer, Meets, Answers
      <4> QED BY <1>0, <4>1, TypeTake
    <3>2. CASE ~(Joined \/ GotReady \/ GotOffer \/ Answers)
      BY <3>2 DEF Ends, Skips, Keeps, GotOfferAgain
    <3> QED BY <3>1, <3>2
  <2> QED BY <1>2, <2>1, <2>2, TellsSame DEF VersionInv, TellsVersion
<1>6. mode' = "live" /\ InSession("S")' /\ kind'["S"] = "cli" =>
        peer'["S"].type = "join" /\ peer'["S"].v = ProtocolVersion
  <2>1. CASE Joined
    BY <1>0, <1>2, <2>1 DEF Joined, Meets, Accepts
  <2>2. CASE GotReady
    BY <1>2, <2>2 DEF GotReady, Meets, ModeInv
  <2>3. CASE ~Joined /\ ~GotReady
    <3>1. peer'["S"] = peer["S"] /\ (InSession("S")' => InSession("S"))
      BY <1>0, <2>3
      DEF Ends, End, Skips, Keeps, GotOffer, GotOfferAgain, Meets, Answers, InSession
    <3> QED BY <1>2, <3>1 DEF VersionInv
  <2> QED BY <2>1, <2>2, <2>3
<1>7. mode' = "announced" /\ pc'["R"] \in {"first", "session"} =>
        peer'["R"].type = "version" /\ peer'["R"].v = ProtocolVersion
  <2>1. CASE Answers
    BY <1>0, <2>1 DEF Answers, Checked
  <2>2. CASE GotOffer
    BY <1>2, <2>2 DEF GotOffer
  <2>3. CASE ~Answers /\ ~GotOffer
    <3>1. peer'["R"] = peer["R"] /\ (pc'["R"] \in {"first", "session"} => pc["R"] \in {"first", "session"})
      BY <1>0, <2>3
      DEF Ends, End, Skips, Keeps, Joined, GotReady, GotOfferAgain, Meets
    <3> QED BY <1>2, <3>1 DEF VersionInv
  <2> QED BY <2>1, <2>2, <2>3
<1> QED BY <1>3, <1>4, <1>5, <1>6, <1>7 DEF VersionInv

LEMMA VersionSays ==
    ASSUME TypeInv, ModeInv, VersionInv,
           Choose \/ SendOffer \/ SendResume \/ SendJoin \/ SendVersion
    PROVE  VersionInv'
<1> USE DEF progVars, roomVars, Goto
<1>0. /\ "S" \in Sides /\ "R" \in Sides /\ "S" # "R" /\ DOMAIN pc = Sides
      /\ start["S"] \in Nat /\ start["R"] \in Nat /\ resumes \in BOOLEAN
  BY Numbers DEF TypeInv, TypeOK, Sides
<1>1. UNCHANGED <<mode, start, kind, inbox, peer>>
  BY DEF Choose, SendOffer, SendResume, SendJoin, SendVersion
<1>2. Version("S") \in {0, PageVersion, ProtocolVersion} /\ JoinVersion \in {0, PageVersion, ProtocolVersion}
  BY DEF Version, JoinVersion
<1>3. start["S"] <= start["S"] /\ start["R"] <= start["R"]
  BY <1>0, SMT
<1>4. ASSUME NEW c \in Conn, NEW f \in Elems(outbox'[c]) PROVE TellsVersion(f)
  <2>1. CASE Choose
    BY <1>4, <2>1 DEF Choose, VersionInv
  <2>2. CASE SendOffer \/ SendResume
    <3>1. f \in Elems(outbox[c]) \/ f.type \in {"offer", "resume"}
      BY <1>0, <2>2, WritesOwn DEF SendOffer, SendResume
    <3> QED BY <3>1 DEF VersionInv, TellsVersion
  <2>3. CASE SendVersion
    <3>1. \/ f \in Elems(outbox[c])
          \/ f.type = "version" /\ f.of = start["S"] /\ f.v = Version("S")
      BY <1>0, <1>2, <2>3, WritesOwn DEF SendVersion
    <3> QED BY <1>3, <3>1 DEF VersionInv, TellsVersion
  <2>4. CASE SendJoin
    <3>1. Write("R", "join", JoinVersion)
      BY <2>4 DEF SendJoin, JoinVersion
    <3>2. \/ f \in Elems(outbox[c])
          \/ f.type = "join" /\ f.of = start["R"] /\ f.v = JoinVersion
      BY <1>0, <1>2, <3>1, WritesOwn
    <3> QED BY <1>3, <3>2 DEF VersionInv, TellsVersion
  <2> QED BY <2>1, <2>2, <2>3, <2>4
<1>5. /\ \A c \in Conn : \A f \in Elems(outbox'[c]) : TellsVersion(f)'
      /\ \A x \in Sides : \A f \in Elems(inbox'[x]) : TellsVersion(f)'
      /\ \A x \in Sides : TellsVersion(peer[x])'
  BY <1>1, <1>4, TellsSame DEF VersionInv, TellsVersion
<1>6. InSession("S")' => InSession("S")
  BY <1>0 DEF Choose, SendOffer, SendResume, SendJoin, SendVersion, InSession
<1>7. mode = "announced" /\ pc'["R"] \in {"first", "session"} => pc["R"] \in {"first", "session"}
  BY <1>0 DEF Choose, SendOffer, SendResume, SendJoin, SendVersion, ModeInv
<1> QED BY <1>1, <1>5, <1>6, <1>7 DEF VersionInv

LEMMA VersionStart ==
    ASSUME TypeInv, ModeInv, VersionInv,
           NEW x \in Sides, NEW k \in Kinds, NEW r \in BOOLEAN, StartProgram(x, k, r)
    PROVE  VersionInv'
<1> USE DEF Goto
<1>0. /\ "S" \in Sides /\ "R" \in Sides /\ "S" # "R" /\ Sides = {"S", "R"}
      /\ DOMAIN pc = Sides /\ DOMAIN peer = Sides /\ DOMAIN kind = Sides /\ DOMAIN start = Sides
      /\ start["S"] \in Nat /\ start["R"] \in Nat /\ mode \in {"live", "announced"}
  BY Numbers, ProgramsAssumption DEF TypeInv, TypeOK, Sides
<1>1. /\ UNCHANGED <<mode, outbox, inbox>>
      /\ start' = [start EXCEPT ![x] = @ + 1] /\ kind' = [kind EXCEPT ![x] = k]
      /\ peer' = [peer EXCEPT ![x] = NoFrame]
  BY DEF StartProgram
<1>2. \/ pc' = [pc EXCEPT ![x] = "gone"] \/ pc' = [pc EXCEPT ![x] = FirstState(x)]
  BY DEF StartProgram
<1>3. ASSUME NEW f, TellsVersion(f), f.type \in {"version", "join"} => f.of \in Nat
      PROVE  TellsVersion(f)'
  <2>1. \A a, b \in Nat : a <= b => a <= b + 1 /\ a # b + 1
    BY SMT
  <2>2. CASE x = "S"
    <3>1. start'["S"] = start["S"] + 1 /\ start'["R"] = start["R"] /\ JoinVersion' = JoinVersion
      BY <1>0, <1>1, <2>2 DEF JoinVersion
    <3> QED BY <1>0, <1>3, <2>1, <3>1 DEF TellsVersion
  <2>3. CASE x = "R"
    <3>1. start'["R"] = start["R"] + 1 /\ start'["S"] = start["S"] /\ Version("S")' = Version("S")
      BY <1>0, <1>1, <2>3 DEF Version
    <3> QED BY <1>0, <1>3, <2>1, <3>1 DEF TellsVersion
  <2> QED BY <1>0, <2>2, <2>3
<1>4. \A f \in Frame : f.of \in Nat
  BY Frames, Numbers
<1>5. /\ \A c \in Conn : Elems(outbox[c]) \subseteq Frame
      /\ \A y \in Sides : Elems(inbox[y]) \subseteq Frame
      /\ \A y \in Sides : peer[y] \in Frame \cup {NoFrame}
  BY ElemsOf DEF TypeInv, TypeOK
<1>6. /\ \A c \in Conn : \A f \in Elems(outbox'[c]) : TellsVersion(f)'
      /\ \A y \in Sides : \A f \in Elems(inbox'[y]) : TellsVersion(f)'
  BY <1>1, <1>3, <1>4, <1>5 DEF VersionInv
<1>7. ASSUME NEW y \in Sides PROVE TellsVersion(peer[y])'
  <2>1. peer'[y] \in {peer[y], NoFrame}
    BY <1>0, <1>1
  <2>2. TellsVersion(NoFrame)'
    BY DEF TellsVersion, NoFrame
  <2>3. peer[y].type \in {"version", "join"} => peer[y].of \in Nat
    BY <1>4, <1>5 DEF NoFrame
  <2>4. TellsVersion(peer[y])
    BY DEF VersionInv
  <2>5. ASSUME peer'[y] = peer[y] PROVE TellsVersion(peer[y])'
    BY <1>3, <2>3, <2>4, <2>5 DEF TellsVersion
  <2>6. ASSUME peer'[y] = NoFrame PROVE TellsVersion(peer[y])'
    BY <2>6 DEF TellsVersion, NoFrame
  <2> QED BY <2>1, <2>5, <2>6
<1>8. mode' = "live" /\ InSession("S")' /\ kind'["S"] = "cli" =>
        peer'["S"].type = "join" /\ peer'["S"].v = ProtocolVersion
  BY <1>0, <1>1, <1>2 DEF VersionInv, InSession, FirstState
<1>9. mode' = "announced" /\ pc'["R"] \in {"first", "session"} =>
        peer'["R"].type = "version" /\ peer'["R"].v = ProtocolVersion
  BY <1>0, <1>1, <1>2 DEF VersionInv, FirstState
<1> QED BY <1>6, <1>7, <1>8, <1>9 DEF VersionInv

LEMMA VersionRelay ==
    ASSUME TypeInv, VersionInv,
           \/ \E c \in Conn : Relay(c) \/ DropFrames(c) \/ RemoveClient(c)
           \/ Cleanup \/ RelayRestarts \/ Minute
    PROVE  VersionInv'
<1> USE DEF progVars, roomVars
<1>1. UNCHANGED <<mode, start, kind, pc, peer>>
  BY DEF Relay, DropFrames, RemoveClient, Cleanup, RelayRestarts, Minute
<1>2. \A c \in Conn : Elems(outbox'[c]) \subseteq Elems(outbox[c])
  <2>1. outbox \in [Conn -> Seq(Frame)]
    BY DEF TypeInv, TypeOK
  <2>2. ASSUME NEW c \in Conn, Relay(c), NEW d \in Conn
        PROVE  Elems(outbox'[d]) \subseteq Elems(outbox[d])
    <3>1. outbox[c] # << >> /\ outbox' = [outbox EXCEPT ![c] = Tail(@)]
      BY <2>2 DEF Relay
    <3>2. Elems(Tail(outbox[c])) \subseteq Elems(outbox[c])
      BY <2>1, <3>1, ElemsHeadTail
    <3> QED BY <2>1, <3>1, <3>2
  <2>3. CASE ~\E c \in Conn : Relay(c)
    BY <2>1, <2>3, ElemsEmpty DEF DropFrames, RemoveClient, Cleanup, RelayRestarts, Minute
  <2> QED BY <2>2, <2>3
<1>3. \A x \in Sides : \A f \in Elems(inbox'[x]) : TellsVersion(f)
  <2>1. ASSUME NEW c \in Conn, Relay(c), NEW x \in Sides, NEW f \in Elems(inbox'[x])
        PROVE  TellsVersion(f)
    <3> DEFINE h == Head(outbox[c])
               m == [h EXCEPT !.late = c \notin room]
    <3>1. h \in Frame /\ h \in Elems(outbox[c])
      BY <2>1, ElemsHeadTail DEF Relay, TypeInv, TypeOK
    <3>2. m \in Frame /\ m.of = h.of /\ m.type = h.type /\ m.v = h.v
      BY <3>1 DEF Frame
    <3>3. TellsVersion(m)
      BY <3>1, <3>2 DEF VersionInv, TellsVersion
    <3>4. inbox[x] \in Seq(Frame)
      BY DEF TypeInv, TypeOK
    <3>5. inbox'[x] = inbox[x] \/ inbox'[x] = Append(inbox[x], m)
      BY <2>1 DEF Relay
    <3> HIDE DEF m
    <3>6. Elems(Append(inbox[x], m)) = Elems(inbox[x]) \cup {m}
      BY <3>2, <3>4, ElemsAppend
    <3> QED BY <2>1, <3>3, <3>5, <3>6 DEF VersionInv
  <2>2. CASE ~\E c \in Conn : Relay(c)
    BY <2>2 DEF DropFrames, RemoveClient, Cleanup, RelayRestarts, Minute, VersionInv
  <2> QED BY <2>1, <2>2
<1>4. /\ \A c \in Conn : \A f \in Elems(outbox'[c]) : TellsVersion(f)'
      /\ \A x \in Sides : \A f \in Elems(inbox'[x]) : TellsVersion(f)'
      /\ \A x \in Sides : TellsVersion(peer[x])'
  BY <1>1, <1>2, <1>3, TellsSame DEF VersionInv, TellsVersion
<1> QED BY <1>1, <1>4 DEF VersionInv, InSession

LEMMA VersionNext == TypeInv /\ ModeInv /\ VersionInv /\ [Next]_vars => VersionInv'
<1> SUFFICES ASSUME TypeInv, ModeInv, VersionInv, [Next]_vars PROVE VersionInv'
  OBVIOUS
<1>1. CASE UNCHANGED vars
  BY <1>1 DEF vars, progVars, VersionInv, TellsVersion, Version, JoinVersion, InSession
<1> QED BY <1>1, Steps, VersionReads, VersionSays, VersionStart, VersionRelay

LEMMA VersionsTold == ModeInv /\ TypeInv /\ VersionInv => ChecksFailClosed
<1> SUFFICES ASSUME ModeInv, TypeInv, VersionInv, Paired, Version("S") # Version("R")
             PROVE  mode = "live" /\ kind["S"] = "page"
  BY DEF ChecksFailClosed
<1>1. /\ pc["S"] = "session" /\ pc["R"] = "session" /\ "S" \in Sides /\ "R" \in Sides
      /\ peer["S"].of = start["R"] /\ peer["R"].of = start["S"]
      /\ mode \in {"live", "announced"} /\ kind["S"] \in {"cli", "page"}
      /\ TellsVersion(peer["S"]) /\ TellsVersion(peer["R"])
  BY ProgramsAssumption DEF Paired, TypeInv, TypeOK, Sides, VersionInv
<1>2. mode = "live"
  <2> SUFFICES ASSUME mode = "announced" PROVE FALSE
    BY <1>1
  <2>1. Version("S") = ProtocolVersion
    BY <1>1 DEF VersionInv, TellsVersion
  <2>2. Version("R") = ProtocolVersion
    BY DEF ModeInv, Version
  <2> QED BY <2>1, <2>2
<1>3. kind["S"] = "page"
  <2> SUFFICES ASSUME kind["S"] = "cli" PROVE FALSE
    BY <1>1
  <2>1. JoinVersion = ProtocolVersion
    BY <1>1, <1>2 DEF VersionInv, InSession, TellsVersion
  <2>2. kind["R"] = "cli"
    BY <2>1, ProgramsAssumption DEF JoinVersion
  <2> QED BY <2>2 DEF Version
<1> QED BY <1>2, <1>3

(* A Go program that checks a version is never in a session with a program  *)
(* of another one, whatever versions there are and however often either     *)
(* side is started again between the check and the session.                 *)
THEOREM VersionChecksFailClosed == Spec => []ChecksFailClosed
BY TypeInit, TypeNext, ModeInit, ModeNext, VersionInit, VersionNext, VersionsTold, PTL DEF Spec
=============================================================================
