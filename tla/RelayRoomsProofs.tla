-------------------------- MODULE RelayRoomsProofs --------------------------
(***************************************************************************)
(* Proofs about RelayRooms, for any set of connections and of tokens and    *)
(* any number of rooms and frames: its type invariant, that rooms are well  *)
(* formed, that no two goroutines of the relay write to one connection, and *)
(* that a client gets no frame after a gap.                                 *)
(***************************************************************************)
EXTENDS RelayRooms, SequenceTheorems, TLAPS

-----------------------------------------------------------------------------
(* Type correctness.  A handler past GetOrCreateRoom is in a room that has  *)
(* been made; without that the type of what it reads there is unknown.      *)

InRoom == \A c \in Conn : hpc[c] \notin {"idle", "upgraded"} => croom[c] \in 1 .. made

TypeInv == TypeOK /\ InRoom

(* The relay starts with no room and every connection still to be dialled.  *)
LEMMA InitTypeInv == Init => TypeInv
<1> SUFFICES ASSUME Init PROVE TypeInv
  OBVIOUS
<1>1. made \in 0 .. MaxRooms /\ 0 \in 0 .. made
  BY BoundAssumption DEF Init, BoundAssumption
<1>2. clients \in [RoomId -> Seq(Conn)] /\ got \in [Conn -> Seq(Frame)]
  BY DEF Init
<1>3. /\ rooms \in [Token -> 0 .. made] /\ croom \in [Conn -> 0 .. made]
      /\ hpc \in [Conn -> HandlerStates]
  BY <1>1 DEF Init, None, HandlerStates
<1>4. InRoom
  BY DEF Init, InRoom
<1>5. /\ taken \in [Conn -> Nat]
      /\ \A c \in Conn : taken[c] <= MaxFrames[c]
  BY BoundAssumption DEF Init, BoundAssumption
<1>q. QED
  BY <1>1, <1>2, <1>3, <1>4, <1>5 DEF Init, TypeInv, TypeOK

(* The client's own steps, and the passing of time.                         *)
LEMMA ClientTypeInv ==
  ASSUME TypeInv, NEW c \in Conn, ClientStep(c)
  PROVE  TypeInv'
<1> USE DEF TypeInv, TypeOK, InRoom, roomVars, handlerVars
<1>1. CASE Dial(c)
  BY <1>1 DEF Dial, Goto, HandlerStates
<1>2. CASE ClientLeaves(c)
  BY <1>2 DEF ClientLeaves
<1>q. QED BY <1>1, <1>2 DEF ClientStep

(* The cleanup loop only removes map entries and closes sockets.            *)
LEMMA CleanupTypeInv ==
  ASSUME TypeInv, CleanupStep
  PROVE  TypeInv'
<1> USE DEF TypeInv, TypeOK, InRoom
<1>1. CASE CleanupTick
  BY <1>1 DEF CleanupTick, roomVars, handlerVars, sockVars
<1>2. CASE CleanupEnd
  BY <1>2 DEF CleanupEnd, roomVars, handlerVars, sockVars
<1>3. ASSUME NEW t \in Token, CleanupRoom(t)
      PROVE  TypeInv'
  <2>1. rooms' \in [Token -> 0 .. made]
    <3>1. None \in 0 .. made
      BY BoundAssumption DEF None, BoundAssumption
    <3>q. QED BY <1>3, <3>1 DEF CleanupRoom
  <2>2. sock' \in [Conn -> {"open", "gone", "closed"}]
    BY <1>3 DEF CleanupRoom, Close
  <2>q. QED
    BY <1>3, <2>1, <2>2 DEF CleanupRoom, handlerVars
<1>q. QED BY <1>1, <1>2, <1>3 DEF CleanupStep

(* The room a handler enters is one that has been made, old or new.         *)
LEMMA GetOrCreateRoomTypeInv ==
  ASSUME TypeInv, NEW c \in Conn, GetOrCreateRoom(c)
  PROVE  TypeInv'
<1> USE DEF TypeInv, TypeOK
<1>1. hpc' \in [Conn -> HandlerStates] /\ token[c] \in Token
  BY DEF GetOrCreateRoom, Goto, HandlerStates
<1>2. /\ made' \in 0 .. MaxRooms /\ made <= made'
      /\ rooms' \in [Token -> 0 .. made']
      /\ croom' \in [Conn -> 0 .. made']
      /\ croom'[c] # None
      /\ idle' \in [RoomId -> BOOLEAN]
  <2>1. CASE rooms[token[c]] # None /\ UNCHANGED <<rooms, made, idle>>
                /\ croom' = [croom EXCEPT ![c] = rooms[token[c]]]
    BY <1>1, <2>1
  <2>2. CASE /\ rooms[token[c]] = None /\ made < MaxRooms
             /\ made' = made + 1
             /\ rooms' = [rooms EXCEPT ![token[c]] = NewRoom]
             /\ idle' = [idle EXCEPT ![NewRoom] = FALSE]
             /\ croom' = [croom EXCEPT ![c] = NewRoom]
    <3>1. /\ made' \in 0 .. MaxRooms /\ made <= made'
          /\ NewRoom \in 0 .. made' /\ NewRoom # None
      BY <2>2, BoundAssumption DEF NewRoom, None, BoundAssumption
    <3>2. 0 .. made \subseteq 0 .. made'
      BY <3>1
    <3>3. rooms \in [Token -> 0 .. made'] /\ croom \in [Conn -> 0 .. made']
      BY <3>2
    <3>q. QED BY <2>2, <3>1, <3>3
  <2>q. QED BY <2>1, <2>2 DEF GetOrCreateRoom
<1>3. InRoom'
  <2>1. \A d \in Conn \ {c} : hpc'[d] = hpc[d] /\ croom'[d] = croom[d]
    BY DEF GetOrCreateRoom, Goto
  <2>2. croom'[c] \in 1 .. made'
    BY <1>2 DEF None
  <2>3. ASSUME NEW d \in Conn, hpc'[d] \notin {"idle", "upgraded"}, d # c
        PROVE  croom'[d] \in 1 .. made'
    <3>1. croom[d] \in 1 .. made
      BY <2>1, <2>3 DEF InRoom
    <3>q. QED BY <1>2, <2>1, <2>3, <3>1, BoundAssumption DEF BoundAssumption
  <2>q. QED BY <2>2, <2>3 DEF InRoom
<1>q. QED
  BY <1>1, <1>2, <1>3 DEF GetOrCreateRoom, sockVars

(* What a handler that has its room sees of it.                             *)
LEMMA OthersType ==
  ASSUME TypeInv, NEW c \in Conn, hpc[c] \notin {"idle", "upgraded"}
  PROVE  /\ croom[c] \in RoomId
         /\ Others(c) \in SUBSET (Conn \ {c})
<1>1. croom[c] \in RoomId
  BY BoundAssumption DEF TypeInv, TypeOK, InRoom, RoomId, BoundAssumption
<1>2. clients[croom[c]] \in Seq(Conn)
  BY <1>1 DEF TypeInv, TypeOK
<1>q. QED BY <1>1, <1>2 DEF Others, Elems

(* The count of frames read goes up by one and stays within the bound.      *)
LEMMA TakeFrame ==
  ASSUME taken \in [Conn -> Nat], \A d \in Conn : taken[d] <= MaxFrames[d],
         NEW c \in Conn, taken[c] < MaxFrames[c], taken' = [taken EXCEPT ![c] = @ + 1]
  PROVE  taken' \in [Conn -> Nat] /\ \A d \in Conn : taken'[d] <= MaxFrames[d]
<1>1. MaxFrames[c] \in Nat /\ taken[c] \in Nat
  BY BoundAssumption DEF BoundAssumption
<1>2. \A d \in Conn : taken'[d] = IF d = c THEN taken[c] + 1 ELSE taken[d]
  OBVIOUS
<1>3. taken[c] + 1 <= MaxFrames[c]
  BY <1>1
<1>q. QED BY <1>1, <1>2, <1>3

(* Every step of a handleWebSocket goroutine keeps the types.               *)
LEMMA HandlerTypeInv ==
  ASSUME TypeInv, NEW c \in Conn, HandlerStep(c)
  PROVE  TypeInv'
<1> USE DEF TypeInv, TypeOK, InRoom, Goto, HandlerStates, roomVars, sockVars
<1>1. CASE GetOrCreateRoom(c)
  BY <1>1, GetOrCreateRoomTypeInv
<1>2. CASE AddClient(c)
  <2>1. croom[c] \in RoomId
    BY <1>2, OthersType DEF AddClient
  <2>2. Append(clients[croom[c]], c) \in Seq(Conn)
    BY <2>1
  <2>3. clients' \in [RoomId -> Seq(Conn)]
    <3>1. \/ clients' = clients
          \/ clients' = [clients EXCEPT ![croom[c]] = Append(clients[croom[c]], c)]
      BY <1>2 DEF AddClient
    <3>2. clients \in [RoomId -> Seq(Conn)]
      OBVIOUS
    <3> HIDE DEF TypeInv, TypeOK, InRoom, Goto, HandlerStates, roomVars, sockVars
    <3>q. QED BY <2>2, <3>1, <3>2
  <2>4. idle' \in [RoomId -> BOOLEAN] /\ hpc' \in [Conn -> HandlerStates]
    BY <1>2, ZenonT(40) DEF AddClient
  <2>5. UNCHANGED <<rooms, made, mu, rmMu, todo, token, croom, targets, kick, sockVars>>
    BY <1>2 DEF AddClient
  <2>6. InRoom'
    BY <1>2, <2>5 DEF AddClient
  <2>q. QED BY <2>3, <2>4, <2>5, <2>6
<1>3. CASE Refuse(c)
  BY <1>3 DEF Refuse, Close
<1>4. CASE StartBroadcast(c)
  <2>1. Others(c) \in SUBSET Conn
    BY <1>4, OthersType DEF StartBroadcast
  <2>2. taken' \in [Conn -> Nat] /\ \A d \in Conn : taken'[d] <= MaxFrames[d]
    BY <1>4, TakeFrame DEF StartBroadcast
  <2>3. mu' \in [RoomId -> SUBSET Conn]
    BY <1>4 DEF StartBroadcast
  <2>q. QED BY <1>4, <2>1, <2>2, <2>3 DEF StartBroadcast
<1>5. CASE WriteFrame(c)
  <2>1. PICK d \in targets[c] :
             /\ targets' = [targets EXCEPT ![c] = @ \ {d}]
             /\ \/ /\ sock[d] = "open"
                   /\ got' = [got EXCEPT ![d] = Append(@, [from |-> c, n |-> taken[c]])]
                   /\ UNCHANGED sock
                \/ /\ sock[d] = "gone"
                   /\ UNCHANGED <<sock, got>>
                \/ WriteFailed(d) /\ UNCHANGED got
    BY <1>5 DEF WriteFrame
  <2>2. [from |-> c, n |-> taken[c]] \in Frame /\ d \in Conn
    BY <2>1 DEF Frame
  <2>3. got' \in [Conn -> Seq(Frame)]
    <3>1. Append(got[d], [from |-> c, n |-> taken[c]]) \in Seq(Frame)
      BY <2>2
    <3>q. QED BY <2>1, <3>1
  <2>4. sock' \in [Conn -> {"open", "gone", "closed"}]
    BY <2>1 DEF WriteFailed, Close
  <2>q. QED BY <1>5, <2>1, <2>3, <2>4 DEF WriteFrame
<1>6. CASE EndBroadcast(c)
  BY <1>6 DEF EndBroadcast
<1>7. CASE ReadFails(c)
  BY <1>7 DEF ReadFails
<1>8. CASE CheckEmpty(c)
  BY <1>8 DEF CheckEmpty
<1>9. CASE DeleteRoom(c)
  <2>1. rooms' \in [Token -> 0 .. made]
    BY <1>9 DEF DeleteRoom, None
  <2>q. QED BY <1>9, <2>1 DEF DeleteRoom
<1>10. CASE RemoveClient(c)
  <2>1. ToKick(c) \in SUBSET Conn
    BY <1>10, OthersType DEF RemoveClient, ToKick
  <2>2. clients' \in [RoomId -> Seq(Conn)]
    <3>1. Remaining(c) \in Seq(Conn)
      BY DEF Remaining
    <3>q. QED BY <1>10, <3>1 DEF RemoveClient
  <2>3. kick' \in [Conn -> SUBSET Conn]
    BY <1>10, <2>1 DEF RemoveClient
  <2>q. QED BY <1>10, <2>2, <2>3 DEF RemoveClient
<1>11. CASE KickAndClose(c)
  BY <1>11 DEF KickAndClose, Close
<1>q. QED
  BY <1>1, <1>2, <1>3, <1>4, <1>5, <1>6, <1>7, <1>8, <1>9, <1>10, <1>11
     DEF HandlerStep

(* Hence every step of the relay and its clients does.                      *)
LEMMA NextTypeInv == TypeInv /\ [Next]_vars => TypeInv'
<1> SUFFICES ASSUME TypeInv, [Next]_vars
             PROVE  TypeInv'
  OBVIOUS
<1>1. ASSUME NEW c \in Conn, HandlerStep(c) \/ ClientStep(c)
      PROVE  TypeInv'
  BY <1>1, HandlerTypeInv, ClientTypeInv
<1>2. CASE CleanupStep
  BY <1>2, CleanupTypeInv
<1>3. ASSUME NEW r \in RoomId, GrowIdle(r)
      PROVE  TypeInv'
  BY <1>3 DEF TypeInv, TypeOK, InRoom, GrowIdle, handlerVars, sockVars
<1>4. CASE UNCHANGED vars
  BY <1>4 DEF TypeInv, TypeOK, InRoom, vars, roomVars, handlerVars, sockVars
<1>q. QED BY <1>1, <1>2, <1>3, <1>4 DEF Next

(* TypeInv is an invariant of the specification.                            *)
LEMMA SpecTypeInv == Spec => []TypeInv
  BY InitTypeInv, NextTypeInv, PTL DEF Spec

(* Rooms, handlers and sockets keep their types: a room in the map has been *)
(* made, and a handler never reads more frames than its client sends.       *)
THEOREM TypeCorrect == Spec => []TypeOK
<1>1. TypeInv => TypeOK
  BY DEF TypeInv
<1>q. QED BY <1>1, SpecTypeInv, PTL

-----------------------------------------------------------------------------
(* The inductive invariant.  RoomsWellFormed alone is not inductive for the *)
(* writers: room.mu tells who is writing, a writer's targets are listed in  *)
(* its room, and a connection to be kicked is listed nowhere and has one    *)
(* handler that will kick it.                                               *)

LockInv ==
    \A r \in RoomId, c \in Conn :
       /\ c \in mu[r] <=> hpc[c] = "writing" /\ croom[c] = r
       /\ c \in mu[r] => \A b \in mu[r] : b = c

TargetInv ==
    \A c \in Conn : hpc[c] = "writing" => targets[c] \subseteq Others(c)

Kicked == Listed \cup {"kicking", "done"}

KickInv ==
    \A c \in Conn, d \in Conn : d \in kick[c] =>
       /\ hpc[c] = "kicking"
       /\ d # c /\ hpc[d] \in Kicked
       /\ \A r \in RoomId : d \notin Elems(clients[r])
       /\ \A b \in Conn : d \in kick[b] => b = c

IInv == TypeInv /\ RoomsWellFormed /\ LockInv /\ TargetInv /\ KickInv

(* RoomsWellFormed, said of the connections listed.                         *)
LEMMA ListedInRoom ==
  ASSUME TypeInv, RoomsWellFormed, NEW r \in RoomId, NEW d \in Elems(clients[r])
  PROVE  d \in Conn /\ croom[d] = r /\ hpc[d] \in Listed
<1>1. PICK i \in 1 .. Len(clients[r]) : d = clients[r][i]
  BY DEF Elems
<1>2. clients[r] \in Seq(Conn)
  BY DEF TypeInv, TypeOK
<1>3. d \in Conn
  BY <1>1, <1>2, ElementOfSeq
<1>q. QED BY <1>1, <1>3, Zenon DEF RoomsWellFormed

(* The rest of the invariant makes the relay the only writer of a socket.   *)
LEMMA IInvOneWriter == IInv => OneWriter
<1> SUFFICES ASSUME IInv, NEW d \in Conn, NEW b \in Writers(d), NEW c \in Writers(d)
             PROVE  b = c
  BY DEF OneWriter
<1> USE DEF IInv
<1> DEFINE Writing(e) == hpc[e] = "writing" /\ d \in targets[e]
           Kicking(e) == hpc[e] = "kicking" /\ d \in kick[e]
           Refusing(e) == hpc[e] = "refusing" /\ d = e
<1>1. b \in Conn /\ c \in Conn
  BY DEF Writers
<1>2. \A e \in Writers(d) : Writing(e) \/ Kicking(e) \/ Refusing(e)
  BY DEF Writers
<1>3. ASSUME NEW e \in Conn, Writing(e)
      PROVE  /\ croom[e] \in RoomId /\ d \in Elems(clients[croom[e]])
             /\ croom[d] = croom[e] /\ hpc[d] \in Listed
  <2>1. croom[e] \in RoomId /\ d \in Elems(clients[croom[e]])
    BY <1>3, OthersType DEF TargetInv, Others
  <2>q. QED BY <2>1, ListedInRoom
<1>4. ASSUME NEW e \in Conn, Kicking(e)
      PROVE  /\ \A r \in RoomId : d \notin Elems(clients[r])
             /\ hpc[d] \in Kicked
  BY <1>4 DEF KickInv
<1>5. CASE Writing(b) /\ Writing(c)
  BY <1>1, <1>3, <1>5 DEF LockInv
<1>6. CASE Kicking(b) /\ Kicking(c)
  BY <1>1, <1>6 DEF KickInv
<1>7. CASE (Writing(b) /\ Kicking(c)) \/ (Writing(c) /\ Kicking(b))
  BY <1>1, <1>3, <1>4, <1>7
<1>8. CASE Refusing(b) \/ Refusing(c)
  <2>1. hpc[d] = "refusing"
    BY <1>8
  <2>2. ~Writing(b) /\ ~Writing(c)
    BY <1>1, <1>3, <2>1 DEF Listed
  <2>3. ~Kicking(b) /\ ~Kicking(c)
    BY <1>1, <1>4, <2>1 DEF Kicked, Listed
  <2>q. QED BY <1>2, <2>2, <2>3
<1>9. /\ Writing(b) \/ Kicking(b) \/ Refusing(b)
      /\ Writing(c) \/ Kicking(c) \/ Refusing(c)
  BY <1>2
<1>q. QED BY <1>5, <1>6, <1>7, <1>8, <1>9

(* The inductive invariant holds when the relay starts.                     *)
LEMMA InitIInv == Init => IInv
<1> SUFFICES ASSUME Init PROVE IInv
  OBVIOUS
<1>1. TypeInv
  BY InitTypeInv
<1>2. RoomsWellFormed
  BY DEF Init, RoomsWellFormed
<1>3. LockInv /\ TargetInv /\ KickInv
  BY DEF Init, LockInv, TargetInv, KickInv
<1>q. QED BY <1>1, <1>2, <1>3 DEF IInv

SafeInv == RoomsWellFormed /\ LockInv /\ TargetInv /\ KickInv

(* Steps that leave handlers and rooms where they are.                      *)
LEMMA QuietStep ==
  ASSUME IInv, UNCHANGED <<clients, mu, hpc, croom, targets, kick>>
  PROVE  SafeInv'
<1>1. RoomsWellFormed'
  BY DEF IInv, RoomsWellFormed
<1>2. LockInv' /\ TargetInv' /\ KickInv'
  BY DEF IInv, LockInv, TargetInv, KickInv, Others, Elems
<1>q. QED BY <1>1, <1>2 DEF SafeInv

(* Steps that move one handler on, outside Broadcast and RemoveClient.      *)
LEMMA MoveStep ==
  ASSUME IInv, NEW c \in Conn, NEW l, Goto(c, l),
         UNCHANGED <<clients, mu, croom, targets, kick>>,
         hpc[c] \notin {"writing", "kicking"}, l # "writing",
         hpc[c] \in Listed => l \in Listed,
         hpc[c] \in Kicked => l \in Kicked
  PROVE  SafeInv'
<1> USE DEF IInv
<1>1. hpc' = [d \in Conn |-> IF d = c THEN l ELSE hpc[d]]
  BY DEF Goto, TypeInv, TypeOK
<1>2. RoomsWellFormed'
  <2>1. ASSUME NEW r \in RoomId, NEW i \in 1 .. Len(clients[r])
        PROVE  clients[r][i] \in Conn /\ hpc'[clients[r][i]] \in Listed
    <3>1. clients[r][i] \in Elems(clients[r])
      BY DEF Elems
    <3>q. QED BY <1>1, <3>1, ListedInRoom
  <2>q. QED BY <2>1 DEF RoomsWellFormed
<1>3. LockInv'
  BY <1>1 DEF LockInv
<1>4. TargetInv'
  BY <1>1 DEF TargetInv, Others, Elems
<1>5. KickInv'
  BY <1>1 DEF KickInv, Elems
<1>q. QED BY <1>2, <1>3, <1>4, <1>5 DEF SafeInv

(* Entering a room lists nobody and starts no write.                        *)
LEMMA GetOrCreateRoomSafe ==
  ASSUME IInv, NEW c \in Conn, GetOrCreateRoom(c)
  PROVE  SafeInv'
<1> USE DEF IInv
<1>1. /\ hpc' = [d \in Conn |-> IF d = c THEN "adding" ELSE hpc[d]]
      /\ \A d \in Conn \ {c} : croom'[d] = croom[d]
      /\ UNCHANGED <<clients, mu, targets, kick>>
  BY DEF GetOrCreateRoom, Goto, TypeInv, TypeOK
<1>2. hpc[c] = "upgraded"
  BY DEF GetOrCreateRoom
<1>3. \A r \in RoomId : c \notin Elems(clients[r])
  BY <1>2, ListedInRoom DEF Listed
<1>4. RoomsWellFormed'
  <2>1. ASSUME NEW r \in RoomId, NEW i \in 1 .. Len(clients[r])
        PROVE  LET d == clients[r][i]
               IN  d \in Conn /\ croom'[d] = r /\ hpc'[d] \in Listed
    <3>1. clients[r][i] \in Elems(clients[r])
      BY DEF Elems
    <3>q. QED BY <1>1, <1>3, <3>1, ListedInRoom
  <2>q. QED BY <1>1, <2>1 DEF RoomsWellFormed
<1>5. LockInv'
  BY <1>1, <1>2 DEF LockInv
<1>6. TargetInv'
  BY <1>1 DEF TargetInv, Others, Elems
<1>7. KickInv'
  BY <1>1, <1>2 DEF KickInv, Elems, Kicked, Listed
<1>q. QED BY <1>4, <1>5, <1>6, <1>7 DEF SafeInv

(* AddClient lists a connection only in its room, as one of two at most.    *)
LEMMA AddClientSafe ==
  ASSUME IInv, NEW c \in Conn, AddClient(c)
  PROVE  SafeInv'
<1> USE DEF IInv
<1>1. CASE Full(croom[c])
  <2>1. /\ Goto(c, "refusing")
        /\ hpc[c] = "adding"
        /\ UNCHANGED <<clients, mu, croom, targets, kick>>
    BY <1>1 DEF AddClient
  <2>q. QED BY <2>1, MoveStep DEF Listed, Kicked
<1>2. CASE ~Full(croom[c])
  <2> DEFINE r == croom[c]
  <2>1. /\ hpc[c] = "adding" /\ mu[r] = {} /\ r \in RoomId
        /\ clients' = [clients EXCEPT ![r] = Append(@, c)]
        /\ hpc' = [d \in Conn |-> IF d = c THEN "reading" ELSE hpc[d]]
        /\ UNCHANGED <<mu, croom, targets, kick>>
    BY <1>2, OthersType DEF AddClient, Goto, TypeInv, TypeOK
  <2>2. /\ clients[r] \in Seq(Conn) /\ clients'[r] = Append(clients[r], c)
        /\ \A q \in RoomId \ {r} : clients'[q] = clients[q]
    BY <2>1 DEF TypeInv, TypeOK
  <2>3. Elems(clients'[r]) = Elems(clients[r]) \cup {c}
    <3> DEFINE s == clients[r]
    <3>1. s \in Seq(Conn) /\ clients'[r] = Append(s, c)
      BY <2>2
    <3> HIDE DEF s
    <3>2. /\ Len(Append(s, c)) = Len(s) + 1 /\ Len(s) \in Nat
          /\ Append(s, c)[Len(s) + 1] = c
          /\ \A i \in 1 .. Len(s) : Append(s, c)[i] = s[i]
      BY <3>1
    <3>3. 1 .. Len(s) + 1 = (1 .. Len(s)) \cup {Len(s) + 1}
      BY <3>2
    <3>4. {Append(s, c)[i] : i \in 1 .. Len(s) + 1} = {s[i] : i \in 1 .. Len(s)} \cup {c}
      BY <3>2, <3>3
    <3>q. QED BY <3>1, <3>2, <3>4 DEF Elems, s
  <2>4. \A q \in RoomId : c \notin Elems(clients[q])
    BY <2>1, ListedInRoom DEF Listed
  <2>5. RoomsWellFormed'
    <3>1. ASSUME NEW q \in RoomId, q # r
          PROVE  /\ Len(clients'[q]) <= 2
                 /\ \A i \in 1 .. Len(clients'[q]) :
                      /\ croom'[clients'[q][i]] = q /\ hpc'[clients'[q][i]] \in Listed
                      /\ \A j \in 1 .. Len(clients'[q]) :
                            clients'[q][i] = clients'[q][j] => i = j
      <4>1. ASSUME NEW i \in 1 .. Len(clients[q])
            PROVE  /\ clients[q][i] \in Conn /\ clients[q][i] # c
                   /\ croom[clients[q][i]] = q /\ hpc[clients[q][i]] \in Listed
        <5>1. clients[q][i] \in Elems(clients[q])
          BY DEF Elems
        <5>q. QED BY <2>4, <5>1, ListedInRoom
      <4>q. QED BY <2>1, <2>2, <3>1, <4>1, SMTT(30) DEF RoomsWellFormed
    <3>2. Len(clients[r]) < 2 /\ Len(clients'[r]) = Len(clients[r]) + 1
      BY <1>2, <2>2 DEF Full
    <3>3. ASSUME NEW i \in 1 .. Len(clients'[r])
          PROVE  \/ i = Len(clients'[r]) /\ clients'[r][i] = c
                 \/ /\ i \in 1 .. Len(clients[r]) /\ clients'[r][i] = clients[r][i]
                    /\ clients[r][i] # c /\ clients[r][i] \in Conn
      BY <2>1, <2>2, <2>4, <3>2 DEF Elems
    <3>4. ASSUME NEW i \in 1 .. Len(clients'[r])
          PROVE  /\ croom'[clients'[r][i]] = r /\ hpc'[clients'[r][i]] \in Listed
                 /\ \A j \in 1 .. Len(clients'[r]) :
                       clients'[r][i] = clients'[r][j] => i = j
      <4>1. croom'[clients'[r][i]] = r /\ hpc'[clients'[r][i]] \in Listed
        BY <2>1, <3>3 DEF RoomsWellFormed, Listed
      <4>2. ASSUME NEW j \in 1 .. Len(clients'[r]), clients'[r][i] = clients'[r][j]
            PROVE  i = j
        BY <2>1, <3>3, <4>2 DEF RoomsWellFormed
      <4>q. QED BY <4>1, <4>2
    <3>q. QED BY <3>1, <3>2, <3>4, SMTT(30) DEF RoomsWellFormed
  <2>6. LockInv'
    BY <2>1 DEF LockInv
  <2>7. TargetInv'
    <3>1. ASSUME NEW b \in Conn, hpc'[b] = "writing"
          PROVE  targets'[b] \subseteq Others(b)'
      <4>1. hpc[b] = "writing" /\ croom[b] \in RoomId
        BY <2>1, <3>1, OthersType
      <4>2. Elems(clients[croom[b]]) \subseteq Elems(clients'[croom[b]])
        BY <2>2, <2>3, <4>1
      <4>q. QED BY <2>1, <4>1, <4>2 DEF TargetInv, Others
    <3>q. QED BY <3>1 DEF TargetInv
  <2>8. KickInv'
    <3>1. ASSUME NEW b \in Conn, NEW d \in kick[b]
          PROVE  d # c /\ b # c /\ \A q \in RoomId : d \notin Elems(clients'[q])
      <4>1. d \in Conn
        BY DEF TypeInv, TypeOK
      <4>2. hpc[b] = "kicking" /\ hpc[d] \in Kicked
        BY <4>1 DEF KickInv
      <4>3. d # c /\ b # c
        <5>1. hpc[c] = "adding"
          BY <2>1
        <5>q. QED BY <4>2, <5>1 DEF Kicked, Listed
      <4>4. \A q \in RoomId : d \notin Elems(clients[q])
        BY <4>1 DEF KickInv
      <4>5. \A q \in RoomId : Elems(clients'[q]) \subseteq Elems(clients[q]) \cup {c}
        BY <2>2, <2>3
      <4>q. QED BY <4>3, <4>4, <4>5
    <3>q. QED BY <2>1, <3>1 DEF KickInv, Elems
  <2>q. QED BY <2>5, <2>6, <2>7, <2>8 DEF SafeInv
<1>q. QED BY <1>1, <1>2

(* The list does not change while a broadcast starts, writes or ends, and   *)
(* the handler is listed, or not, as before.                                *)
LEMMA BroadcastWellFormed ==
  ASSUME IInv, NEW c \in Conn, NEW l \in {"reading", "writing"}, Goto(c, l),
         hpc[c] \in {"reading", "writing"}, UNCHANGED <<clients, croom>>
  PROVE  RoomsWellFormed'
<1> USE DEF IInv
<1>1. hpc' = [d \in Conn |-> IF d = c THEN l ELSE hpc[d]]
  BY DEF Goto, TypeInv, TypeOK
<1>2. ASSUME NEW r \in RoomId, NEW i \in 1 .. Len(clients[r])
      PROVE  hpc'[clients[r][i]] \in Listed
  <2>1. clients[r][i] \in Elems(clients[r])
    BY DEF Elems
  <2>q. QED BY <1>1, <2>1, ListedInRoom DEF Listed
<1>q. QED BY <1>2 DEF RoomsWellFormed

(* A Broadcast leaves the pending kicks as they are.                        *)
LEMMA BroadcastKick ==
  ASSUME IInv, NEW c \in Conn, NEW l \in {"reading", "writing"}, Goto(c, l),
         hpc[c] \in {"reading", "writing"}, UNCHANGED <<clients, kick>>
  PROVE  KickInv'
<1> USE DEF IInv
<1>1. hpc' = [d \in Conn |-> IF d = c THEN l ELSE hpc[d]]
  BY DEF Goto, TypeInv, TypeOK
<1>q. QED BY <1>1 DEF KickInv, Kicked, Listed, Elems

(* Taking room.mu for a Broadcast makes this handler the only one writing.  *)
LEMMA StartBroadcastSafe ==
  ASSUME IInv, NEW c \in Conn, StartBroadcast(c)
  PROVE  SafeInv'
<1> USE DEF IInv
<1>1. /\ hpc[c] = "reading" /\ mu[croom[c]] = {} /\ croom[c] \in RoomId
      /\ mu' = [mu EXCEPT ![croom[c]] = {c}]
      /\ targets' = [targets EXCEPT ![c] = Others(c)]
      /\ hpc' = [d \in Conn |-> IF d = c THEN "writing" ELSE hpc[d]]
      /\ UNCHANGED <<clients, croom, kick>>
  BY OthersType DEF StartBroadcast, Goto, TypeInv, TypeOK
<1>2. RoomsWellFormed' /\ KickInv'
  BY <1>1, BroadcastWellFormed, BroadcastKick DEF StartBroadcast
<1>3. LockInv'
  <2>1. \A r \in RoomId : mu'[r] = IF r = croom[c] THEN {c} ELSE mu[r]
    BY <1>1 DEF TypeInv, TypeOK
  <2>q. QED BY <1>1, <2>1 DEF LockInv
<1>4. TargetInv'
  <2>1. \A d \in Conn : Others(d)' = Others(d)
    BY <1>1 DEF Others, Elems
  <2>q. QED BY <1>1, <2>1 DEF TargetInv, TypeInv, TypeOK
<1>q. QED BY <1>2, <1>3, <1>4 DEF SafeInv

(* A write removes its target and leaves the list alone.                    *)
LEMMA WriteFrameSafe ==
  ASSUME IInv, NEW c \in Conn, WriteFrame(c)
  PROVE  SafeInv'
<1> USE DEF IInv
<1>1. PICK d \in targets[c] : targets' = [targets EXCEPT ![c] = @ \ {d}]
  BY DEF WriteFrame
<1>2. UNCHANGED <<clients, mu, hpc, croom, kick>>
  BY DEF WriteFrame, roomVars
<1>3. RoomsWellFormed'
  BY <1>2 DEF RoomsWellFormed
<1>4. LockInv' /\ KickInv'
  BY <1>2 DEF LockInv, KickInv, Elems
<1>5. TargetInv'
  <2>1. \A b \in Conn : Others(b)' = Others(b)
    BY <1>2 DEF Others, Elems
  <2>2. \A b \in Conn : targets'[b] \subseteq targets[b]
    BY <1>1 DEF TypeInv, TypeOK
  <2>q. QED BY <1>2, <2>1, <2>2 DEF TargetInv
<1>q. QED BY <1>3, <1>4, <1>5 DEF SafeInv

(* Releasing room.mu is safe: no target is left.                            *)
LEMMA EndBroadcastSafe ==
  ASSUME IInv, NEW c \in Conn, EndBroadcast(c)
  PROVE  SafeInv'
<1> USE DEF IInv
<1>1. /\ hpc[c] = "writing" /\ croom[c] \in RoomId
      /\ mu' = [mu EXCEPT ![croom[c]] = {}]
      /\ hpc' = [d \in Conn |-> IF d = c THEN "reading" ELSE hpc[d]]
      /\ UNCHANGED <<clients, croom, targets, kick>>
  BY OthersType DEF EndBroadcast, Goto, TypeInv, TypeOK
<1>2. RoomsWellFormed' /\ KickInv'
  BY <1>1, BroadcastWellFormed, BroadcastKick DEF EndBroadcast
<1>3. LockInv'
  <2>1. \A r \in RoomId : mu'[r] = IF r = croom[c] THEN {} ELSE mu[r]
    BY <1>1 DEF TypeInv, TypeOK
  <2>2. mu[croom[c]] = {c}
    BY <1>1 DEF LockInv, TypeInv, TypeOK
  <2>3. \A b \in Conn : hpc[b] = "writing" /\ croom[b] = croom[c] => b = c
    BY <1>1, <2>2 DEF LockInv
  <2>q. QED BY <1>1, <2>1, <2>3 DEF LockInv
<1>4. TargetInv'
  <2>1. \A d \in Conn : Others(d)' = Others(d)
    BY <1>1 DEF Others, Elems
  <2>q. QED BY <1>1, <2>1 DEF TargetInv
<1>q. QED BY <1>2, <1>3, <1>4 DEF SafeInv

(* An empty list lists nobody.                                              *)
LEMMA EmptyElems == Elems(<< >>) = {}
  BY DEF Elems

(* RemoveClient empties the list and so becomes the only one to kick.       *)
LEMMA RemoveClientSafe ==
  ASSUME IInv, NEW c \in Conn, RemoveClient(c)
  PROVE  SafeInv'
<1> USE DEF IInv
<1> DEFINE r == croom[c]
<1>1. /\ hpc[c] = "removing" /\ mu[r] = {} /\ r \in RoomId
      /\ hpc' = [d \in Conn |-> IF d = c THEN "kicking" ELSE hpc[d]]
      /\ UNCHANGED <<mu, croom, targets>>
  BY OthersType DEF RemoveClient, Goto, TypeInv, TypeOK
<1>2. \A q \in RoomId : q # r => clients'[q] = clients[q]
  BY <1>1 DEF RemoveClient, TypeInv, TypeOK
<1>3. /\ c \notin Elems(clients'[r])
      /\ Elems(clients'[r]) \subseteq Elems(clients[r])
      /\ clients'[r] \in {clients[r], << >>}
  <2>1. CASE c \notin Elems(clients[r])
    BY <2>1 DEF RemoveClient
  <2>2. CASE c \in Elems(clients[r])
    BY <1>1, <2>2, EmptyElems DEF RemoveClient, Remaining, TypeInv, TypeOK
  <2>q. QED BY <2>1, <2>2
<1>4. \A q \in RoomId : /\ c \notin Elems(clients'[q])
                        /\ Elems(clients'[q]) \subseteq Elems(clients[q])
  BY <1>1, <1>2, <1>3, ListedInRoom
<1>5. RoomsWellFormed'
  <2>1. ASSUME NEW q \in RoomId, NEW i \in 1 .. Len(clients'[q])
        PROVE  croom'[clients'[q][i]] = q /\ hpc'[clients'[q][i]] \in Listed
    <3>1. clients'[q][i] \in Elems(clients'[q])
      BY DEF Elems
    <3>2. clients'[q][i] # c /\ clients'[q][i] \in Elems(clients[q])
      BY <1>4, <3>1
    <3>q. QED BY <1>1, <3>2, ListedInRoom
  <2>2. \A q \in RoomId : clients'[q] = clients[q] \/ clients'[q] = << >>
    BY <1>2, <1>3
  <2>q. QED BY <2>1, <2>2 DEF RoomsWellFormed
<1>6. LockInv'
  BY <1>1 DEF LockInv
<1>7. TargetInv'
  <2>1. ASSUME NEW b \in Conn, hpc'[b] = "writing"
        PROVE  targets'[b] \subseteq Others(b)'
    <3>1. hpc[b] = "writing" /\ croom[b] \in RoomId
      BY <1>1, <2>1, OthersType
    <3>2. croom[b] # r
      BY <1>1, <3>1 DEF LockInv
    <3>3. Elems(clients'[croom[b]]) = Elems(clients[croom[b]])
      BY <1>2, <3>1, <3>2
    <3>q. QED BY <1>1, <3>1, <3>3 DEF TargetInv, Others
  <2>q. QED BY <2>1 DEF TargetInv
<1>8. KickInv'
  <2>1. kick[c] = {}
    BY <1>1 DEF KickInv, TypeInv, TypeOK
  <2>2. \A b \in Conn : b # c => kick'[b] = kick[b]
    BY DEF RemoveClient, TypeInv, TypeOK
  <2>3. CASE c \in Elems(clients[r])
    <3>1. /\ kick'[c] = Elems(clients[r]) \ {c}
          /\ Elems(clients'[r]) = {}
      BY <1>1, <2>3, EmptyElems
         DEF RemoveClient, Remaining, ToKick, Others, TypeInv, TypeOK
    <3>2. ASSUME NEW d \in kick'[c]
          PROVE  /\ d \in Conn /\ d # c /\ hpc'[d] \in Kicked
                 /\ \A q \in RoomId : d \notin Elems(clients'[q])
                 /\ \A b \in Conn : b # c => d \notin kick[b]
      <4>1. d \in Elems(clients[r]) /\ d # c
        BY <3>1
      <4>2. d \in Conn /\ croom[d] = r /\ hpc[d] \in Listed
        BY <1>1, <4>1, ListedInRoom
      <4>3. \A q \in RoomId : d \notin Elems(clients'[q])
        BY <1>1, <1>2, <3>1, <4>2, ListedInRoom
      <4>4. \A b \in Conn : d \notin kick[b]
        BY <1>1, <4>1, <4>2 DEF KickInv
      <4>q. QED BY <1>1, <4>1, <4>2, <4>3, <4>4 DEF Kicked
    <3>3. ASSUME NEW b \in Conn, b # c, NEW d \in Conn, d \in kick'[b]
          PROVE  /\ hpc'[b] = "kicking" /\ d # b /\ hpc'[d] \in Kicked
                 /\ \A q \in RoomId : d \notin Elems(clients'[q])
                 /\ \A a \in Conn : d \in kick'[a] => a = b
      <4>1. d \in kick[b]
        BY <2>2, <3>3
      <4>2. /\ hpc[b] = "kicking" /\ d # b /\ hpc[d] \in Kicked
            /\ \A q \in RoomId : d \notin Elems(clients[q])
            /\ \A a \in Conn : d \in kick[a] => a = b
        BY <3>3, <4>1 DEF KickInv
      <4>3. d \notin kick'[c]
        BY <3>2, <3>3, <4>1
      <4>q. QED BY <1>1, <1>4, <2>2, <3>3, <4>2, <4>3 DEF Kicked
    <3>4. hpc'[c] = "kicking"
      BY <1>1
    <3>q. QED BY <2>2, <3>2, <3>3, <3>4 DEF KickInv
  <2>4. CASE c \notin Elems(clients[r])
    <3>1. kick' = kick
      BY <2>4 DEF RemoveClient
    <3>2. \A d \in Conn : hpc[d] \in Kicked => hpc'[d] \in Kicked
      BY <1>1 DEF Kicked
    <3>3. \A b \in Conn : hpc[b] = "kicking" => hpc'[b] = "kicking"
      BY <1>1
    <3>q. QED BY <1>4, <3>1, <3>2, <3>3 DEF KickInv
  <2>q. QED BY <2>3, <2>4
<1>q. QED BY <1>5, <1>6, <1>7, <1>8 DEF SafeInv

(* The kick ends with the handler: nothing is left to write to.             *)
LEMMA KickAndCloseSafe ==
  ASSUME IInv, NEW c \in Conn, KickAndClose(c)
  PROVE  SafeInv'
<1> USE DEF IInv
<1>1. /\ hpc[c] = "kicking"
      /\ hpc' = [d \in Conn |-> IF d = c THEN "done" ELSE hpc[d]]
      /\ \A d \in Conn : kick'[d] = IF d = c THEN {} ELSE kick[d]
      /\ UNCHANGED <<clients, mu, croom, targets>>
  BY DEF KickAndClose, Goto, roomVars, TypeInv, TypeOK
<1>2. \A r \in RoomId : c \notin Elems(clients[r])
  BY <1>1, ListedInRoom DEF Listed
<1>3. RoomsWellFormed'
  <2>1. ASSUME NEW r \in RoomId, NEW i \in 1 .. Len(clients[r])
        PROVE  hpc'[clients[r][i]] \in Listed
    <3>1. clients[r][i] \in Elems(clients[r])
      BY DEF Elems
    <3>q. QED BY <1>1, <1>2, <3>1, ListedInRoom
  <2>q. QED BY <1>1, <2>1 DEF RoomsWellFormed
<1>4. LockInv'
  BY <1>1 DEF LockInv
<1>5. TargetInv'
  <2>1. \A d \in Conn : Others(d)' = Others(d)
    BY <1>1 DEF Others, Elems
  <2>q. QED BY <1>1, <2>1 DEF TargetInv
<1>6. KickInv'
  BY <1>1 DEF KickInv, Kicked, Elems
<1>q. QED BY <1>3, <1>4, <1>5, <1>6 DEF SafeInv

(* Every step keeps the inductive invariant.                                *)
LEMMA NextIInv == IInv /\ [Next]_vars => IInv'
<1> SUFFICES ASSUME IInv, [Next]_vars
             PROVE  IInv'
  OBVIOUS
<1>1. TypeInv'
  BY NextTypeInv DEF IInv
<1>2. ASSUME NEW c \in Conn, HandlerStep(c)
      PROVE  SafeInv'
  <2> USE DEF Listed, Kicked, roomVars, sockVars, handlerVars
  <2>1. CASE Refuse(c)
    BY <2>1, MoveStep DEF Refuse
  <2>2. CASE ReadFails(c)
    BY <2>2, MoveStep DEF ReadFails
  <2>3. CASE CheckEmpty(c)
    BY <2>3, MoveStep DEF CheckEmpty
  <2>4. CASE DeleteRoom(c)
    BY <2>4, MoveStep DEF DeleteRoom
  <2>q. QED
    BY <1>2, <2>1, <2>2, <2>3, <2>4, GetOrCreateRoomSafe, AddClientSafe,
       StartBroadcastSafe, WriteFrameSafe, EndBroadcastSafe, RemoveClientSafe,
       KickAndCloseSafe DEF HandlerStep
<1>3. ASSUME NEW c \in Conn, ClientStep(c)
      PROVE  SafeInv'
  <2>1. CASE Dial(c)
    BY <2>1, MoveStep DEF Dial, roomVars, Listed, Kicked
  <2>2. CASE ClientLeaves(c)
    BY <2>2, QuietStep DEF ClientLeaves, roomVars, handlerVars
  <2>q. QED BY <1>3, <2>1, <2>2 DEF ClientStep
<1>4. ASSUME CleanupStep
      PROVE  SafeInv'
  <2>1. UNCHANGED <<clients, mu, hpc, croom, targets, kick>>
    BY <1>4 DEF CleanupStep, CleanupTick, CleanupEnd, CleanupRoom, roomVars, handlerVars
  <2>q. QED BY <2>1, QuietStep
<1>5. ASSUME NEW r \in RoomId, GrowIdle(r)
      PROVE  SafeInv'
  BY <1>5, QuietStep DEF GrowIdle, handlerVars
<1>6. ASSUME UNCHANGED vars
      PROVE  SafeInv'
  BY <1>6, QuietStep DEF vars, roomVars, handlerVars
<1>q. QED
  BY <1>1, <1>2, <1>3, <1>4, <1>5, <1>6 DEF Next, IInv, SafeInv

(* IInv is an invariant of the specification.                               *)
LEMMA SpecIInv == Spec => []IInv
  BY InitIInv, NextIInv, PTL DEF Spec

(* A room lists at most two connections, each once, and only connections    *)
(* whose handler is between its AddClient and its RemoveClient in that      *)
(* room, however handlers, clean-up and reconnecting clients interleave.    *)
THEOREM RoomsStayWellFormed == Spec => []RoomsWellFormed
<1>1. IInv => RoomsWellFormed
  BY DEF IInv
<1>q. QED BY <1>1, SpecIInv, PTL

(* No two goroutines of the relay ever write to one WebSocket connection:   *)
(* not two broadcasts, nor a broadcast and a kick or a refusal, although    *)
(* neither RemoveClient's kick nor the refusal holds room.mu.               *)
THEOREM OneWriterPerConnection == Spec => []OneWriter
  BY SpecIInv, IInvOneWriter, PTL
-----------------------------------------------------------------------------
(* Gaps.  A connection that is listed with a sender and still open has got  *)
(* everything from the sender's last frame it has, up to the one that is    *)
(* being broadcast; one that missed a frame is closed or listed no more,    *)
(* and a connection is listed only once.                                    *)

Sending == {"reading", "writing"}
Fresh == {"idle", "upgraded", "adding", "refusing"}

FreshInv == \A c \in Conn : hpc[c] \in Fresh => taken[c] = 0 /\ got[c] = << >>

ReadInv ==
    \A d \in Conn : \A i \in 1 .. Len(got[d]) :
       got[d][i].n > 0 /\ got[d][i].n <= taken[got[d][i].from]

UpToDate(c, d) ==
    \A i \in 1 .. Len(got[d]) :
       got[d][i].from = c /\ LastOf(d, i, Len(got[d]) + 1)
          => got[d][i].n = IF d \in targets[c] THEN taken[c] - 1 ELSE taken[c]

LastInv ==
    \A c, d \in Conn :
       hpc[c] \in Sending /\ d \in Others(c) /\ sock[d] = "open" => UpToDate(c, d)

BusyInv ==
    \A c \in Conn : IF hpc[c] = "writing" THEN taken[c] > 0 ELSE targets[c] = {}

GapInv ==
    /\ FreshInv /\ ReadInv /\ LastInv /\ NoGaps
    /\ BusyInv

(* Initially nothing has been sent.                                         *)
LEMMA InitGapInv == Init => GapInv
BY DEF Init, GapInv, FreshInv, ReadInv, LastInv, NoGaps, BusyInv, Sending

(* Steps by which nobody reads or gets a frame.                             *)
LEMMA GapSame ==
  ASSUME TypeInv, GapInv, UNCHANGED <<got, taken, targets>>,
         \A c \in Conn : /\ hpc'[c] \in Fresh => hpc[c] \in Fresh
                         /\ hpc'[c] = "writing" => hpc[c] = "writing"
                         /\ hpc'[c] # "writing" => hpc[c] # "writing" \/ targets[c] = {},
         \A d \in Conn : sock'[d] = "open" => sock[d] = "open" \/ hpc[d] \in Fresh,
         \A c, d \in Conn :
            hpc'[c] \in Sending /\ d \in Others(c)' =>
               \/ hpc[c] \in Sending /\ d \in Others(c)
               \/ hpc[c] \in Fresh \/ hpc[d] \in Fresh
  PROVE  GapInv'
<1>1. FreshInv' /\ BusyInv'
  BY DEF GapInv, FreshInv, BusyInv
<1>2. ReadInv' /\ NoGaps'
  BY DEF GapInv, ReadInv, NoGaps, LastOf
<1>3. ASSUME NEW c \in Conn, NEW d \in Conn,
             hpc'[c] \in Sending, d \in Others(c)', sock'[d] = "open"
      PROVE  UpToDate(c, d)
  <2>1. CASE hpc[d] \in Fresh
    BY <2>1 DEF GapInv, FreshInv, UpToDate
  <2>2. CASE hpc[c] \in Fresh
    <3>1. taken[c] = 0
      BY <2>2 DEF GapInv, FreshInv
    <3>2. \A i \in 1 .. Len(got[d]) : got[d][i].from # c
      <4> SUFFICES ASSUME NEW i \in 1 .. Len(got[d]), got[d][i].from = c PROVE FALSE
        OBVIOUS
      <4>1. got[d] \in Seq(Frame)
        BY DEF TypeInv, TypeOK
      <4>2. got[d][i] \in Frame
        BY <4>1, ElementOfSeq
      <4>3. got[d][i].n > 0 /\ got[d][i].n <= 0
        BY <3>1 DEF GapInv, ReadInv
      <4>4. got[d][i].n \in Nat
        BY <4>2 DEF Frame
      <4> QED BY <4>3, <4>4, SMT
    <3> QED BY <3>2 DEF UpToDate
  <2>3. CASE hpc[c] \in Sending /\ d \in Others(c) /\ hpc[d] \notin Fresh
    BY <1>3, <2>3 DEF GapInv, LastInv
  <2> QED BY <1>3, <2>1, <2>2, <2>3
<1>4. LastInv'
  BY <1>3 DEF LastInv, UpToDate, LastOf
<1> QED BY <1>1, <1>2, <1>4 DEF GapInv

(* A frame is read: those it is to go to are up to date without it.         *)
LEMMA GapStart ==
  ASSUME TypeInv, GapInv, NEW c \in Conn, StartBroadcast(c)
  PROVE  GapInv'
<1>1. /\ UNCHANGED <<got, clients, croom, sock>>
      /\ taken' = [taken EXCEPT ![c] = @ + 1] /\ targets' = [targets EXCEPT ![c] = Others(c)]
      /\ hpc' = [hpc EXCEPT ![c] = "writing"] /\ hpc[c] = "reading"
  BY DEF StartBroadcast, Goto
<1>2. /\ hpc \in [Conn -> HandlerStates] /\ taken \in [Conn -> Nat]
      /\ targets \in [Conn -> SUBSET Conn] /\ got \in [Conn -> Seq(Frame)]
  BY DEF TypeInv, TypeOK
<1>3. FreshInv' /\ BusyInv'
  <2>1. taken'[c] > 0
    BY <1>1, <1>2
  <2> QED BY <1>1, <1>2, <2>1 DEF GapInv, FreshInv, BusyInv, Fresh
<1>4. \A d \in Conn : taken[d] \in Nat /\ (taken'[d] = taken[d] \/ taken'[d] = taken[d] + 1)
  BY <1>1, <1>2
<1>5. ReadInv'
  <2> SUFFICES ASSUME NEW d \in Conn, NEW i \in 1 .. Len(got[d])
               PROVE  got[d][i].n > 0 /\ got[d][i].n <= taken'[got[d][i].from]
    BY <1>1 DEF ReadInv
  <2>1. got[d][i] \in Frame
    BY <1>2, ElementOfSeq
  <2> DEFINE n == got[d][i].n
             f == got[d][i].from
  <2>2. n \in Nat /\ f \in Conn
    BY <2>1 DEF Frame
  <2>3. n > 0 /\ n <= taken[f]
    BY DEF GapInv, ReadInv
  <2> HIDE DEF n, f
  <2>4. taken[f] \in Nat /\ (taken'[f] = taken[f] \/ taken'[f] = taken[f] + 1)
    BY <1>4, <2>2, Zenon
  <2>5. n > 0 /\ n <= taken'[f]
    BY <2>2, <2>3, <2>4, SMT
  <2> QED BY <2>5 DEF n, f
<1>6. NoGaps'
  BY <1>1 DEF GapInv, NoGaps, LastOf
<1>7. ASSUME NEW e \in Conn, NEW d \in Conn, hpc'[e] \in Sending, d \in Others(e)',
             sock'[d] = "open"
      PROVE  UpToDate(e, d)'
  <2>1. d \in Others(e) /\ hpc[e] \in Sending
    BY <1>1, <1>2, <1>7 DEF Others, Sending
  <2>2. UpToDate(e, d)
    BY <1>1, <1>7, <2>1 DEF GapInv, LastInv
  <2>3. CASE e = c
    <3>1. targets[c] = {} /\ d \in targets'[c] /\ taken'[c] - 1 = taken[c]
      <4>1. targets[c] = {}
        BY <1>1 DEF GapInv, BusyInv
      <4> QED BY <1>1, <1>2, <2>1, <2>3, <4>1
    <3> QED BY <1>1, <2>2, <2>3, <3>1 DEF UpToDate, LastOf
  <2>4. CASE e # c
    <3>1. targets'[e] = targets[e] /\ taken'[e] = taken[e]
      BY <1>1, <2>4
    <3> QED BY <1>1, <2>2, <3>1 DEF UpToDate, LastOf
  <2> QED BY <2>3, <2>4
<1>8. LastInv'
  BY <1>7 DEF LastInv
<1> QED BY <1>3, <1>5, <1>6, <1>8 DEF GapInv

(* A write: the frame follows the last one of its sender that is there.     *)
LEMMA GapWrite ==
  ASSUME IInv, GapInv, NEW c \in Conn, WriteFrame(c)
  PROVE  GapInv'
<1> USE DEF IInv
<1> DEFINE f == [from |-> c, n |-> taken[c]]
<1>1. PICK d \in targets[c] :
          /\ targets' = [targets EXCEPT ![c] = @ \ {d}]
          /\ \/ /\ sock[d] = "open" /\ got' = [got EXCEPT ![d] = Append(@, f)]
                /\ UNCHANGED sock
             \/ got' = got /\ (sock' = sock \/ Close({d}))
                /\ sock'[d] # "open"
  BY DEF WriteFrame, WriteFailed, Close, TypeInv, TypeOK
<1>2. UNCHANGED <<hpc, clients, croom, taken>> /\ hpc[c] = "writing"
  BY DEF WriteFrame, roomVars
<1>3. /\ hpc \in [Conn -> HandlerStates] /\ taken \in [Conn -> Nat]
      /\ targets \in [Conn -> SUBSET Conn] /\ got \in [Conn -> Seq(Frame)]
      /\ sock \in [Conn -> {"open", "gone", "closed"}] /\ d \in Conn /\ f \in Frame
  BY <1>1 DEF TypeInv, TypeOK, Frame
<1>4. d \in Others(c) /\ hpc[d] \in Listed
  <2>1. d \in Others(c) /\ croom[c] \in RoomId
    BY <1>1, <1>2, OthersType DEF TargetInv
  <2> QED BY <2>1, ListedInRoom DEF Others
<1>5. \A e \in Conn : sock'[e] = "open" => sock[e] = "open"
  BY <1>1, <1>3 DEF Close
<1>6. BusyInv' /\ taken[c] > 0
  BY <1>1, <1>2, <1>3 DEF GapInv, BusyInv
<1>7. \A e \in Conn : Others(e)' = Others(e)
  BY <1>2 DEF Others
<1>8. ASSUME NEW e \in Conn, NEW b \in Conn, e # c \/ b # d
      PROVE  b \in targets'[e] <=> b \in targets[e]
  BY <1>1, <1>3, <1>8
<1>9. CASE got' = got
  <2>1. FreshInv' /\ ReadInv' /\ NoGaps'
    BY <1>2, <1>9 DEF GapInv, FreshInv, ReadInv, NoGaps, LastOf
  <2>2. ASSUME NEW e \in Conn, NEW b \in Conn, hpc'[e] \in Sending, b \in Others(e)',
               sock'[b] = "open"
        PROVE  UpToDate(e, b)'
    <3>1. UpToDate(e, b)
      BY <1>2, <1>5, <1>7, <2>2 DEF GapInv, LastInv
    <3>2. CASE b # d
      BY <1>2, <1>8, <1>9, <3>1, <3>2 DEF UpToDate, LastOf
    <3>3. CASE b = d
      <4>1. sock[d] = "open" /\ got' = [got EXCEPT ![d] = Append(@, f)]
        BY <1>1, <2>2, <3>3
      <4>2. Len(got'[d]) = Len(got[d]) + 1 /\ Len(got[d]) \in Nat
        BY <1>3, <4>1, AppendProperties, LenProperties
      <4> QED BY <1>9, <4>2
    <3> QED BY <3>2, <3>3
  <2>3. LastInv'
    BY <2>2 DEF LastInv
  <2> QED BY <1>6, <2>1, <2>3 DEF GapInv
<1>10. CASE sock[d] = "open" /\ got' = [got EXCEPT ![d] = Append(@, f)] /\ UNCHANGED sock
  <2>0. PICK N \in Nat : N = Len(got[d])
    BY <1>3, LenProperties
  <2>1. got[d] \in Seq(Frame)
    BY <1>3
  <2> HIDE DEF f
  <2>2. /\ N \in Nat /\ Len(got'[d]) = N + 1 /\ got'[d][N + 1] = f
        /\ \A i \in 1 .. N : got'[d][i] = got[d][i]
    BY <1>3, <1>10, <2>0, <2>1, AppendProperties, LenProperties
  <2>3. \A b \in Conn : b # d => got'[b] = got[b]
    BY <1>3, <1>10
  <2>4. f.from = c /\ f.n = taken[c] /\ taken[c] \in Nat
    BY <1>3 DEF f
  <2>5. UpToDate(c, d)
    <3>1. hpc[c] \in Sending
      BY <1>2 DEF Sending
    <3> QED BY <1>3, <1>4, <1>10, <3>1 DEF GapInv, LastInv
  <2>6. \A i \in 1 .. N : got[d][i] \in Frame
    BY <2>0, <2>1, ElementOfSeq
  <2>61. \A i \in 1 .. N : got[d][i].from \in Conn /\ got[d][i].n \in Nat
    BY <2>6 DEF Frame
  <2>62. \A i \in 1 .. N : LastOf(d, i, N + 1) /\ got[d][i].from = c => got[d][i].n = taken[c] - 1
    BY <1>1, <2>0, <2>5 DEF UpToDate
  <2>63. \A i \in 1 .. N : got[d][i].n > 0 /\ got[d][i].n <= taken[got[d][i].from]
    BY <1>3, <2>0 DEF GapInv, ReadInv
  <2>7. 1 .. N + 1 = (1 .. N) \cup {N + 1}
    BY <2>2, SMT
  <2>8. FreshInv'
    <3>1. hpc[d] \notin Fresh
      BY <1>4 DEF Listed, Fresh
    <3> QED BY <1>2, <2>3, <3>1 DEF GapInv, FreshInv
  <2>9. ReadInv'
    <3> SUFFICES ASSUME NEW b \in Conn, NEW i \in 1 .. Len(got'[b])
                 PROVE  got'[b][i].n > 0 /\ got'[b][i].n <= taken[got'[b][i].from]
      BY <1>2 DEF ReadInv
    <3>1. CASE b # d
      BY <2>3, <3>1 DEF GapInv, ReadInv
    <3>2. CASE b = d /\ i \in 1 .. N
      BY <2>2, <2>63, <3>2
    <3>3. CASE b = d /\ i = N + 1
      BY <1>6, <2>2, <2>4, <3>3, SMT
    <3> QED BY <2>2, <2>7, <3>1, <3>2, <3>3
  <2>10. ASSUME NEW i \in 1 .. N, NEW j \in 1 .. N + 1
         PROVE  LastOf(d, i, j)' <=> LastOf(d, i, j)
    <3>1. \A k \in i + 1 .. j - 1 : k \in 1 .. N
      BY <2>2, <2>10, SMT
    <3> QED BY <2>2, <2>10, <3>1 DEF LastOf
  <2>11. NoGaps'
    <3> SUFFICES ASSUME NEW b \in Conn, NEW i \in 1 .. Len(got'[b]), NEW j \in 1 .. Len(got'[b]),
                        i < j, got'[b][i].from = got'[b][j].from, LastOf(b, i, j)'
                 PROVE  got'[b][j].n = got'[b][i].n + 1
      BY DEF NoGaps
    <3>1. CASE b # d
      <4>1. got'[b] = got[b]
        BY <2>3, <3>1
      <4>2. LastOf(b, i, j)
        BY <4>1 DEF LastOf
      <4>3. i \in 1 .. Len(got[b]) /\ j \in 1 .. Len(got[b])
        BY <4>1
      <4>4. got[b][j].n = got[b][i].n + 1
        BY <4>1, <4>2, <4>3, Zenon DEF GapInv, NoGaps
      <4> QED BY <4>1, <4>4
    <3>2. CASE b = d
      <4>1. i \in 1 .. N /\ j \in 1 .. N + 1 /\ i < j
        BY <2>2, <3>2, SMT
      <4>2. LastOf(d, i, j) /\ got'[d][i] = got[d][i]
        BY <2>2, <2>10, <3>2, <4>1
      <4>3. CASE j \in 1 .. N
        <5>1. got'[d][j] = got[d][j] /\ N = Len(got[d])
          BY <2>0, <2>2, <4>3
        <5> QED BY <3>2, <4>1, <4>2, <4>3, <5>1 DEF GapInv, NoGaps
      <4>4. CASE j = N + 1
        <5>1. got'[d][j] = f /\ got[d][i].from = c
          BY <2>2, <2>4, <3>2, <4>2, <4>4
        <5>2. got[d][i].n = taken[c] - 1
          BY <2>62, <4>1, <4>2, <4>4, <5>1
        <5> QED BY <2>4, <3>2, <4>2, <5>1, <5>2, SMT
      <4> QED BY <2>7, <4>1, <4>3, <4>4
    <3> QED BY <3>1, <3>2
  <2>12. ASSUME NEW e \in Conn, NEW b \in Conn, hpc'[e] \in Sending, b \in Others(e)',
                sock'[b] = "open"
         PROVE  UpToDate(e, b)'
    <3>1. UpToDate(e, b)
      BY <1>2, <1>5, <1>7, <2>12 DEF GapInv, LastInv
    <3>2. CASE b # d
      <4>1. b \in targets'[e] <=> b \in targets[e]
        BY <1>8, <3>2
      <4>2. got'[b] = got[b]
        BY <2>3, <3>2
      <4> QED BY <1>2, <3>1, <4>1, <4>2 DEF UpToDate, LastOf
    <3>3. CASE b = d
      <4> SUFFICES ASSUME NEW i \in 1 .. N + 1, got'[d][i].from = e, LastOf(d, i, N + 2)'
                   PROVE  got'[d][i].n = IF d \in targets'[e] THEN taken[e] - 1 ELSE taken[e]
        <5>1. Len(got'[d]) + 1 = N + 2
          BY <2>2, SMT
        <5> QED BY <1>2, <2>2, <3>3, <5>1 DEF UpToDate
      <4>1. CASE i = N + 1
        <5>1. e = c /\ d \notin targets'[c]
          BY <1>1, <1>3, <2>2, <2>4, <4>1
        <5> QED BY <2>2, <2>4, <4>1, <5>1
      <4>2. CASE i \in 1 .. N
        <5>1. N + 1 \in i + 1 .. (N + 2) - 1
          BY <2>2, <4>2, SMT
        <5>2. c # e /\ got'[d][i] = got[d][i]
          BY <2>2, <2>4, <4>2, <5>1 DEF LastOf
        <5>3. \A k \in i + 1 .. N : k \in i + 1 .. (N + 2) - 1 /\ k \in 1 .. N
          BY <2>2, <4>2, SMT
        <5>4. \A k \in i + 1 .. N : got[d][k].from # got[d][i].from
          BY <2>2, <5>2, <5>3 DEF LastOf
        <5>5. (N + 1) - 1 = N
          BY <2>2, SMT
        <5>6. LastOf(d, i, N + 1)
          BY <5>4, <5>5 DEF LastOf
        <5>7. d \in targets'[e] <=> d \in targets[e]
          BY <1>3, <1>8, <5>2
        <5>8. got[d][i].n = IF d \in targets[e] THEN taken[e] - 1 ELSE taken[e]
          BY <2>0, <3>1, <3>3, <4>2, <5>2, <5>6 DEF UpToDate
        <5> QED BY <5>2, <5>7, <5>8
      <4> QED BY <2>7, <4>1, <4>2
    <3> QED BY <3>2, <3>3
  <2>13. LastInv'
    BY <2>12 DEF LastInv
  <2> QED BY <1>6, <2>8, <2>9, <2>11, <2>13 DEF GapInv
<1> QED BY <1>1, <1>9, <1>10

(* Every step keeps the gap invariant.                                      *)
LEMMA NextGapInv == IInv /\ GapInv /\ [Next]_vars => GapInv'
<1> SUFFICES ASSUME IInv, GapInv, [Next]_vars
             PROVE  GapInv'
  OBVIOUS
<1> USE DEF roomVars, sockVars, handlerVars
<1>t. /\ TypeInv /\ hpc \in [Conn -> HandlerStates] /\ croom \in [Conn -> 0 .. made]
      /\ clients \in [RoomId -> Seq(Conn)]
      /\ sock \in [Conn -> {"open", "gone", "closed"}]
  BY DEF IInv, TypeInv, TypeOK
<1>l. \A c \in Conn : UNCHANGED <<clients, croom>> => Others(c)' = Others(c)
  BY DEF Others
<1>1. ASSUME NEW c \in Conn, GetOrCreateRoom(c)
      PROVE  GapInv'
  <2>1. /\ UNCHANGED <<clients, sock, got, taken, targets>>
        /\ hpc[c] = "upgraded" /\ hpc' = [hpc EXCEPT ![c] = "adding"]
        /\ \A e \in Conn : e # c => croom'[e] = croom[e]
    BY <1>1, <1>t DEF GetOrCreateRoom, Goto
  <2>2. \A e \in Conn : e # c => Others(e)' = Others(e)
    BY <2>1 DEF Others
  <2> QED BY <1>t, <2>1, <2>2, GapSame DEF Fresh, Sending
<1>2. ASSUME NEW c \in Conn, AddClient(c)
      PROVE  GapInv'
  <2>1. /\ UNCHANGED <<sock, got, taken, targets, croom>>
        /\ hpc[c] = "adding" /\ croom[c] \in RoomId
        /\ hpc' \in {[hpc EXCEPT ![c] = "reading"], [hpc EXCEPT ![c] = "refusing"]}
        /\ clients' \in {clients, [clients EXCEPT ![croom[c]] = Append(@, c)]}
    BY <1>2, OthersType DEF AddClient, Goto, IInv
  <2>2. \A e \in Conn : Elems(clients'[croom[e]]) \subseteq Elems(clients[croom[e]]) \cup {c}
    <3>1. CASE clients' = clients
      BY <3>1
    <3>2. CASE clients' = [clients EXCEPT ![croom[c]] = Append(@, c)]
      <4>2. /\ clients'[croom[c]] = Append(clients[croom[c]], c)
            /\ clients[croom[c]] \in Seq(Conn)
        BY <1>t, <2>1, <3>2
      <4>1. Elems(clients'[croom[c]]) = Elems(clients[croom[c]]) \cup {c}
        BY <4>2 DEF Elems
      <4>3. \A e \in Conn : croom[e] # croom[c] => clients'[croom[e]] = clients[croom[e]]
        <5>1. DOMAIN clients' = RoomId /\ DOMAIN clients = RoomId
          BY <1>t, <3>2
        <5> QED BY <1>t, <3>2 DEF RoomId
      <4> QED BY <4>1, <4>2, <4>3
    <3> QED BY <2>1, <3>1, <3>2
  <2>3. \A e \in Conn : Others(e)' \subseteq Others(e) \cup {c}
    BY <2>1, <2>2 DEF Others
  <2> QED BY <1>t, <2>1, <2>3, GapSame DEF Fresh, Sending
<1>3. ASSUME NEW c \in Conn, RemoveClient(c)
      PROVE  GapInv'
  <2>1. /\ UNCHANGED <<sock, got, taken, targets, croom>> /\ croom[c] \in RoomId
        /\ hpc[c] = "removing" /\ hpc' = [hpc EXCEPT ![c] = "kicking"]
        /\ clients' \in {clients, [clients EXCEPT ![croom[c]] = << >>]}
    BY <1>3, OthersType DEF RemoveClient, Remaining, Goto, IInv
  <2>2. \A e \in Conn : Others(e)' \subseteq Others(e)
    <3>1. CASE clients' = clients
      BY <2>1, <3>1 DEF Others
    <3>2. CASE clients' = [clients EXCEPT ![croom[c]] = << >>]
      <4>1. \A e \in Conn : clients'[croom[e]] = clients[croom[e]] \/ clients'[croom[e]] = << >>
        BY <1>t, <2>1, <3>2
      <4> QED BY <2>1, <4>1, EmptyElems DEF Others
    <3> QED BY <2>1, <3>1, <3>2
  <2> QED BY <1>t, <2>1, <2>2, GapSame DEF Fresh, Sending
<1>4. ASSUME NEW c \in Conn,
             \/ Refuse(c) \/ EndBroadcast(c) \/ ReadFails(c) \/ CheckEmpty(c)
             \/ DeleteRoom(c) \/ KickAndClose(c) \/ Dial(c) \/ ClientLeaves(c)
      PROVE  GapInv'
  <2>1. UNCHANGED <<got, taken, targets, clients, croom>>
    BY <1>4 DEF Refuse, EndBroadcast, ReadFails, CheckEmpty, DeleteRoom, KickAndClose,
                Dial, ClientLeaves
  <2>2. /\ \A e \in Conn : e # c => hpc'[e] = hpc[e]
        /\ \/ hpc'[c] = hpc[c]
           \/ hpc[c] = "idle" /\ hpc'[c] = "upgraded"
           \/ hpc[c] = "writing" /\ targets[c] = {} /\ hpc'[c] = "reading"
           \/ /\ hpc[c] \notin {"idle", "upgraded", "adding", "writing"}
              /\ hpc'[c] \in {"done", "checking", "deleting", "removing"}
    BY <1>4, <1>t DEF Refuse, EndBroadcast, ReadFails, CheckEmpty, DeleteRoom,
                      KickAndClose, Dial, ClientLeaves, Goto
  <2>3. \A e \in Conn : sock'[e] = "open" => sock[e] = "open" \/ hpc[e] \in Fresh
    BY <1>4, <1>t DEF Refuse, EndBroadcast, ReadFails, CheckEmpty, DeleteRoom,
                      KickAndClose, Dial, ClientLeaves, Close, Fresh
  <2>4. \A e \in Conn : hpc'[e] \in Sending => hpc[e] \in Sending
    BY <2>2 DEF Sending
  <2>5. \A e \in Conn : hpc'[e] \in Fresh => hpc[e] \in Fresh
    BY <2>2 DEF Fresh
  <2>6. \A e \in Conn : /\ hpc'[e] = "writing" => hpc[e] = "writing"
                        /\ hpc'[e] # "writing" => hpc[e] # "writing" \/ targets[e] = {}
    BY <2>2
  <2> QED BY <1>t, <1>l, <2>1, <2>3, <2>4, <2>5, <2>6, GapSame
<1>5. ASSUME CleanupStep \/ (\E r \in RoomId : GrowIdle(r)) \/ UNCHANGED vars
      PROVE  GapInv'
  <2>1. UNCHANGED <<got, taken, targets, clients, croom, hpc>>
    BY <1>5 DEF CleanupStep, CleanupTick, CleanupRoom, CleanupEnd, GrowIdle, vars
  <2>2. \A e \in Conn : sock'[e] = "open" => sock[e] = "open"
    BY <1>5, <1>t DEF CleanupStep, CleanupTick, CleanupRoom, CleanupEnd, GrowIdle, vars,
                      Close
  <2> QED BY <1>t, <1>l, <2>1, <2>2, GapSame
<1> QED
  BY <1>1, <1>2, <1>3, <1>4, <1>5, GapStart, GapWrite
     DEF Next, HandlerStep, ClientStep, IInv

(* From any one sender a client receives consecutive frames, in the order   *)
(* sent: whoever misses a frame, because a write to it failed, gets nothing *)
(* more, although later broadcasts still find it in the room's list.        *)
THEOREM NoGapsEver == Spec => []NoGaps
<1>1. GapInv => NoGaps
  BY DEF GapInv
<1>q. QED BY <1>1, SpecIInv, InitGapInv, NextGapInv, PTL DEF Spec

=============================================================================
