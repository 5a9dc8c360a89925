----------------------------- MODULE RelayRooms -----------------------------
(***************************************************************************)
(* The relay's rooms: RoomManager and Room of rooms.go, and one             *)
(* handleWebSocket goroutine per client connection.  rm.mu and room.mu are  *)
(* explicit where a step of another goroutine can fall between lock and     *)
(* unlock or between two critical sections of a handler: a Broadcast writes *)
(* to sockets with room.mu held, the cleanup loop walks the rooms with      *)
(* rm.mu held, and a handler takes the locks one after the other.           *)
(*                                                                          *)
(* A frame is [from, n]: the n-th binary frame its client sent.             *)
(***************************************************************************)
EXTENDS Integers, Sequences, FiniteSets

CONSTANTS
    Conn,       \* WebSocket connections, one handler goroutine each
    Token,      \* room tokens
    MaxRooms,   \* bound: Room objects allocated
    Quiet,      \* bound: the Room objects for which ten quiet minutes may pass
    MaxFrames   \* bound: frames each client sends

ASSUME BoundAssumption == MaxRooms \in Nat /\ MaxFrames \in [Conn -> Nat]

RoomId == 1 .. MaxRooms

None == 0           \* no room (room ids start at 1)

VARIABLES
    rooms,      \* rm.rooms: token to Room, None when absent
    made,       \* Room objects allocated so far
    clients,    \* room.clients
    idle,       \* room.lastActivity is more than 10 minutes ago
    mu,         \* who holds room.mu across steps: {c} or {}
    rmMu,       \* the cleanup loop holds rm.mu
    todo,       \* the tokens the cleanup loop has still to look at
    hpc,        \* where each handler is
    token,      \* the token of its URL
    croom,      \* its "room"
    targets,    \* Broadcast: connections still to be written to
    kick,       \* RemoveClient: toKick
    sock,       \* "open", "gone" (the client left), "closed" by the relay
    taken,      \* frames the handler has read
    got         \* frames that reached the client

sockVars == <<sock, taken, got>>
handlerVars == <<hpc, token, croom, targets, kick>>
roomVars == <<rooms, made, clients, idle, mu>>
vars == <<roomVars, rmMu, todo, handlerVars, sockVars>>

Elems(s) == {s[i] : i \in 1 .. Len(s)}

Frame == [from : Conn, n : Nat]

Init ==
    /\ rooms = [t \in Token |-> None] /\ made = 0
    /\ clients = [r \in RoomId |-> << >>]
    /\ idle = [r \in RoomId |-> FALSE]
    /\ mu = [r \in RoomId |-> {}] /\ rmMu = FALSE /\ todo = {}
    /\ hpc = [c \in Conn |-> "idle"]
    /\ token \in [Conn -> Token]
    /\ croom = [c \in Conn |-> None]
    /\ targets = [c \in Conn |-> {}] /\ kick = [c \in Conn |-> {}]
    /\ sock = [c \in Conn |-> "closed"]
    /\ taken = [c \in Conn |-> 0]
    /\ got = [c \in Conn |-> << >>]

Goto(c, l) == hpc' = [hpc EXCEPT ![c] = l]

Close(S) == sock' = [d \in Conn |-> IF d \in S THEN "closed" ELSE sock[d]]

-----------------------------------------------------------------------------
(* The client's side of a connection.                                       *)

Dial(c) ==
    /\ hpc[c] = "idle"
    /\ Goto(c, "upgraded")
    /\ sock' = [sock EXCEPT ![c] = "open"]
    /\ UNCHANGED <<roomVars, rmMu, todo, token, croom, targets, kick, taken, got>>

(* It closes its socket, or its network goes away.                          *)
ClientLeaves(c) ==
    /\ sock[c] = "open"
    /\ sock' = [sock EXCEPT ![c] = "gone"]
    /\ UNCHANGED <<roomVars, rmMu, todo, handlerVars, taken, got>>

-----------------------------------------------------------------------------
(* handleWebSocket, step by step.                                           *)

NewRoomSkewed == made + 2  \* mutant: the room entered is not the room made

NewRoom == made + 1

(* GetOrCreateRoom, under rm.mu.                                            *)
GetOrCreateRoom(c) ==
    /\ hpc[c] = "upgraded" /\ ~rmMu
    /\ \/ /\ rooms[token[c]] # None
          /\ croom' = [croom EXCEPT ![c] = rooms[token[c]]]
          /\ UNCHANGED <<rooms, made, idle>>
       \/ /\ rooms[token[c]] = None /\ made < MaxRooms
          /\ made' = made + 1
          /\ rooms' = [rooms EXCEPT ![token[c]] = NewRoom]
          /\ idle' = [idle EXCEPT ![NewRoom] = FALSE]
          /\ croom' = [croom EXCEPT ![c] = NewRoom]
    /\ Goto(c, "adding")
    /\ UNCHANGED <<clients, mu, rmMu, todo, token, targets, kick, sockVars>>

FullLate(r) == Len(clients[r]) > 2  \* mutant: off by one

(* AddClient, under room.mu: at most two.                                   *)
Full(r) == Len(clients[r]) >= 2

AddClient(c) ==
    /\ hpc[c] = "adding" /\ mu[croom[c]] = {}
    /\ \/ /\ ~Full(croom[c])
          /\ clients' = [clients EXCEPT ![croom[c]] = Append(@, c)]
          /\ idle' = [idle EXCEPT ![croom[c]] = FALSE]
          /\ Goto(c, "reading")
       \/ /\ Full(croom[c])
          /\ Goto(c, "refusing")
          /\ UNCHANGED <<clients, idle>>
    /\ UNCHANGED <<rooms, made, mu, rmMu, todo, token, croom, targets, kick, sockVars>>

(* The close frame "room full" is written, the connection closed.           *)
Refuse(c) ==
    /\ hpc[c] = "refusing"
    /\ Goto(c, "done") /\ Close({c})
    /\ UNCHANGED <<roomVars, rmMu, todo, token, croom, targets, kick, taken, got>>

(* ReadMessage returns a frame, sent at any time before: one already        *)
(* buffered is read even if the socket is closed by now.  Broadcast takes   *)
(* room.mu and keeps it while it writes to every client of the room but the *)
(* sender.                                                                  *)
Others(c) == Elems(clients[croom[c]]) \ {c}

StartBroadcast(c) ==
    /\ hpc[c] = "reading" /\ taken[c] < MaxFrames[c]
    /\ mu[croom[c]] = {}
    /\ taken' = [taken EXCEPT ![c] = @ + 1]
    /\ idle' = [idle EXCEPT ![croom[c]] = FALSE]
    /\ mu' = [mu EXCEPT ![croom[c]] = {c}]
    /\ targets' = [targets EXCEPT ![c] = Others(c)]
    /\ Goto(c, "writing")
    /\ UNCHANGED <<rooms, made, clients, rmMu, todo, token, croom, kick, sock, got>>

WriteFailedKept(d) == UNCHANGED sock  \* mutant: a failed write is ignored

WriteFailed(d) == Close({d})

(* One write: it reaches the client, vanishes with a client that left, or   *)
(* fails (error or 10 s deadline), and the connection is closed.            *)
WriteFrame(c) ==
    /\ hpc[c] = "writing"
    /\ \E d \in targets[c] :
          /\ targets' = [targets EXCEPT ![c] = @ \ {d}]
          /\ \/ /\ sock[d] = "open"
                /\ got' = [got EXCEPT ![d] = Append(@, [from |-> c, n |-> taken[c]])]
                /\ UNCHANGED sock
             \/ /\ sock[d] = "gone"
                /\ UNCHANGED <<sock, got>>
             \/ WriteFailed(d) /\ UNCHANGED got
    /\ UNCHANGED <<roomVars, rmMu, todo, hpc, token, croom, kick, taken>>

EndBroadcast(c) ==
    /\ hpc[c] = "writing" /\ targets[c] = {}
    /\ mu' = [mu EXCEPT ![croom[c]] = {}]
    /\ Goto(c, "reading")
    /\ UNCHANGED <<rooms, made, clients, idle, rmMu, todo, token, croom, targets, kick,
                   sockVars>>

ReadErrorMissed(c) == sock[c] = "gone"  \* mutant: the relay's own Close is missed

(* ReadMessage fails and the loop ends.                                     *)
ReadError(c) == sock[c] # "open"

ReadFails(c) ==
    /\ hpc[c] = "reading" /\ ReadError(c)
    /\ Goto(c, "checking")
    /\ UNCHANGED <<roomVars, rmMu, todo, token, croom, targets, kick, sockVars>>

(* isEmpty, under room.mu ...                                               *)
CheckEmpty(c) ==
    /\ hpc[c] = "checking" /\ mu[croom[c]] = {}
    /\ Goto(c, IF clients[croom[c]] = << >> THEN "deleting" ELSE "removing")
    /\ UNCHANGED <<roomVars, rmMu, todo, token, croom, targets, kick, sockVars>>

(* ... then DeleteRoom(token), under rm.mu: whatever room has the token.    *)
DeleteRoom(c) ==
    /\ hpc[c] = "deleting" /\ ~rmMu
    /\ rooms' = [rooms EXCEPT ![token[c]] = None]
    /\ Goto(c, "removing")
    /\ UNCHANGED <<made, clients, idle, mu, rmMu, todo, token, croom, targets, kick,
                   sockVars>>

(* The deferred RemoveClient: nothing if the client is no longer listed.    *)
(* It leaves an empty list: out of a pair, the other one is dropped as      *)
(* well, to be kicked once room.mu is released.                             *)
ToKickNone(c) == {}  \* mutant: the remaining peer is only dropped

ToKick(c) == Others(c)

RemainingListed(c) ==   \* mutant: the kicked peer stays listed
    SelectSeq(clients[croom[c]], LAMBDA d : d # c)

Remaining(c) == << >>

RemoveClient(c) ==
    LET r == croom[c] IN
    /\ hpc[c] = "removing" /\ mu[r] = {}
    /\ IF c \notin Elems(clients[r])
       THEN UNCHANGED <<clients, kick>>
       ELSE /\ clients' = [clients EXCEPT ![r] = Remaining(c)]
            /\ kick' = [kick EXCEPT ![c] = ToKick(c)]
    /\ Goto(c, "kicking")
    /\ UNCHANGED <<rooms, made, idle, mu, rmMu, todo, token, croom, targets, sockVars>>

(* toKick gets its close frame and is closed; then the handler's own        *)
(* connection.                                                              *)
KickAndClose(c) ==
    /\ hpc[c] = "kicking"
    /\ Close(kick[c] \cup {c})
    /\ kick' = [kick EXCEPT ![c] = {}]
    /\ Goto(c, "done")
    /\ UNCHANGED <<roomVars, rmMu, todo, token, croom, targets, taken, got>>

-----------------------------------------------------------------------------
(* RoomManager's own goroutine: every minute, with rm.mu held, rooms idle   *)
(* for more than ten minutes lose their connections and their entry.        *)

CleanupTick ==
    /\ ~rmMu
    /\ rmMu' = TRUE
    /\ todo' = {t \in Token : rooms[t] # None}
    /\ UNCHANGED <<roomVars, handlerVars, sockVars>>

ExpiredBusy(r) == idle[r] /\ clients[r] # << >>  \* mutant: empty rooms are skipped

Expired(r) == idle[r]

CleanupRoom(t) ==
    /\ rmMu /\ t \in todo /\ mu[rooms[t]] = {}
    /\ todo' = todo \ {t}
    /\ IF Expired(rooms[t])
       THEN /\ Close(Elems(clients[rooms[t]]))
            /\ rooms' = [rooms EXCEPT ![t] = None]
       ELSE UNCHANGED <<sock, rooms>>
    /\ UNCHANGED <<made, clients, idle, mu, rmMu, handlerVars, taken, got>>

CleanupEnd ==
    /\ rmMu /\ todo = {}
    /\ rmMu' = FALSE
    /\ UNCHANGED <<roomVars, todo, handlerVars, sockVars>>

(* Ten quiet minutes pass for a room.  Handlers between two steps, and      *)
(* writes with their 10 s deadline, do not take that long.                  *)
GrowIdle(r) ==
    /\ r \in Quiet /\ r <= made /\ ~idle[r]
    /\ \A c \in Conn : hpc[c] \in {"idle", "reading", "done"}
    /\ idle' = [idle EXCEPT ![r] = TRUE]
    /\ UNCHANGED <<rooms, made, clients, mu, rmMu, todo, handlerVars, sockVars>>

-----------------------------------------------------------------------------
HandlerStep(c) ==
    \/ GetOrCreateRoom(c) \/ AddClient(c) \/ Refuse(c)
    \/ StartBroadcast(c) \/ WriteFrame(c) \/ EndBroadcast(c)
    \/ ReadFails(c) \/ CheckEmpty(c) \/ DeleteRoom(c)
    \/ RemoveClient(c) \/ KickAndClose(c)

CleanupStep == CleanupTick \/ CleanupEnd \/ \E t \in Token : CleanupRoom(t)

ClientStep(c) == Dial(c) \/ ClientLeaves(c)

Next ==
    \/ \E c \in Conn : HandlerStep(c) \/ ClientStep(c)
    \/ CleanupStep
    \/ \E r \in RoomId : GrowIdle(r)

Spec == Init /\ [][Next]_vars

(* Handlers run on; a Go mutex does not starve a waiter, so a handler that  *)
(* finds a lock free again and again gets it (SF).  The cleanup ticker      *)
(* fires and time passes.  Clients owe nothing.                             *)
Fairness ==
    /\ \A c \in Conn : SF_vars(HandlerStep(c))
    /\ WF_vars(CleanupStep)
    /\ \A r \in RoomId : WF_vars(GrowIdle(r))

FairSpec == Spec /\ Fairness

-----------------------------------------------------------------------------
(* Properties.                                                              *)

HandlerStates == {"idle", "upgraded", "adding", "refusing", "reading", "writing",
                  "checking", "deleting", "removing", "kicking", "done"}

(* Every variable keeps its shape; a room in the map has been made and a    *)
(* handler has not read more than its client sends.                         *)
TypeOK ==
    /\ made \in 0 .. MaxRooms
    /\ rooms \in [Token -> 0 .. made]
    /\ clients \in [RoomId -> Seq(Conn)]
    /\ idle \in [RoomId -> BOOLEAN]
    /\ mu \in [RoomId -> SUBSET Conn]
    /\ rmMu \in BOOLEAN /\ todo \in SUBSET Token
    /\ hpc \in [Conn -> HandlerStates]
    /\ token \in [Conn -> Token]
    /\ croom \in [Conn -> 0 .. made]
    /\ targets \in [Conn -> SUBSET Conn] /\ kick \in [Conn -> SUBSET Conn]
    /\ sock \in [Conn -> {"open", "gone", "closed"}]
    /\ taken \in [Conn -> Nat] /\ \A c \in Conn : taken[c] <= MaxFrames[c]
    /\ got \in [Conn -> Seq(Frame)]

Listed == {"reading", "writing", "checking", "deleting", "removing"}

(* A room lists at most two connections, each once, and only connections    *)
(* whose handler is between its AddClient and its RemoveClient in this very *)
(* room, so no connection is listed in two rooms.                           *)
RoomsWellFormed ==
    \A r \in RoomId :
       /\ Len(clients[r]) <= 2
       /\ \A i \in 1 .. Len(clients[r]) :
             /\ croom[clients[r][i]] = r /\ hpc[clients[r][i]] \in Listed
             /\ \A j \in 1 .. Len(clients[r]) : clients[r][i] = clients[r][j] => i = j

(* The goroutines that are writing, or about to, to the connection d:       *)
(* broadcasters, a handler that kicks d, d's own handler refusing it.       *)
Writers(d) ==
    {c \in Conn : \/ hpc[c] = "writing" /\ d \in targets[c]
                  \/ hpc[c] = "kicking" /\ d \in kick[c]
                  \/ hpc[c] = "refusing" /\ d = c}

(* gorilla/websocket allows one concurrent writer per connection.  room.mu  *)
(* is not held for the kick, nor for the refusal: still no two goroutines   *)
(* of the relay ever write to one connection.                               *)
OneWriter == \A d \in Conn : \A b, c \in Writers(d) : b = c

(* Nothing that d got between i and j comes from the sender of i.           *)
LastOf(d, i, j) ==
    \A k \in i + 1 .. j - 1 : got[d][k].from # got[d][i].from

(* From any one sender a client receives consecutive frames, in the order   *)
(* sent: a write that fails closes the connection, so nothing is delivered  *)
(* after a gap.                                                             *)
NoGaps ==
    \A d \in Conn : \A i, j \in 1 .. Len(got[d]) :
       i < j /\ got[d][i].from = got[d][j].from /\ LastOf(d, i, j)
          => got[d][j].n = got[d][i].n + 1

(* A peer is stranded while it is listed with a gone client, or was dropped *)
(* from the list and not yet kicked.                                        *)
Stranded(d) ==
    /\ hpc[d] = "reading" /\ sock[d] = "open"
    /\ \/ d \notin Elems(clients[croom[d]])
       \/ \E c \in Elems(clients[croom[d]]) : sock[c] # "open"

HandlerEnded(c) == hpc[c] \in {"idle", "done"}

(* Nothing is left behind: when one of a pair is gone the other one is      *)
(* disconnected, the handler of a client that is gone ends (no lock is      *)
(* kept, no goroutine leaks) and an empty room does not stay in the map.    *)
(* Connections are finitely many, so "eventually for each of them" is that  *)
(* again and again all of it holds at once.                                 *)
Settled ==
    /\ \A c \in Conn : ~Stranded(c) /\ (sock[c] = "open" \/ HandlerEnded(c))
    /\ \A t \in Token : rooms[t] # None => clients[rooms[t]] # << >>

Settles == []<>Settled

(* Two clients of one token meet: it never happens that both are admitted,  *)
(* connected and alone, each in a room of its own.                          *)
Alone(c) == hpc[c] = "reading" /\ sock[c] = "open" /\ clients[croom[c]] = << c >>

SameTokenMeets ==
    \A c, d \in Conn : Alone(c) /\ Alone(d) /\ token[c] = token[d] => c = d
=============================================================================
