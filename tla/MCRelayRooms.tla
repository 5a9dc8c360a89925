---------------------------- MODULE MCRelayRooms ----------------------------
(* Clients of one passphrase.  Three are enough for a pair, its end, and a  *)
(* newcomer that falls between two steps of a handler that is leaving; a    *)
(* fourth one then looks for a partner in the room that is left.            *)
EXTENDS RelayRooms

CONSTANTS c1, c2, c3, c4, t1

(* One client talks: enough to hold room.mu at every point of the others;   *)
(* three frames, so that one can get lost in between.                        *)
ThreeFrames == [c \in Conn |-> IF c = c1 THEN 3 ELSE 0]

(* Every room may grow old ...                                               *)
AllRooms == RoomId

(* ... or none does: the cleanup loop finds nothing to remove, and what     *)
(* happens to a room is its handlers' doing.                                 *)
NoRoom == {}

(* Nobody talks: who meets whom is decided by joining and leaving.           *)
Silent == [c \in Conn |-> 0]
=============================================================================
