------------------------------ MODULE Delivery ------------------------------
(***************************************************************************)
(* What a receiving DROP client promises about the directory it writes to,  *)
(* whatever happens to connections and processes: files appear in it under  *)
(* a name nobody uses, and never change again; they are whole, unless a     *)
(* closing data channel has damaged this very file on its way; what is      *)
(* reported to the user has been delivered.  Transfer implements it.        *)
(***************************************************************************)
EXTENDS Integers

VARIABLES
    store,      \* the directory's files: path to contents
    outbox,     \* the files senders have been asked to send
    delivered,  \* paths delivered and not yet reported
    reported,   \* paths reported to the user
    damaged     \* files of which the connection has dropped something

vars == <<store, outbox, delivered, reported, damaged>>

NamedLike(p, f) == p = [f.name EXCEPT !.n = p.n]

Offer == /\ outbox \subseteq outbox'
         /\ UNCHANGED <<store, delivered, reported, damaged>>

Damage == /\ damaged \subseteq damaged' /\ damaged' \subseteq outbox
          /\ UNCHANGED <<store, outbox, delivered, reported>>

Deliver ==
    \E f \in outbox, p \in DOMAIN store' \ DOMAIN store :
        /\ NamedLike(p, f)
        /\ DOMAIN store' = DOMAIN store \cup {p}
        /\ f \notin damaged => store'[p] = f.data
        /\ \A q \in DOMAIN store : store'[q] = store[q]
        /\ delivered' = delivered \cup {p}
        /\ UNCHANGED <<outbox, reported, damaged>>

Report == /\ reported' = reported \cup delivered
          /\ delivered' = {}
          /\ UNCHANGED <<store, outbox, damaged>>

(* ReceiveFiles does not return the files of a batch its sender restarted.  *)
Forget == /\ delivered' = {}
          /\ UNCHANGED <<store, outbox, reported, damaged>>

NewSession == /\ delivered' = {} /\ reported' = {} /\ damaged' = {}
              /\ UNCHANGED store

Init == outbox = {} /\ delivered = {} /\ reported = {} /\ damaged = {}

Next == Offer \/ Damage \/ Deliver \/ Report \/ Forget \/ NewSession

Spec == Init /\ [][Next]_vars
=============================================================================
