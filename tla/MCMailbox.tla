----------------------------- MODULE MCMailbox -----------------------------
(* Two uploads, of one token or of two, in any interleaving, so also one    *)
(* after the other expired; one download, into a directory that holds a     *)
(* file of the same name.  The uploads are of one file, of two from two     *)
(* folders with the same name, of two of which the second has a name only   *)
(* the sender's system allows, or of more than may be sent.                 *)
EXTENDS Mailbox

CONSTANTS u1, u2, t1, t2, d1

File(name, content) == [name |-> name, content |-> content]
One == <<File(<<1, 2>>, <<3>>)>>
Same == <<File(<<1>>, <<4, 5>>), File(<<1>>, << >>)>>
Odd == <<File(<<1>>, <<6>>), File(<<2>>, <<7>>)>>
Many == Same \o One

AnySelection == {One, Same, Odd, Many}
SameNames == {Same}
OddName == {<<2>>}
OneFile == {[name |-> <<1>>, no |-> 0, content |-> <<8>>]}
=============================================================================
