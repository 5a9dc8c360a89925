----------------------------- MODULE MCTransfer -----------------------------
(* A directory with one name in it, two full chunk contents and one short   *)
(* one.  The batches share names, prefixes and whole-chunk lengths, so that *)
(* copies, honest resumes, stale partial files and edited files all occur.  *)
EXTENDS Transfer

CONSTANTS a, x, y, t, z

P(n, part) == [base |-> a, n |-> n, part |-> part]

F(data) == [name |-> P(0, 0), data |-> data]

MCBatches == { << F(<< x, t >>), F(<< y >>) >>, << F(<< x, x >>) >> }

MCDisks ==
    { << >>,
      [p \in {P(0, 1)} |-> << x, t >>],
      [p \in {P(0, 1)} |-> << x, t, y >>],
      [p \in {P(0, 0), P(0, 1)} |-> << x >>],
      [p \in {P(0, 1), P(1, 1)} |-> << x >>] }

(* The same, with a file whose own name ends in ".part".                    *)
Named(part, data) == [name |-> P(0, part), data |-> data]

PartBatches == { << Named(1, << x >>), Named(0, << y >>) >> }
=============================================================================
