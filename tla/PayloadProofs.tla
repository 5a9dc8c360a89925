--------------------------- MODULE PayloadProofs ---------------------------
EXTENDS Payload, FiniteSetTheorems, SequenceTheorems, TLAPS

(* Induction over the natural numbers, for sets.                            *)
LEMMA Least ==
  ASSUME NEW T \in SUBSET Nat, T # {}
  PROVE  \E m \in T : \A k \in T : m <= k
<1> DEFINE R == OpToRel(<, Nat)
<1>1. IsWellFoundedOn(R, Nat)
  BY NatLessThanWellFounded
<1>2. \A a, b \in Nat : <<a, b>> \in R <=> a < b
  BY DEF OpToRel
<1> HIDE DEF R
<1>3. PICK m \in T : \A k \in T : ~(<<k, m>> \in R)
  BY <1>1, WFMin
<1>4. \A k \in T : ~(k < m)
  BY <1>2, <1>3
<1> QED BY <1>4

LEMMA Inductive ==
  ASSUME NEW T, 0 \in T, \A k \in Nat : k \in T => k + 1 \in T
  PROVE  \A n \in Nat : n \in T
<1> SUFFICES ASSUME NEW n \in Nat, n \notin T PROVE FALSE
  OBVIOUS
<1> DEFINE U == Nat \ T
<1>1. PICK m \in U : \A k \in U : m <= k
  <2>1. U \in SUBSET Nat /\ U # {}
    OBVIOUS
  <2> HIDE DEF U
  <2> QED BY <2>1, Least
<1>2. m # 0 /\ m \in Nat
  OBVIOUS
<1>3. m - 1 \in Nat /\ m - 1 \in T
  BY <1>1, <1>2
<1>4. m - 1 + 1 = m
  BY <1>2
<1> QED BY <1>1, <1>3, <1>4

-----------------------------------------------------------------------------
(* Packing: what one round of EncodeAMB2's loop appends, and where.         *)

Start(fs) == [buf |-> <<Magic, Len(fs)>>, total |-> 0]

AddEntry(s, f) ==
    [buf |-> s.buf \o <<Len(f.name)>> \o f.name \o <<Len(f.content)>> \o f.content,
     total |-> s.total + Len(f.content)]

Packed == [buf : Seq(Nat), total : Nat]

(* Where the next entry starts.                                             *)
At(b) == Len(b) + 1

LEMMA EntryTypes ==
  ASSUME NEW f \in Entry
  PROVE  /\ f.name \in Seq(Nat) /\ f.content \in Seq(Nat)
         /\ f.name \in Seq(Byte) /\ f.content \in Seq(Byte)
         /\ Len(f.name) \in Nat /\ Len(f.content) \in Nat
         /\ f = [name |-> f.name, content |-> f.content]
<1>1. f.name \in Seq(Byte) /\ f.content \in Seq(Byte)
  BY DEF Entry
<1>2. Byte \subseteq Nat
  BY DEF Byte
<1>3. f.name \in Seq(Nat) /\ f.content \in Seq(Nat)
  BY <1>1, <1>2, SeqMonotonic
<1>4. f = [name |-> f.name, content |-> f.content]
  BY DEF Entry
<1> QED BY <1>1, <1>3, <1>4, LenProperties

(* An element between two sequences, by places.                             *)
Join(a, e, b) == a \o <<e>> \o b

IsJoin(t, a, e, b) ==
    /\ t \in Seq(Nat) /\ Len(a) \in Nat /\ Len(b) \in Nat /\ Len(t) = Len(a) + 1 + Len(b)
    /\ \A i \in 1 .. Len(a) : t[i] = a[i]
    /\ t[Len(a) + 1] = e
    /\ \A i \in 1 .. Len(b) : t[Len(a) + 1 + i] = b[i]

LEMMA Joined ==
  ASSUME NEW a \in Seq(Nat), NEW e \in Nat, NEW b \in Seq(Nat)
  PROVE  IsJoin(Join(a, e, b), a, e, b)
<1> DEFINE c == Append(a, e)
           t == c \o b
<1>1. /\ c \in Seq(Nat) /\ Len(c) = Len(a) + 1 /\ c[Len(a) + 1] = e
      /\ \A i \in 1 .. Len(a) : c[i] = a[i]
      /\ Len(a) \in Nat /\ Len(b) \in Nat
  BY AppendProperties, LenProperties
<1>2. c = a \o <<e>>
  BY AppendIsConcat
<1> HIDE DEF c
<1>3. /\ t \in Seq(Nat) /\ Len(t) = Len(c) + Len(b)
      /\ \A i \in 1 .. Len(c) + Len(b) : t[i] = IF i <= Len(c) THEN c[i] ELSE b[i - Len(c)]
  BY <1>1, ConcatProperties, ZenonT(40)
<1> HIDE DEF t
<1>4. ASSUME NEW i \in 1 .. Len(b) PROVE t[Len(a) + 1 + i] = b[i]
  <2> DEFINE k == Len(a) + 1 + i
  <2>1. k \in 1 .. Len(c) + Len(b) /\ ~(k <= Len(c)) /\ k - Len(c) = i
    BY <1>1, SMTT(30)
  <2> HIDE DEF k
  <2>2. t[k] = IF k <= Len(c) THEN c[k] ELSE b[k - Len(c)]
    BY <1>3, <2>1, Zenon
  <2>3. t[k] = b[i]
    BY <2>1, <2>2, Zenon
  <2> QED BY <2>3 DEF k
<1>5. ASSUME NEW i \in 1 .. Len(a) + 1 PROVE t[i] = c[i]
  <2>1. i \in 1 .. Len(c) + Len(b) /\ i <= Len(c)
    BY <1>1
  <2> QED BY <1>3, <2>1, Zenon
<1>6. (\A i \in 1 .. Len(a) : t[i] = a[i]) /\ t[Len(a) + 1] = e
  <2>1. Len(a) + 1 \in 1 .. Len(a) + 1 /\ \A i \in 1 .. Len(a) : i \in 1 .. Len(a) + 1
    BY <1>1
  <2>2. t[Len(a) + 1] = c[Len(a) + 1]
    BY <1>5, <2>1
  <2>3. \A i \in 1 .. Len(a) : t[i] = c[i]
    BY <1>5, <2>1
  <2> QED BY <1>1, <2>2, <2>3
<1>7. t = Join(a, e, b)
  BY <1>2 DEF t, Join
<1>8. IsJoin(t, a, e, b)
  BY <1>1, <1>3, <1>4, <1>6 DEF IsJoin
<1> QED BY <1>7, <1>8

LEMMA Added ==
  ASSUME NEW s \in Packed, NEW f \in Entry
  PROVE  LET t == AddEntry(s, f).buf
             a == At(s.buf)
             n == Len(f.name)
             m == Len(f.content)
         IN  /\ AddEntry(s, f) \in Packed
             /\ a \in Nat /\ Len(t) = a + 1 + n + m
             /\ \A i \in 1 .. Len(s.buf) : t[i] = s.buf[i]
             /\ t[a] = n
             /\ \A i \in 1 .. n : t[a + i] = f.name[i]
             /\ t[a + 1 + n] = m
             /\ \A i \in 1 .. m : t[a + 1 + n + i] = f.content[i]
<1> DEFINE b == s.buf
           n == Len(f.name)
           m == Len(f.content)
           u == Join(b, n, f.name)
           t == Join(u, m, f.content)
<1>1. b \in Seq(Nat) /\ s.total \in Nat
  BY DEF Packed
<1>2. n \in Nat /\ m \in Nat /\ f.name \in Seq(Nat) /\ f.content \in Seq(Nat)
  BY EntryTypes
<1>3. AddEntry(s, f) = [buf |-> t, total |-> s.total + m]
  BY DEF AddEntry, Join
<1> HIDE DEF b, n, m
<1>4. /\ u \in Seq(Nat) /\ Len(b) \in Nat /\ Len(u) = Len(b) + 1 + Len(f.name)
      /\ \A i \in 1 .. Len(b) : u[i] = b[i]
      /\ u[Len(b) + 1] = n
      /\ \A i \in 1 .. Len(f.name) : u[Len(b) + 1 + i] = f.name[i]
  <2>1. IsJoin(u, b, n, f.name)
    BY <1>1, <1>2, Joined
  <2> HIDE DEF u
  <2> QED BY <2>1 DEF IsJoin
<1> HIDE DEF u
<1>5. /\ t \in Seq(Nat) /\ Len(t) = Len(u) + 1 + Len(f.content)
      /\ \A i \in 1 .. Len(u) : t[i] = u[i]
      /\ t[Len(u) + 1] = m
      /\ \A i \in 1 .. Len(f.content) : t[Len(u) + 1 + i] = f.content[i]
  <2>1. IsJoin(t, u, m, f.content)
    BY <1>2, <1>4, Joined
  <2> HIDE DEF t
  <2> QED BY <2>1 DEF IsJoin
<1> HIDE DEF t
<1>6. Len(f.name) = n /\ Len(f.content) = m
  BY DEF n, m
<1>7. Len(b) + 1 \in Nat /\ Len(t) = Len(b) + 1 + 1 + n + m
      /\ Len(u) + 1 = Len(b) + 1 + 1 + n
  BY <1>2, <1>4, <1>5, <1>6
<1>8. ASSUME NEW i \in 1 .. Len(b) PROVE t[i] = b[i]
  <2>1. i \in 1 .. Len(u)
    BY <1>2, <1>4, <1>6
  <2>2. u[i] = b[i] /\ t[i] = u[i]
    BY <1>4, <1>5, <2>1, Zenon
  <2> QED BY <2>2
<1>9. t[Len(b) + 1] = n
  <2> DEFINE k == Len(b) + 1
  <2>1. k \in 1 .. Len(u)
    BY <1>2, <1>4, <1>6
  <2> HIDE DEF k
  <2>2. t[k] = u[k]
    BY <1>5, <2>1, Zenon
  <2> QED BY <1>4, <2>2, Zenon DEF k
<1>10. ASSUME NEW i \in 1 .. n PROVE t[Len(b) + 1 + i] = f.name[i]
  <2> DEFINE k == Len(b) + 1 + i
  <2>1. k \in 1 .. Len(u) /\ i \in 1 .. Len(f.name)
    BY <1>2, <1>4, <1>6
  <2>2. u[k] = f.name[i]
    BY <1>4, <2>1, Zenon
  <2> HIDE DEF k
  <2>3. t[k] = f.name[i]
    BY <1>5, <2>1, <2>2, Zenon
  <2> QED BY <2>3, Zenon DEF k
<1>11. AddEntry(s, f) \in Packed /\ AddEntry(s, f).buf = t
  BY <1>1, <1>2, <1>3, <1>5 DEF Packed
<1> HIDE DEF AddEntry
<1> QED BY <1>5, <1>6, <1>7, <1>8, <1>9, <1>10, <1>11 DEF At, b, n, m

-----------------------------------------------------------------------------
(* The buffers of EncodeAMB2, one after the other.                          *)

IsChain(g, fs, n) ==
    /\ g \in [0 .. n -> Packed]
    /\ g[0] = Start(fs)
    /\ \A i \in 1 .. n : g[i] = AddEntry(g[i-1], fs[i])

LEMMA StartTypes ==
  ASSUME NEW fs \in Seq(Entry)
  PROVE  /\ Start(fs) \in Packed /\ At(Start(fs).buf) = 3 /\ Len(Start(fs).buf) = 2
         /\ Start(fs).buf[1] = Magic /\ Start(fs).buf[2] = Len(fs)
<1>1. Len(fs) \in Nat /\ Magic \in Nat
  BY LenProperties DEF Magic
<1> HIDE DEF Magic
<1> DEFINE b == <<Magic, Len(fs)>>
<1>2. b \in Seq(Nat) /\ Len(b) = 2 /\ b[1] = Magic /\ b[2] = Len(fs)
  BY <1>1
<1>3. Start(fs) = [buf |-> b, total |-> 0]
  BY DEF Start
<1> HIDE DEF b
<1>4. Start(fs) \in Packed
  BY <1>2, <1>3 DEF Packed
<1>5. Start(fs).buf = b
  BY <1>3
<1> HIDE DEF Start
<1>6. At(b) = 3
  BY <1>2 DEF At
<1> QED BY <1>2, <1>4, <1>5, <1>6

LEMMA ChainExists ==
  ASSUME NEW fs \in Seq(Entry)
  PROVE  \E g : IsChain(g, fs, Len(fs))
<1> DEFINE n == Len(fs)
           T == {k \in Nat : k <= n => \E g : IsChain(g, fs, k)}
<1>0. n \in Nat /\ \A i \in 1 .. n : fs[i] \in Entry
  BY LenProperties, ElementOfSeq
<1> HIDE DEF n
<1>1. 0 \in T
  <2> DEFINE g == [i \in 0 .. 0 |-> Start(fs)]
  <2>1. IsChain(g, fs, 0)
    BY StartTypes DEF IsChain
  <2> QED BY <2>1
<1>2. ASSUME NEW k \in Nat, k \in T PROVE k + 1 \in T
  <2> SUFFICES ASSUME k + 1 <= n PROVE \E h : IsChain(h, fs, k + 1)
    OBVIOUS
  <2>1. PICK g : IsChain(g, fs, k)
    BY <1>0, <1>2
  <2> DEFINE e == AddEntry(g[k], fs[k + 1])
             h == [i \in 0 .. k + 1 |-> IF i = k + 1 THEN e ELSE g[i]]
  <2>2. g[k] \in Packed /\ fs[k + 1] \in Entry
    BY <1>0, <2>1 DEF IsChain
  <2>3. e \in Packed
    BY <2>2, Added
  <2>4. h \in [0 .. k + 1 -> Packed]
    <3> HIDE DEF e
    <3>1. \A i \in 0 .. k + 1 : (IF i = k + 1 THEN e ELSE g[i]) \in Packed
      <4> SUFFICES ASSUME NEW i \in 0 .. k + 1, i # k + 1 PROVE g[i] \in Packed
        BY <2>3
      <4>1. i \in 0 .. k
        OBVIOUS
      <4> QED BY <2>1, <4>1 DEF IsChain
    <3> QED BY <3>1
  <2>5. h[0] = Start(fs)
    BY <2>1 DEF IsChain
  <2>6. ASSUME NEW i \in 1 .. k + 1 PROVE h[i] = AddEntry(h[i-1], fs[i])
    <3> i - 1 \in 0 .. k + 1 /\ i - 1 # k + 1 /\ i \in 0 .. k + 1
      OBVIOUS
    <3>1. h[i - 1] = g[i - 1]
      OBVIOUS
    <3>2. CASE i = k + 1
      <4>1. h[i] = e /\ i - 1 = k
        BY <3>2
      <4> QED BY <3>1, <3>2, <4>1
    <3>3. CASE i # k + 1
      <4>1. h[i] = g[i] /\ i \in 1 .. k
        BY <3>3
      <4>2. g[i] = AddEntry(g[i-1], fs[i])
        BY <2>1, <4>1 DEF IsChain
      <4> QED BY <3>1, <4>1, <4>2
    <3> QED BY <3>2, <3>3
  <2> HIDE DEF h
  <2>7. IsChain(h, fs, k + 1)
    BY <2>4, <2>5, <2>6 DEF IsChain
  <2> QED BY <2>7
<1>3. n \in T
  <2> HIDE DEF T
  <2> QED BY <1>0, <1>1, <1>2, Inductive
<1> QED BY <1>3 DEF n

(* One unfolding of the recursive function of Written, and what solves it:  *)
(* the chain, and nothing else.                                             *)
PackRound(fs, w) ==
    [i \in 0 .. Len(fs) |->
       IF i = 0 THEN [buf |-> <<Magic, Len(fs)>>, total |-> 0]
       ELSE LET f == fs[i]
            IN  [buf |-> w[i-1].buf \o <<Len(f.name)>> \o f.name
                              \o <<Len(f.content)>> \o f.content,
                 total |-> w[i-1].total + Len(f.content)]]

LEMMA RoundAt ==
  ASSUME NEW fs \in Seq(Entry), NEW w
  PROVE  /\ DOMAIN PackRound(fs, w) = 0 .. Len(fs)
         /\ PackRound(fs, w) = [i \in 0 .. Len(fs) |-> PackRound(fs, w)[i]]
         /\ PackRound(fs, w)[0] = Start(fs)
         /\ \A i \in 1 .. Len(fs) : PackRound(fs, w)[i] = AddEntry(w[i-1], fs[i])
<1>1. Len(fs) \in Nat
  BY LenProperties
<1>2. DOMAIN PackRound(fs, w) = 0 .. Len(fs)
      /\ PackRound(fs, w) = [i \in 0 .. Len(fs) |-> PackRound(fs, w)[i]]
  BY DEF PackRound
<1>3. 0 \in 0 .. Len(fs) /\ \A i \in 1 .. Len(fs) : i \in 0 .. Len(fs) /\ i # 0
  BY <1>1
<1>4. PackRound(fs, w)[0] = Start(fs)
  BY <1>3, Zenon DEF PackRound, Start
<1>5. ASSUME NEW i \in 1 .. Len(fs) PROVE PackRound(fs, w)[i] = AddEntry(w[i-1], fs[i])
  BY <1>3, Zenon DEF PackRound, AddEntry
<1> QED BY <1>2, <1>4, <1>5

LEMMA ChainIsRound ==
  ASSUME NEW fs \in Seq(Entry), NEW g, IsChain(g, fs, Len(fs))
  PROVE  g = PackRound(fs, g)
<1>1. Len(fs) \in Nat
  BY LenProperties
<1>2. ASSUME NEW i \in 0 .. Len(fs) PROVE g[i] = PackRound(fs, g)[i]
  <2>1. CASE i = 0
    BY <2>1, RoundAt, Zenon DEF IsChain
  <2>2. CASE i # 0
    <3>1. i \in 1 .. Len(fs)
      BY <2>2, <1>1
    <3> QED BY <3>1, RoundAt, Zenon DEF IsChain
  <2> QED BY <2>1, <2>2
<1>3. g = [i \in 0 .. Len(fs) |-> g[i]]
  BY DEF IsChain
<1>4. [i \in 0 .. Len(fs) |-> g[i]] = [i \in 0 .. Len(fs) |-> PackRound(fs, g)[i]]
  BY <1>2, Zenon
<1> QED BY <1>3, <1>4, RoundAt

LEMMA RoundIsChain ==
  ASSUME NEW fs \in Seq(Entry), NEW z, z = PackRound(fs, z)
  PROVE  IsChain(z, fs, Len(fs))
<1> DEFINE n == Len(fs)
<1>1. n \in Nat
  BY LenProperties
<1>2. /\ z[0] = Start(fs) /\ DOMAIN z = 0 .. n /\ z = [i \in 0 .. n |-> z[i]]
      /\ \A i \in 1 .. n : z[i] = AddEntry(z[i-1], fs[i])
  BY RoundAt
<1>3. \A i \in 0 .. n : z[i] \in Packed
  <2> DEFINE T == {k \in Nat : k <= n => z[k] \in Packed}
  <2>1. 0 \in T
    BY <1>2, StartTypes
  <2>2. ASSUME NEW k \in Nat, k \in T PROVE k + 1 \in T
    <3> SUFFICES ASSUME k + 1 <= n PROVE z[k + 1] \in Packed
      OBVIOUS
    <3>1. k + 1 \in 1 .. n /\ k + 1 - 1 = k /\ z[k] \in Packed
      BY <1>1, <2>2
    <3>2. fs[k + 1] \in Entry
      BY <3>1, ElementOfSeq
    <3>3. z[k + 1] = AddEntry(z[k], fs[k + 1])
      BY <1>2, <3>1
    <3> QED BY <3>1, <3>2, <3>3, Added
  <2> HIDE DEF T
  <2>3. \A k \in Nat : k \in T
    BY <2>1, <2>2, Inductive
  <2> QED BY <1>1, <2>3 DEF T
<1>4. z \in [0 .. n -> Packed]
  BY <1>2, <1>3
<1> QED BY <1>2, <1>4 DEF IsChain

(* The last buffer is the one that is sent.                                 *)
LEMMA ChainWritten ==
  ASSUME NEW fs \in Seq(Entry)
  PROVE  \E g : IsChain(g, fs, Len(fs)) /\ Written(fs) = g[Len(fs)]
<1>1. PICK g : IsChain(g, fs, Len(fs))
  BY ChainExists
<1>2. g = PackRound(fs, g)
  BY <1>1, ChainIsRound
<1> DEFINE z == CHOOSE w : w = PackRound(fs, w)
<1>3. z = PackRound(fs, z)
  BY <1>2, Zenon
<1>4. Written(fs) = z[Len(fs)]
  BY Zenon DEF Written, PackRound
<1> HIDE DEF z
<1> QED BY <1>3, <1>4, RoundIsChain

-----------------------------------------------------------------------------
(* Where the entries are in the buffer that is sent.                        *)

IsPrefixOf(b, p) == Len(b) <= Len(p) /\ \A i \in 1 .. Len(b) : p[i] = b[i]

(* The entry of f starts at place a of p.                                   *)
HasEntry(p, a, f) ==
    /\ a + 1 + Len(f.name) + Len(f.content) <= Len(p)
    /\ p[a] = Len(f.name)
    /\ \A i \in 1 .. Len(f.name) : p[a + i] = f.name[i]
    /\ p[a + 1 + Len(f.name)] = Len(f.content)
    /\ \A i \in 1 .. Len(f.content) : p[a + 1 + Len(f.name) + i] = f.content[i]

LEMMA AddedEntry ==
  ASSUME NEW s \in Packed, NEW f \in Entry, NEW p \in Seq(Nat),
         IsPrefixOf(AddEntry(s, f).buf, p)
  PROVE  /\ IsPrefixOf(s.buf, p)
         /\ HasEntry(p, At(s.buf), f)
         /\ At(s.buf) \in Nat \ {0}
         /\ At(AddEntry(s, f).buf) = At(s.buf) + 2 + Len(f.name) + Len(f.content)
<1> DEFINE t == AddEntry(s, f).buf
           a == At(s.buf)
           n == Len(f.name)
           m == Len(f.content)
<1>1. /\ AddEntry(s, f) \in Packed
      /\ a \in Nat /\ Len(t) = a + 1 + n + m
      /\ \A i \in 1 .. Len(s.buf) : t[i] = s.buf[i]
      /\ t[a] = n
      /\ \A i \in 1 .. n : t[a + i] = f.name[i]
      /\ t[a + 1 + n] = m
      /\ \A i \in 1 .. m : t[a + 1 + n + i] = f.content[i]
  BY Added
<1>2. n \in Nat /\ m \in Nat
  BY EntryTypes
<1>3. Len(s.buf) \in Nat /\ a = Len(s.buf) + 1 /\ Len(p) \in Nat
  BY LenProperties DEF Packed, At
<1>4. Len(t) <= Len(p) /\ \A i \in 1 .. Len(t) : p[i] = t[i]
  BY DEF IsPrefixOf
<1>5. At(t) = a + 2 + n + m
  <2>1. At(t) = Len(t) + 1
    BY DEF At
  <2>2. Len(t) = a + 1 + n + m /\ a \in Nat /\ n \in Nat /\ m \in Nat
    BY <1>1, <1>2
  <2> HIDE DEF t, a, n, m
  <2>3. Len(t) + 1 = a + 2 + n + m
    BY <2>2
  <2> QED BY <2>1, <2>3
<1> HIDE DEF t, a, n, m
<1>6. \A i \in 1 .. Len(s.buf) : p[i] = s.buf[i]
  <2> TAKE i \in 1 .. Len(s.buf)
  <2>1. i \in 1 .. Len(t)
    BY <1>1, <1>2, <1>3
  <2> QED BY <1>1, <1>4, <2>1
<1>7. p[a] = n
  <2>1. a \in 1 .. Len(t)
    BY <1>1, <1>2, <1>3
  <2> QED BY <1>1, <1>4, <2>1
<1>8. p[a + 1 + n] = m
  <2>1. a + 1 + n \in 1 .. Len(t)
    BY <1>1, <1>2, <1>3, SMTT(30)
  <2> QED BY <1>1, <1>4, <2>1
<1>9. ASSUME NEW i \in 1 .. n PROVE p[a + i] = f.name[i]
  <2>1. a + i \in 1 .. Len(t)
    BY <1>1, <1>2, <1>3
  <2> QED BY <1>1, <1>4, <2>1
<1>10. ASSUME NEW i \in 1 .. m PROVE p[a + 1 + n + i] = f.content[i]
  <2>1. a + 1 + n + i \in 1 .. Len(t)
    BY <1>1, <1>2, <1>3
  <2> QED BY <1>1, <1>4, <2>1
<1>11. IsPrefixOf(s.buf, p)
  <2>1. Len(s.buf) <= Len(p)
    BY <1>1, <1>2, <1>3, <1>4
  <2> QED BY <2>1, <1>6 DEF IsPrefixOf
<1>12. a + 1 + n + m <= Len(p)
  BY <1>1, <1>4
<1>13. HasEntry(p, a, f)
  BY <1>7, <1>8, <1>9, <1>10, <1>12 DEF HasEntry, n, m
<1>14. a \in Nat \ {0}
  BY <1>3
<1> QED BY <1>5, <1>11, <1>13, <1>14 DEF t, a, n, m


(* Every entry is where the one before it ended, and the last one ends      *)
(* where the buffer does.                                                   *)
HasAll(p, fs, g) ==
    /\ Len(p) >= 2 /\ p[1] = Magic /\ p[2] = Len(fs)
    /\ \A i \in 1 .. Len(fs) :
          /\ HasEntry(p, At(g[i-1].buf), fs[i])
          /\ At(g[i-1].buf) \in Nat \ {0}
          /\ At(g[i].buf) = At(g[i-1].buf) + 2 + Len(fs[i].name) + Len(fs[i].content)
    /\ At(g[0].buf) = 3 /\ At(g[Len(fs)].buf) = Len(p) + 1

LEMMA Layout ==
  ASSUME NEW fs \in Seq(Entry), NEW g, IsChain(g, fs, Len(fs)),
         NEW p \in Seq(Nat), p = g[Len(fs)].buf
  PROVE  HasAll(p, fs, g)
<1> DEFINE n == Len(fs)
           T == {k \in Nat : k <= n => IsPrefixOf(g[n - k].buf, p)}
<1>1. n \in Nat /\ \A i \in 1 .. n : fs[i] \in Entry
  BY LenProperties, ElementOfSeq
<1>2. /\ g[0] = Start(fs)
      /\ \A i \in 0 .. n : g[i] \in Packed
      /\ \A i \in 1 .. n : g[i] = AddEntry(g[i-1], fs[i])
  BY DEF IsChain
<1> HIDE DEF n
<1>3. ASSUME NEW i \in 1 .. n, IsPrefixOf(g[i].buf, p)
      PROVE  /\ IsPrefixOf(g[i-1].buf, p)
             /\ HasEntry(p, At(g[i-1].buf), fs[i])
             /\ At(g[i-1].buf) \in Nat \ {0}
             /\ At(g[i].buf) = At(g[i-1].buf) + 2 + Len(fs[i].name) + Len(fs[i].content)
  <2>1. i - 1 \in 0 .. n
    BY <1>1
  <2>2. g[i-1] \in Packed /\ fs[i] \in Entry /\ g[i] = AddEntry(g[i-1], fs[i])
    BY <1>1, <1>2, <2>1
  <2>3. IsPrefixOf(AddEntry(g[i-1], fs[i]).buf, p)
    BY <1>3, <2>2
  <2> QED BY <2>2, <2>3, AddedEntry
<1>4. 0 \in T
  <2>1. n - 0 = n /\ g[n].buf = p
    BY <1>1 DEF n
  <2>2. IsPrefixOf(p, p)
    BY LenProperties DEF IsPrefixOf
  <2> QED BY <2>1, <2>2
<1>5. ASSUME NEW k \in Nat, k \in T PROVE k + 1 \in T
  <2> SUFFICES ASSUME k + 1 <= n PROVE IsPrefixOf(g[n - (k + 1)].buf, p)
    OBVIOUS
  <2>1. n - k \in 1 .. n /\ n - (k + 1) = (n - k) - 1
    BY <1>1
  <2>2. IsPrefixOf(g[n - k].buf, p)
    BY <1>1, <1>5
  <2>3. IsPrefixOf(g[(n - k) - 1].buf, p)
    BY <1>3, <2>1, <2>2
  <2> QED BY <2>1, <2>3
<1>6. \A k \in Nat : k \in T
  <2> HIDE DEF T
  <2> QED BY <1>4, <1>5, Inductive
<1>7. ASSUME NEW i \in 0 .. n PROVE IsPrefixOf(g[i].buf, p)
  <2>1. n - i \in Nat /\ n - i <= n /\ n - (n - i) = i
    BY <1>1
  <2>2. n - i \in T
    BY <1>6, <2>1
  <2>3. IsPrefixOf(g[n - (n - i)].buf, p)
    BY <2>1, <2>2
  <2> QED BY <2>1, <2>3
<1> HIDE DEF T
<1>8. \A i \in 1 .. n :
         /\ HasEntry(p, At(g[i-1].buf), fs[i])
         /\ At(g[i-1].buf) \in Nat \ {0}
         /\ At(g[i].buf) = At(g[i-1].buf) + 2 + Len(fs[i].name) + Len(fs[i].content)
  <2> TAKE i \in 1 .. n
  <2>1. i \in 0 .. n
    BY <1>1
  <2> QED BY <1>3, <1>7, <2>1
<1>9. Len(p) >= 2 /\ p[1] = Magic /\ p[2] = Len(fs) /\ At(g[0].buf) = 3
  <2> DEFINE b == Start(fs).buf
  <2>1. At(b) = 3 /\ Len(b) = 2 /\ b[1] = Magic /\ b[2] = Len(fs)
    BY StartTypes
  <2>2. g[0].buf = b /\ 0 \in 0 .. n
    BY <1>1, <1>2
  <2>3. IsPrefixOf(b, p)
    BY <1>7, <2>2
  <2> HIDE DEF b
  <2>4. Len(b) <= Len(p) /\ \A i \in 1 .. Len(b) : p[i] = b[i]
    BY <2>3 DEF IsPrefixOf
  <2>5. p[1] = b[1] /\ p[2] = b[2]
    BY <2>1, <2>4, SMTT(30)
  <2>6. Len(p) >= 2
    BY <2>1, <2>4, LenProperties
  <2> QED BY <2>1, <2>2, <2>5, <2>6
<1>10. At(g[n].buf) = Len(p) + 1
  BY DEF At, n
<1> QED BY <1>8, <1>9, <1>10 DEF HasAll, n


-----------------------------------------------------------------------------
(* Unpacking.                                                               *)

(* Places a to b of p hold c.                                               *)
Holds(p, a, b, c) ==
    /\ a \in Nat \ {0} /\ b = a + Len(c) - 1 /\ b <= Len(p)
    /\ \A i \in 1 .. Len(c) : p[a + i - 1] = c[i]

LEMMA Stretch ==
  ASSUME NEW p, NEW a, NEW b, NEW c \in Seq(Byte), Holds(p, a, b, c)
  PROVE  SubSeq(p, a, b) = c
<1> DEFINE n == Len(c)
<1>1. n \in Nat
  BY LenProperties
<1>2. a \in Nat /\ b = a + n - 1 /\ \A i \in 1 .. n : p[a + i - 1] = c[i]
  BY DEF Holds
<1>3. \A i \in 1 .. n : c[i] \in Byte
  BY ElementOfSeq
<1> DEFINE t == SubSeq(p, a, b)
<1> HIDE DEF n, t
<1>4. \A i \in a .. b : p[i] \in Byte
  <2> TAKE i \in a .. b
  <2>1. i - a + 1 \in 1 .. n /\ a + (i - a + 1) - 1 = i
    BY <1>1, <1>2
  <2>2. p[a + (i - a + 1) - 1] = c[i - a + 1]
    BY <1>2, <2>1
  <2> QED BY <1>3, <2>1, <2>2
<1>5. a \in Int /\ b \in Int /\ b - a + 1 = n /\ (n = 0 => ~(a <= b)) /\ (n # 0 => a <= b)
  BY <1>1, <1>2, SMTT(30)
<1>6. /\ t \in Seq(Byte) /\ Len(t) = IF a <= b THEN b - a + 1 ELSE 0
      /\ \A i \in 1 .. b - a + 1 : t[i] = p[a + i - 1]
  BY <1>4, <1>5, SubSeqProperties DEF t
<1>7. Len(t) = Len(c)
  BY <1>5, <1>6 DEF n
<1>8. \A i \in 1 .. Len(t) : t[i] = c[i]
  BY <1>2, <1>5, <1>6, <1>7 DEF n
<1>9. t = c
  BY <1>6, <1>7, <1>8, SeqEqual
<1> QED BY <1>9 DEF t

(* One round of the loop takes one entry.                                   *)
LEMMA Taken ==
  ASSUME NEW p \in Seq(Nat), NEW a \in Nat \ {0}, NEW f \in Entry, NEW fl,
         HasEntry(p, a, f), Len(f.name) \in 1 .. MaxFilenameLen
  PROVE  DecodeEntry(p, [ok |-> TRUE, at |-> a, files |-> fl])
           = [ok |-> TRUE, at |-> a + 2 + Len(f.name) + Len(f.content),
              files |-> Append(fl, f)]
<1> DEFINE s == [ok |-> TRUE, at |-> a, files |-> fl]
           n == Len(f.name)
           m == Len(f.content)
<1>1. /\ n \in Nat /\ m \in Nat /\ f.name \in Seq(Byte) /\ f.content \in Seq(Byte)
      /\ f = [name |-> f.name, content |-> f.content]
  BY EntryTypes
<1>2. /\ a + 1 + n + m <= Len(p) /\ p[a] = n /\ p[a + 1 + n] = m
      /\ \A i \in 1 .. n : p[a + i] = f.name[i]
      /\ \A i \in 1 .. m : p[a + 1 + n + i] = f.content[i]
  BY DEF HasEntry
<1>3. Len(p) \in Nat /\ Len(f.name) = n /\ Len(f.content) = m
      /\ n \in 1 .. MaxFilenameLen
  BY LenProperties
<1>0. a + 1 + n + m <= Len(p)
  BY <1>2
<1>. n \in Nat /\ m \in Nat /\ Len(p) \in Nat /\ a \in Nat /\ a # 0
  BY <1>1, <1>3
<1>6. s.ok /\ s.at = a /\ s.files = fl
  OBVIOUS
<1> HIDE DEF s, n, m
<1>4. SubSeq(p, a + 1, a + n) = f.name
  <2>1. a + 1 \in Nat \ {0} /\ a + n <= Len(p) /\ a + 1 + n - 1 = a + n
    BY <1>0
  <2>2. \A i \in 1 .. n : p[a + 1 + i - 1] = f.name[i]
    <3> TAKE i \in 1 .. n
    <3>1. a + 1 + i - 1 = a + i
      OBVIOUS
    <3> QED BY <1>2, <3>1
  <2>3. Holds(p, a + 1, a + n, f.name)
    BY <1>3, <2>1, <2>2 DEF Holds
  <2> QED BY <1>1, <2>3, Stretch
<1>5. SubSeq(p, a + 2 + n, a + 1 + n + m) = f.content
  <2>1. /\ a + 2 + n \in Nat \ {0} /\ a + 1 + n + m <= Len(p)
        /\ a + 2 + n + m - 1 = a + 1 + n + m
    BY <1>0
  <2>2. \A i \in 1 .. m : p[a + 2 + n + i - 1] = f.content[i]
    <3> TAKE i \in 1 .. m
    <3>1. a + 2 + n + i - 1 = a + 1 + n + i
      OBVIOUS
    <3> QED BY <1>2, <3>1
  <2>3. Holds(p, a + 2 + n, a + 1 + n + m, f.content)
    BY <1>3, <2>1, <2>2 DEF Holds
  <2> QED BY <1>1, <2>3, Stretch
<1>7. /\ ~(Len(p) - a + 1 < 1) /\ n \in 1 .. MaxFilenameLen
      /\ ~(Len(p) - a + 1 < 1 + n + 1) /\ ~(Len(p) - a + 1 < 2 + n + m)
  BY <1>0, <1>3
<1>8. DecodeEntry(p, s) =
        [ok |-> TRUE, at |-> AfterContent(a, n, m),
         files |-> Append(fl, [name |-> SubSeq(p, a + 1, a + n),
                               content |-> SubSeq(p, a + 2 + n, a + 1 + n + m)])]
  BY <1>2, <1>6, <1>7, Zenon DEF DecodeEntry
<1>9. [name |-> SubSeq(p, a + 1, a + n),
       content |-> SubSeq(p, a + 2 + n, a + 1 + n + m)] = f
  BY <1>1, <1>4, <1>5
<1>10. AfterContent(a, n, m) = a + 2 + n + m
  BY DEF AfterContent
<1> QED BY <1>8, <1>9, <1>10 DEF s, n, m


(* The first i files.                                                       *)
Before(fs, i) == SubSeq(fs, 1, i)

LEMMA BeforeGrows ==
  ASSUME NEW fs \in Seq(Entry)
  PROVE  /\ Before(fs, 0) = << >> /\ Before(fs, Len(fs)) = fs
         /\ \A i \in 1 .. Len(fs) : Before(fs, i) = Append(Before(fs, i-1), fs[i])
<1>1. Len(fs) \in Nat
  BY LenProperties
<1>2. Before(fs, 0) = << >>
  BY SubSeqEmpty DEF Before
<1>3. Before(fs, Len(fs)) = fs
  BY SubSeqFull DEF Before
<1>4. ASSUME NEW i \in 1 .. Len(fs) PROVE Before(fs, i) = Append(Before(fs, i-1), fs[i])
  <2>1. 1 \in 1 .. Len(fs) /\ i \in 1 .. Len(fs)
    BY <1>1
  <2>2. SubSeq(fs, 1, i) = SubSeq(fs, 1, i-1) \o <<fs[i]>>
    BY <2>1, SubSeqRecursiveSecond
  <2>3. SubSeq(fs, 1, i-1) \in Seq(Entry)
    <3>1. \A k \in 1 .. i-1 : fs[k] \in Entry
      BY <1>1, ElementOfSeq
    <3>2. 1 \in Int /\ i-1 \in Int
      BY <1>1
    <3> QED BY <3>1, <3>2, SubSeqProperties
  <2>4. fs[i] \in Entry
    BY <2>1, ElementOfSeq
  <2>5. Append(SubSeq(fs, 1, i-1), fs[i]) = SubSeq(fs, 1, i-1) \o <<fs[i]>>
    BY <2>3, <2>4, AppendIsConcat
  <2> QED BY <2>2, <2>5 DEF Before
<1> QED BY <1>2, <1>3, <1>4

(* decodeAMB2 takes every entry of what EncodeAMB2 packed.                  *)
LEMMA BundleRoundTrip ==
  ASSUME NEW fs \in Seq(Entry), Len(fs) \in 1 .. MaxFilesPerSend,
         \A i \in 1 .. Len(fs) : Len(fs[i].name) \in 1 .. MaxFilenameLen
  PROVE  Decode(Written(fs).buf) = Good(fs)
<1> DEFINE n == Len(fs)
           p == Written(fs).buf
           Round(w) == [i \in 0 .. p[2] |->
             IF i = 0 THEN [ok |-> TRUE, at |-> 3, files |-> << >>]
             ELSE DecodeEntry(p, w[i-1])]
<1>1. PICK g : IsChain(g, fs, n) /\ Written(fs) = g[n]
  BY ChainWritten
<1>2. n \in Nat /\ n # 0 /\ \A i \in 1 .. n : fs[i] \in Entry
  BY LenProperties, ElementOfSeq
<1>3. p \in Seq(Nat) /\ p = g[n].buf
  <2>1. g[n] \in Packed
    BY <1>1, <1>2 DEF IsChain
  <2> QED BY <1>1, <2>1 DEF Packed
<1> HIDE DEF p
<1>4. /\ Len(p) >= 2 /\ p[1] = Magic /\ p[2] = n
      /\ \A i \in 1 .. n :
            /\ HasEntry(p, At(g[i-1].buf), fs[i])
            /\ At(g[i-1].buf) \in Nat \ {0}
            /\ At(g[i].buf) = At(g[i-1].buf) + 2 + Len(fs[i].name) + Len(fs[i].content)
      /\ At(g[0].buf) = 3 /\ At(g[n].buf) = Len(p) + 1
  <2>1. IsChain(g, fs, Len(fs)) /\ p = g[Len(fs)].buf /\ p \in Seq(Nat)
    BY <1>1, <1>3
  <2>2. HasAll(p, fs, g)
    BY <2>1, Layout
  <2> QED BY <2>2 DEF HasAll
<1> DEFINE State(i) == [ok |-> TRUE, at |-> At(g[i].buf), files |-> Before(fs, i)]
           r == [i \in 0 .. n |-> State(i)]
<1>5. ASSUME NEW i \in 1 .. n PROVE State(i) = DecodeEntry(p, State(i-1))
  <2> DEFINE a == At(g[i-1].buf)
  <2>1. /\ HasEntry(p, a, fs[i]) /\ a \in Nat \ {0} /\ fs[i] \in Entry
        /\ Len(fs[i].name) \in 1 .. MaxFilenameLen
        /\ At(g[i].buf) = a + 2 + Len(fs[i].name) + Len(fs[i].content)
    BY <1>2, <1>4
  <2> HIDE DEF a
  <2>2. DecodeEntry(p, [ok |-> TRUE, at |-> a, files |-> Before(fs, i-1)])
          = [ok |-> TRUE, at |-> a + 2 + Len(fs[i].name) + Len(fs[i].content),
             files |-> Append(Before(fs, i-1), fs[i])]
    BY <1>3, <2>1, Taken, ZenonT(40)
  <2>3. Before(fs, i) = Append(Before(fs, i-1), fs[i])
    BY BeforeGrows
  <2> QED BY <2>1, <2>2, <2>3 DEF a
<1>6. State(0) = [ok |-> TRUE, at |-> 3, files |-> << >>]
  BY <1>4, BeforeGrows
<1> HIDE DEF State
<1>7. r = Round(r)
  <2>1. ASSUME NEW i \in 0 .. n
        PROVE  State(i) = IF i = 0 THEN [ok |-> TRUE, at |-> 3, files |-> << >>]
                          ELSE DecodeEntry(p, r[i-1])
    <3>1. CASE i = 0
      BY <1>6, <3>1
    <3>2. CASE i # 0
      <4>1. i \in 1 .. n /\ i - 1 \in 0 .. n
        BY <1>2, <3>2
      <4>2. r[i-1] = State(i-1)
        BY <4>1
      <4> QED BY <1>5, <3>2, <4>1, <4>2
    <3> QED BY <3>1, <3>2
  <2>2. r = [i \in 0 .. n |->
               IF i = 0 THEN [ok |-> TRUE, at |-> 3, files |-> << >>]
               ELSE DecodeEntry(p, r[i-1])]
    BY <2>1
  <2> HIDE DEF r
  <2> QED BY <1>4, <2>2
<1> HIDE DEF r
<1>8. PICK z : /\ z = Round(z)
               /\ DecodeAMB2(p) =
                     IF Len(p) < 2 \/ p[2] \notin 1 .. MaxFilesPerSend THEN Bad
                     ELSE IF z[p[2]].ok /\ z[p[2]].at = Len(p) + 1
                          THEN Good(z[p[2]].files) ELSE Bad
  BY <1>7, Zenon DEF DecodeAMB2
<1>9. z[0] = State(0)
  BY <1>2, <1>4, <1>6, <1>8
<1>10. ASSUME NEW i \in 1 .. n PROVE z[i] = DecodeEntry(p, z[i-1])
  <2>1. i \in 0 .. p[2] /\ i # 0
    BY <1>2, <1>4
  <2>2. z[i] = Round(z)[i]
    BY <1>8
  <2> QED BY <2>1, <2>2, Zenon
<1> HIDE DEF Round
<1>11. z[n] = State(n)
  <2> DEFINE T == {k \in Nat : k <= n => z[k] = State(k)}
  <2>1. 0 \in T
    BY <1>9
  <2>2. ASSUME NEW k \in Nat, k \in T PROVE k + 1 \in T
    <3> SUFFICES ASSUME k + 1 <= n PROVE z[k + 1] = State(k + 1)
      OBVIOUS
    <3>1. k + 1 \in 1 .. n /\ k + 1 - 1 = k /\ z[k] = State(k)
      BY <1>2, <2>2
    <3>2. z[k + 1] = DecodeEntry(p, z[k + 1 - 1]) /\ State(k + 1) = DecodeEntry(p, State(k + 1 - 1))
      BY <1>5, <1>10, <3>1
    <3> QED BY <3>1, <3>2
  <2>3. n \in T
    <3> HIDE DEF T
    <3> QED BY <1>2, <2>1, <2>2, Inductive
  <2> QED BY <1>2, <2>3
<1>12. State(n).ok /\ State(n).at = Len(p) + 1 /\ State(n).files = fs
  BY <1>4, BeforeGrows DEF State
<1>13. DecodeAMB2(p) = Good(fs)
  <2>1. ~(Len(p) < 2) /\ p[2] \in 1 .. MaxFilesPerSend /\ z[p[2]] = State(n)
    BY <1>3, <1>4, <1>11, LenProperties
  <2> QED BY <1>8, <1>12, <2>1, Zenon
<1>14. ~(Len(p) < 1)
  BY <1>3, <1>4, LenProperties
<1> QED BY <1>4, <1>13, <1>14, Zenon DEF Decode, p

(* The legacy layout holds one file; no name is as long as the magic.       *)
LEMMA SingleRoundTrip ==
  ASSUME NEW f \in Entry, Len(f.name) \in 1 .. MaxFilenameLen
  PROVE  Decode(PackV1(f)) = Good(<<f>>)
<1> DEFINE n == Len(f.name)
           m == Len(f.content)
           e == << >>
           u == Join(e, n, f.name)
           p == u \o f.content
<1>1. /\ n \in Nat /\ m \in Nat /\ f.name \in Seq(Nat) /\ f.content \in Seq(Nat)
      /\ f.name \in Seq(Byte) /\ f.content \in Seq(Byte)
      /\ f = [name |-> f.name, content |-> f.content]
  BY EntryTypes
<1>2. e \in Seq(Nat) /\ Len(e) = 0
  BY EmptySeq
<1>3. IsJoin(u, e, n, f.name)
  <2> HIDE DEF e, n
  <2> QED BY <1>1, <1>2, Joined
<1>4. p = PackV1(f)
  <2>1. <<n>> \in Seq(Nat)
    BY <1>1
  <2>2. e \o <<n>> = <<n>>
    BY <2>1, ConcatEmptySeq
  <2> QED BY <2>2 DEF Join, PackV1
<1>5. /\ u \in Seq(Nat) /\ Len(u) = 1 + n /\ u[1] = n
      /\ \A i \in 1 .. n : u[1 + i] = f.name[i]
  <2>1. Len(f.name) = n /\ Len(e) + 1 = 1
    BY <1>2
  <2> HIDE DEF u, e, n
  <2>2. /\ u \in Seq(Nat) /\ Len(u) = Len(e) + 1 + Len(f.name) /\ u[Len(e) + 1] = n
        /\ \A i \in 1 .. Len(f.name) : u[Len(e) + 1 + i] = f.name[i]
    BY <1>3 DEF IsJoin
  <2> QED BY <1>1, <1>2, <2>1, <2>2
<1>7. n # 0 /\ n <= MaxFilenameLen /\ n < Magic
  BY <1>1, LimitsAssumption DEF Magic
<1>8. Len(f.name) = n /\ Len(f.content) = m
  OBVIOUS
<1> HIDE DEF u, e, n, m
<1>6. /\ p \in Seq(Nat) /\ Len(p) = Len(u) + m
      /\ \A i \in 1 .. Len(u) + m : p[i] = IF i <= Len(u) THEN u[i] ELSE f.content[i - Len(u)]
  <2>1. u \in Seq(Nat) /\ f.content \in Seq(Nat)
    BY <1>1, <1>5
  <2>2. /\ u \o f.content \in Seq(Nat) /\ Len(u \o f.content) = Len(u) + Len(f.content)
        /\ \A i \in 1 .. Len(u) + Len(f.content) :
              (u \o f.content)[i] = IF i <= Len(u) THEN u[i] ELSE f.content[i - Len(u)]
    BY <2>1, ConcatProperties
  <2> QED BY <1>8, <2>2
<1> HIDE DEF p
<1>0. Len(u) = 1 + n /\ Len(p) = Len(u) + m /\ n \in Nat /\ m \in Nat
  BY <1>1, <1>5, <1>6
<1>9. Len(p) = 1 + n + m /\ p[1] = n
  <2>1. Len(p) = 1 + n + m /\ 1 \in 1 .. Len(u) + m /\ 1 <= Len(u)
    BY <1>0
  <2>2. p[1] = u[1]
    BY <1>6, <2>1
  <2> QED BY <1>5, <2>1, <2>2
<1>10. SubSeq(p, 2, 1 + n) = f.name
  <2>1. \A i \in 1 .. n : p[2 + i - 1] = f.name[i]
    <3> TAKE i \in 1 .. n
    <3>1. 2 + i - 1 = 1 + i /\ 1 + i \in 1 .. Len(u) + m /\ 1 + i <= Len(u)
      BY <1>0
    <3> QED BY <1>5, <1>6, <3>1
  <2>2. Holds(p, 2, 1 + n, f.name)
    BY <1>1, <1>8, <1>9, <2>1 DEF Holds
  <2> QED BY <1>1, <2>2, Stretch
<1>11. SubSeq(p, 2 + n, Len(p)) = f.content
  <2>1. \A i \in 1 .. m : p[2 + n + i - 1] = f.content[i]
    <3> TAKE i \in 1 .. m
    <3>2. \A k \in 1 .. Len(u) + m : ~(k <= Len(u)) => p[k] = f.content[k - Len(u)]
      BY <1>6
    <3> DEFINE k == 1 + n + i
    <3> HIDE DEF k
    <3>3. k \in 1 .. Len(u) + m /\ ~(k <= Len(u)) /\ k - Len(u) = i /\ 2 + n + i - 1 = k
      BY <1>0 DEF k
    <3>4. p[k] = f.content[k - Len(u)]
      BY <3>2, <3>3
    <3> QED BY <3>3, <3>4
  <2>2. Holds(p, 2 + n, Len(p), f.content)
    <3>1. 2 + n \in Nat \ {0} /\ Len(p) \in Nat /\ Len(p) = 2 + n + m - 1
      BY <1>0
    <3> QED BY <1>8, <2>1, <3>1 DEF Holds
  <2> QED BY <1>1, <2>2, Stretch
<1>12. DecodeLegacyV1(p) = Good(<<f>>)
  <2>1. p[1] \in 1 .. MaxFilenameLen /\ Len(p) >= 1 + p[1]
    BY <1>1, <1>7, <1>9, LimitsAssumption, SMTT(30)
  <2>2. SubSeq(p, 2, 1 + p[1]) = f.name /\ SubSeq(p, 2 + p[1], Len(p)) = f.content
    BY <1>9, <1>10, <1>11
  <2> QED BY <1>1, <2>1, <2>2, Zenon DEF DecodeLegacyV1
<1>13. ~(Len(p) < 1) /\ p[1] # Magic
  BY <1>1, <1>7, <1>9 DEF Magic
<1> QED BY <1>4, <1>12, <1>13, Zenon DEF Decode

(* What drop send packs drop download unpacks: whatever the files are, their *)
(* number and their sizes, the legacy layout and the bundle give back the    *)
(* files they were made of, in order, with their names and contents.  No     *)
(* file runs into the next, and a legacy payload is not taken for a bundle.  *)
THEOREM RoundTrip ==
  ASSUME NEW fs \in Seq(Entry), Len(fs) # 0, CanPack(fs),
         Len(fs) = 1 => Len(fs[1].name) \in 1 .. MaxFilenameLen
  PROVE  Decode(Pack(fs)) = Good(fs)
<1>1. Len(fs) \in Nat
  BY LenProperties
<1>2. CASE Len(fs) = 1
  <2>1. fs[1] \in Entry /\ Len(fs[1].name) \in 1 .. MaxFilenameLen
    BY <1>2, ElementOfSeq
  <2>2. fs = <<fs[1]>>
    BY <1>2, <2>1
  <2>3. Decode(PackV1(fs[1])) = Good(<<fs[1]>>)
    BY <2>1, SingleRoundTrip
  <2> QED BY <1>2, <2>2, <2>3 DEF Pack
<1>3. CASE Len(fs) # 1
  <2>1. /\ Len(fs) \in 1 .. MaxFilesPerSend
        /\ \A i \in 1 .. Len(fs) : Len(fs[i].name) \in 1 .. MaxFilenameLen
    BY <1>1, <1>3, LimitsAssumption DEF CanPack, Packable
  <2>2. Decode(Written(fs).buf) = Good(fs)
    BY <2>1, BundleRoundTrip
  <2> QED BY <1>3, <2>2 DEF Pack
<1> QED BY <1>2, <1>3

=============================================================================
