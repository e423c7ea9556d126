---------------------------- MODULE CanonProofs ----------------------------
(***************************************************************************)
(* CompareKey is a strict total order, and it orders paths as a depth-     *)
(* first walk does that takes the names of each directory in the order of  *)
(* their bytes: for paths of any length over any bytes.                    *)
(*                                                                         *)
(* The argument for the second: up to the first byte where two paths       *)
(* differ, their names are the same; from there on, a slash closes a name  *)
(* for good and any other byte is part of it for good.                     *)
(***************************************************************************)
EXTENDS PathNames, SequenceTheorems, WellFoundedInduction, TLAPS

\* A set of numbers has a least element.
LEMMA LeastElement ==
    ASSUME NEW S \in SUBSET Nat, S # {}
    PROVE  \E m \in S : \A n \in S : m <= n
<1>1. PICK m \in S : \A n \in S : ~ (<<n, m>> \in OpToRel(<, Nat))
  BY NatLessThanWellFounded, WFMin
<1>2. \A n \in S : ~ (n < m)
  BY <1>1 DEF OpToRel
<1> QED BY <1>2

\* The loop of CompareKey stops at a difference, or one path is a prefix of the other.
LEMMA LoopEnds ==
    ASSUME NEW a \in Paths, NEW b \in Paths
    PROVE  (\E i \in 1 .. Len(a) : DifferAt(a, b, i)) \/ Prefix(a, b) \/ Prefix(b, a)
<1> DEFINE D == {i \in Nat : i \in 1 .. Len(a) /\ i \in 1 .. Len(b) /\ a[i] # b[i]}
<1>1. Len(a) \in Nat /\ Len(b) \in Nat
  BY DEF Paths
<1>2. CASE D = {}
  <2>1. \A i \in 1 .. Len(a) : i <= Len(b) => a[i] = b[i]
    BY <1>1, <1>2
  <2>2. \A i \in 1 .. Len(b) : i <= Len(a) => a[i] = b[i]
    BY <1>1, <1>2
  <2> QED BY <1>1, <2>1, <2>2 DEF Prefix
<1>3. CASE D # {}
  <2>1. D \in SUBSET Nat
    OBVIOUS
  <2>2. PICK m \in D : \A n \in D : m <= n
    <3> HIDE DEF D
    <3> QED BY <1>3, <2>1, LeastElement
  <2>3. m \in 1 .. Len(a) /\ m \in 1 .. Len(b) /\ a[m] # b[m]
    BY <2>2
  <2>4. \A j \in 1 .. m - 1 : a[j] = b[j]
    BY <1>1, <2>2, <2>3
  <2> QED BY <2>3, <2>4 DEF DifferAt
<1> QED BY <1>2, <1>3

\* The order of two bytes.
LEMMA ByteOrder ==
    ASSUME NEW x \in Byte, NEW y \in Byte, NEW z \in Byte
    PROVE  /\ ~ByteBelow(x, x)
           /\ ByteBelow(x, y) => ~ByteBelow(y, x)
           /\ ByteBelow(x, y) /\ ByteBelow(y, z) => ByteBelow(x, z)
           /\ x # y => ByteBelow(x, y) \/ ByteBelow(y, x)
BY CanonAssumption DEF ByteBelow

\* The bytes of a path are bytes.
LEMMA BytesOfPath ==
    ASSUME NEW a \in Paths
    PROVE  Len(a) \in Nat /\ \A i \in 1 .. Len(a) : a[i] \in Byte
BY DEF Paths

\* Two paths of which neither comes first are the same path.
LEMMA LessTotal ==
    ASSUME NEW a \in Paths, NEW b \in Paths, a # b
    PROVE  Less(a, b) \/ Less(b, a)
<1>1. CASE \E i \in 1 .. Len(a) : DifferAt(a, b, i)
  <2>1. PICK i \in 1 .. Len(a) : DifferAt(a, b, i)
    BY <1>1
  <2>2. i \in 1 .. Len(b) /\ a[i] \in Byte /\ b[i] \in Byte /\ a[i] # b[i]
    BY <2>1, BytesOfPath DEF DifferAt
  <2>3. DifferAt(b, a, i)
    BY <2>1 DEF DifferAt
  <2> QED BY <2>1, <2>2, <2>3, ByteOrder DEF Less
<1>2. CASE Prefix(a, b) \/ Prefix(b, a)
  <2>1. Len(a) # Len(b)
    <3>1. Len(a) = Len(b) => a = b
      BY <1>2 DEF Prefix, Paths
    <3> QED BY <3>1
  <2>2. Len(a) < Len(b) \/ Len(b) < Len(a)
    BY <2>1, BytesOfPath
  <2> QED BY <1>2, <2>2, BytesOfPath DEF Less, ShorterFirst, Prefix
<1> QED BY <1>1, <1>2, LoopEnds

\* At most one of two paths comes first.
LEMMA LessAsymmetric ==
    ASSUME NEW a \in Paths, NEW b \in Paths, Less(a, b)
    PROVE  ~Less(b, a)
<1> SUFFICES ASSUME Less(b, a) PROVE FALSE
  OBVIOUS
<1>1. Len(a) \in Nat /\ Len(b) \in Nat
  BY BytesOfPath
<1>2. CASE \E i \in 1 .. Len(a) : DifferAt(a, b, i) /\ ByteBelow(a[i], b[i])
  <2>1. PICK i \in 1 .. Len(a) : DifferAt(a, b, i) /\ ByteBelow(a[i], b[i])
    BY <1>2
  <2>2. i \in 1 .. Len(b) /\ a[i] \in Byte /\ b[i] \in Byte
    BY <2>1, BytesOfPath DEF DifferAt
  <2>3. ~ShorterFirst(b, a)
    BY <2>1, <2>2 DEF ShorterFirst, Prefix, DifferAt
  <2>4. PICK j \in 1 .. Len(b) : DifferAt(b, a, j) /\ ByteBelow(b[j], a[j])
    BY <2>3 DEF Less
  <2>5. j = i
    BY <1>1, <2>1, <2>2, <2>4 DEF DifferAt
  <2> QED BY <2>1, <2>2, <2>4, <2>5, ByteOrder
<1>3. CASE ShorterFirst(a, b)
  <2>1. ~ShorterFirst(b, a)
    BY <1>1, <1>3 DEF ShorterFirst
  <2>2. \A j \in 1 .. Len(b) : ~DifferAt(b, a, j)
    BY <1>3 DEF ShorterFirst, Prefix, DifferAt
  <2> QED BY <2>1, <2>2 DEF Less
<1> QED BY <1>2, <1>3 DEF Less

\* The order is transitive.
LEMMA LessTransitive ==
    ASSUME NEW a \in Paths, NEW b \in Paths, NEW c \in Paths, Less(a, b), Less(b, c)
    PROVE  Less(a, c)
<1>1. /\ Len(a) \in Nat /\ Len(b) \in Nat /\ Len(c) \in Nat
      /\ \A k \in 1 .. Len(a) : a[k] \in Byte
      /\ \A k \in 1 .. Len(b) : b[k] \in Byte
      /\ \A k \in 1 .. Len(c) : c[k] \in Byte
  BY BytesOfPath
<1>2. ASSUME NEW i \in 1 .. Len(a), DifferAt(a, b, i), ByteBelow(a[i], b[i]),
             NEW j \in 1 .. Len(b), DifferAt(b, c, j), ByteBelow(b[j], c[j])
      PROVE  Less(a, c)
  <2>1. i \in 1 .. Len(b) /\ j \in 1 .. Len(c)
    BY <1>2 DEF DifferAt
  <2>2. CASE i < j
    <3>1. i \in 1 .. Len(c) /\ c[i] = b[i]
      BY <1>1, <1>2, <2>1, <2>2 DEF DifferAt
    <3>2. DifferAt(a, c, i)
      BY <1>1, <1>2, <2>2, <3>1 DEF DifferAt
    <3> QED BY <1>2, <3>1, <3>2 DEF Less
  <2>3. CASE j < i
    <3>1. j \in 1 .. Len(a) /\ a[j] = b[j]
      BY <1>1, <1>2, <2>1, <2>3 DEF DifferAt
    <3>2. DifferAt(a, c, j)
      BY <1>1, <1>2, <2>1, <2>3, <3>1 DEF DifferAt
    <3> QED BY <1>2, <3>1, <3>2 DEF Less
  <2>4. CASE i = j
    <3>1. ByteBelow(a[i], c[i]) /\ a[i] # c[i]
      BY <1>1, <1>2, <2>1, <2>4, ByteOrder
    <3>2. DifferAt(a, c, i)
      BY <1>1, <1>2, <2>1, <2>4, <3>1 DEF DifferAt
    <3> QED BY <3>1, <3>2 DEF Less
  <2> QED BY <2>1, <2>2, <2>3, <2>4
<1>3. ASSUME NEW i \in 1 .. Len(a), DifferAt(a, b, i), ByteBelow(a[i], b[i]), ShorterFirst(b, c)
      PROVE  Less(a, c)
  <2>1. i \in 1 .. Len(b) /\ i \in 1 .. Len(c) /\ c[i] = b[i]
    BY <1>1, <1>3 DEF DifferAt, ShorterFirst, Prefix
  <2>2. DifferAt(a, c, i)
    BY <1>1, <1>3, <2>1 DEF DifferAt, ShorterFirst, Prefix
  <2> QED BY <1>3, <2>1, <2>2 DEF Less
<1>4. ASSUME ShorterFirst(a, b), NEW j \in 1 .. Len(b), DifferAt(b, c, j), ByteBelow(b[j], c[j])
      PROVE  Less(a, c)
  <2>1. CASE j <= Len(a)
    <3>1. j \in 1 .. Len(a) /\ a[j] = b[j]
      BY <1>1, <1>4, <2>1 DEF ShorterFirst, Prefix
    <3>2. DifferAt(a, c, j)
      BY <1>1, <1>4, <3>1 DEF DifferAt, ShorterFirst, Prefix
    <3> QED BY <1>4, <3>1, <3>2 DEF Less
  <2>2. CASE Len(a) < j
    <3>1. j <= Len(c) /\ \A k \in 1 .. Len(a) : a[k] = c[k]
      BY <1>1, <1>4, <2>2 DEF DifferAt, ShorterFirst, Prefix
    <3> QED BY <1>1, <2>2, <3>1 DEF Less, ShorterFirst, Prefix
  <2> QED BY <1>1, <2>1, <2>2
<1>5. ASSUME ShorterFirst(a, b), ShorterFirst(b, c)
      PROVE  Less(a, c)
  BY <1>1, <1>5 DEF ShorterFirst, Prefix, Less
<1> QED BY <1>2, <1>3, <1>4, <1>5 DEF Less

-----------------------------------------------------------------------------
(* What the rest of osfp relies on.                                        *)

\* CompareKey is the order of a strict total order on paths, of whatever bytes:
\* it returns 0 for equal paths only, opposite signs for swapped arguments, and
\* is transitive. The stored index, the merge join and the walk all rely on it.
THEOREM CompareKeyIsTotalOrder ==
    ASSUME NEW a \in Paths, NEW b \in Paths, NEW c \in Paths
    PROVE  /\ CompareKey(a, b) = 0 <=> a = b
           /\ CompareKey(a, b) = -1 <=> CompareKey(b, a) = 1
           /\ CompareKey(a, b) = -1 /\ CompareKey(b, c) = -1 => CompareKey(a, c) = -1
<1>1. ~Less(a, a)
  BY LessAsymmetric
<1>2. Less(a, b) => ~Less(b, a)
  BY LessAsymmetric
<1>3. a # b => Less(a, b) \/ Less(b, a)
  BY LessTotal
<1>4. Less(a, b) /\ Less(b, c) => Less(a, c)
  BY LessTransitive
<1> QED BY <1>1, <1>2, <1>3, <1>4 DEF CompareKey

\* What is in a directory comes after the directory and before whatever follows
\* the directory without being in it: a walk that goes through the names of a
\* directory in order gives its entries in canonical order ("/a < /a/b < /a.txt").
THEOREM SubtreeComesFirst ==
    ASSUME NEW p \in Paths, NEW q \in Paths, NEW r \in Paths, Below(q, p)
    PROVE  /\ Less(p, q)
           /\ Less(p, r) /\ ~Below(r, p) => Less(q, r)
<1>1. /\ Len(p) \in Nat /\ Len(q) \in Nat /\ Len(r) \in Nat
      /\ \A k \in 1 .. Len(r) : r[k] \in Byte
  BY BytesOfPath
<1>2. Len(p) < Len(q) /\ (\A k \in 1 .. Len(p) : p[k] = q[k])
  BY DEF Below, Prefix
<1>3. Less(p, q)
  BY <1>1, <1>2 DEF Less, ShorterFirst, Prefix
<1>4. ASSUME NEW i \in 1 .. Len(p), DifferAt(p, r, i), ByteBelow(p[i], r[i])
      PROVE  Less(q, r)
  <2>1. i \in 1 .. Len(q) /\ q[i] = p[i]
    BY <1>1, <1>2
  <2>2. DifferAt(q, r, i)
    BY <1>1, <1>2, <1>4, <2>1 DEF DifferAt
  <2> QED BY <1>4, <2>1, <2>2 DEF Less
<1>5. ASSUME ShorterFirst(p, r), ~Below(r, p)
      PROVE  Less(q, r)
  <2> DEFINE i == Len(p) + 1
  <2>1. i \in 1 .. Len(q) /\ i \in 1 .. Len(r) /\ \A k \in 1 .. i - 1 : q[k] = r[k]
    BY <1>1, <1>2, <1>5 DEF ShorterFirst, Prefix
  <2>2. r[i] # Slash /\ q[i] = Slash
    BY <1>5 DEF Below, ShorterFirst
  <2>3. DifferAt(q, r, i) /\ ByteBelow(q[i], r[i])
    BY <2>1, <2>2 DEF DifferAt, ByteBelow
  <2> QED BY <2>1, <2>3 DEF Less
<1> QED BY <1>3, <1>4, <1>5 DEF Less
-----------------------------------------------------------------------------
(* The names of a path.                                                    *)

\* The recursion of Names, up to the n-th byte.
Split(p, f, n) ==
    f = [k \in 0 .. n |-> IF k = 0 THEN <<<<>>>> ELSE WithByte(f[k - 1], p[k])]

\* It has a solution.
LEMMA SplitExists == ASSUME NEW p, NEW n \in Nat PROVE \E f : Split(p, f, n)
<1> DEFINE More(v, k) == WithByte(v, p[k])
           UpTo(f, m) == f = [k \in 0 .. m |-> IF k = 0 THEN <<<<>>>> ELSE More(f[k - 1], k)]
           S == {m \in Nat : ~ \E f : UpTo(f, m)}
<1> HIDE DEF More
<1>1. SUFFICES ASSUME S # {} PROVE FALSE
  <2>1. S = {} => \E f : UpTo(f, n)
    OBVIOUS
  <2> QED BY <2>1 DEF More, Split
<1>2. PICK m \in S : \A k \in S : m <= k
  <2>1. S \in SUBSET Nat
    OBVIOUS
  <2> HIDE DEF S
  <2> QED BY <1>1, <2>1, LeastElement
<1>3. m \in Nat /\ ~ \E f : UpTo(f, m)
  OBVIOUS
<1>4. CASE m = 0
  <2>1. UpTo([k \in 0 .. 0 |-> <<<<>>>>], 0)
    OBVIOUS
  <2> QED BY <1>3, <1>4, <2>1
<1>5. CASE m # 0
  <2>1. m - 1 \in Nat /\ m - 1 \notin S
    <3> HIDE DEF S
    <3> QED BY <1>2, <1>3, <1>5
  <2>2. PICK g : UpTo(g, m - 1)
    BY <2>1
  <2> DEFINE h == [k \in 0 .. m |-> IF k = m THEN More(g[m - 1], m) ELSE g[k]]
  <2>3. \A k \in 0 .. m : h[k] = IF k = 0 THEN <<<<>>>> ELSE More(h[k - 1], k)
    <3> SUFFICES ASSUME NEW k \in 0 .. m PROVE h[k] = IF k = 0 THEN <<<<>>>> ELSE More(h[k - 1], k)
      OBVIOUS
    <3>1. CASE k = m
      <4>1. h[k] = More(g[k - 1], k) /\ h[k - 1] = g[k - 1]
        BY <1>3, <1>5, <3>1
      <4> QED BY <1>5, <3>1, <4>1
    <3>2. CASE k # m
      <4>1. k \in 0 .. m - 1
        BY <1>3, <3>2
      <4>2. g[k] = IF k = 0 THEN <<<<>>>> ELSE More(g[k - 1], k)
        BY <2>2, <4>1
      <4>3. h[k] = g[k] /\ (k # 0 => h[k - 1] = g[k - 1])
        BY <1>3, <3>2
      <4> QED BY <4>2, <4>3
    <3> QED BY <3>1, <3>2
  <2>4. UpTo(h, m)
    BY <2>3
  <2> QED BY <1>3, <2>4
<1> QED BY <1>4, <1>5

\* The names of a path are those after its last byte; each byte but a slash goes to the
\* last name, and a slash begins a name.
LEMMA NamesOfPath ==
    ASSUME NEW p \in Paths
    PROVE  \E f : /\ Names(p) = f[Len(p)]
                  /\ f[0] = <<<<>>>>
                  /\ \A k \in 1 .. Len(p) : f[k] = WithByte(f[k - 1], p[k])
<1>1. Len(p) \in Nat
  BY DEF Paths
<1> DEFINE f == CHOOSE g : Split(p, g, Len(p))
<1>2. Split(p, f, Len(p))
  BY <1>1, SplitExists
<1>3. Names(p) = f[Len(p)]
  BY DEF Names, Split
<1> HIDE DEF f
<1>4. /\ f[0] = <<<<>>>>
      /\ \A k \in 1 .. Len(p) : f[k] = WithByte(f[k - 1], p[k])
  BY <1>1, <1>2 DEF Split
<1> QED BY <1>3, <1>4

-----------------------------------------------------------------------------
(* How names grow.                                                         *)

SomeNames == {x \in Seq(Paths) : x # <<>>}

\* y is what x becomes with more bytes.
Continues(x, y) ==
    /\ Len(x) <= Len(y)
    /\ \A j \in 1 .. Len(x) - 1 : y[j] = x[j]
    /\ Prefix(x[Len(x)], y[Len(x)])

\* Names are not none, and each of them is a path.
LEMMA SomeNamesTyped ==
    ASSUME NEW x \in SomeNames
    PROVE  /\ Len(x) \in Nat \ {0}
           /\ \A j \in 1 .. Len(x) : x[j] \in Paths /\ Len(x[j]) \in Nat
<1>1. x \in Seq(Paths) /\ Len(x) \in Nat /\ Len(x) # 0
  BY DEF SomeNames
<1>2. \A j \in 1 .. Len(x) : x[j] \in Paths
  BY <1>1
<1> QED BY <1>1, <1>2 DEF Paths

\* A byte but a slash is the end of the last name.
LEMMA ByteContinues ==
    ASSUME NEW x \in SomeNames, NEW c \in Byte, c # Slash
    PROVE  LET y == WithByte(x, c)
               k == Len(x)
           IN  /\ y \in SomeNames /\ Continues(x, y) /\ Len(y) = k
               /\ Len(y[k]) = Len(x[k]) + 1 /\ y[k][Len(x[k]) + 1] = c
<1> DEFINE k == Len(x)
           y == WithByte(x, c)
           w == x[k]
<1>1. /\ k \in Nat \ {0} /\ w \in Paths /\ Len(w) \in Nat
      /\ \A j \in 1 .. k : x[j] \in Paths
  BY SomeNamesTyped
<1>2. /\ Append(w, c) \in Paths /\ Len(Append(w, c)) = Len(w) + 1
      /\ Append(w, c)[Len(w) + 1] = c
      /\ \A j \in 1 .. Len(w) : Append(w, c)[j] = w[j]
  BY <1>1 DEF Paths
<1>3. y = [x EXCEPT ![k] = Append(w, c)]
  BY DEF WithByte
<1>4. /\ y \in Seq(Paths) /\ Len(y) = k /\ y[k] = Append(w, c)
      /\ \A j \in 1 .. k - 1 : y[j] = x[j]
  <2>1. x \in Seq(Paths)
    BY DEF SomeNames
  <2> QED BY <1>1, <1>2, <1>3, <2>1
<1> HIDE DEF y
<1>5. Prefix(w, y[k])
  BY <1>1, <1>2, <1>4 DEF Prefix
<1>6. y # <<>>
  BY <1>1, <1>4
<1> QED BY <1>1, <1>2, <1>4, <1>5, <1>6 DEF SomeNames, Continues, y

\* A slash leaves the names as they are and begins another.
LEMMA SlashContinues ==
    ASSUME NEW x \in SomeNames
    PROVE  LET y == WithByte(x, Slash)
               k == Len(x)
           IN  /\ y \in SomeNames /\ Continues(x, y) /\ Len(y) = k + 1
               /\ y[k] = x[k]
<1> DEFINE k == Len(x)
           y == Append(x, <<>>)
<1>1. /\ k \in Nat \ {0} /\ x \in Seq(Paths) /\ <<>> \in Paths /\ x[k] \in Paths
      /\ Len(x[k]) \in Nat
  BY SomeNamesTyped DEF SomeNames, Paths
<1>2. /\ y \in Seq(Paths) /\ Len(y) = k + 1
      /\ \A j \in 1 .. k : y[j] = x[j]
  BY <1>1
<1> HIDE DEF y
<1>3. y # <<>> /\ y[k] = x[k]
  BY <1>1, <1>2
<1>4. Prefix(x[k], y[k])
  BY <1>1, <1>3 DEF Prefix
<1>5. Continues(x, y) /\ y \in SomeNames
  BY <1>1, <1>2, <1>3, <1>4 DEF SomeNames, Continues
<1>6. y = WithByte(x, Slash)
  BY DEF WithByte, y
<1> QED BY <1>2, <1>3, <1>5, <1>6

LEMMA ContinuesTransitive ==
    ASSUME NEW x \in SomeNames, NEW y \in SomeNames, NEW z \in SomeNames,
           Continues(x, y), Continues(y, z)
    PROVE  Continues(x, z)
<1>1. /\ Len(x) \in Nat \ {0} /\ Len(y) \in Nat \ {0} /\ Len(z) \in Nat \ {0}
      /\ Len(x) <= Len(y) /\ Len(y) <= Len(z)
  BY SomeNamesTyped DEF Continues
<1> DEFINE k == Len(x)
<1>2. /\ Len(x[k]) \in Nat /\ Len(y[k]) \in Nat /\ Len(z[k]) \in Nat
  BY <1>1, SomeNamesTyped
<1>3. Prefix(x[k], y[k])
  BY DEF Continues
<1>4. Prefix(y[k], z[k])
  <2>1. CASE k = Len(y)
    BY <2>1 DEF Continues
  <2>2. CASE k < Len(y)
    <3>1. y[k] = z[k]
      BY <1>1, <2>2 DEF Continues
    <3> QED BY <1>2, <3>1 DEF Prefix
  <2> QED BY <1>1, <2>1, <2>2
<1>5. Prefix(x[k], z[k])
  BY <1>2, <1>3, <1>4 DEF Prefix
<1>6. \A j \in 1 .. k - 1 : z[j] = x[j]
  BY <1>1 DEF Continues
<1> QED BY <1>1, <1>5, <1>6 DEF Continues

\* What is split of a path is names, and continues what was split before it.
LEMMA SplitContinues ==
    ASSUME NEW p \in Paths, NEW f, f[0] = <<<<>>>>,
           \A k \in 1 .. Len(p) : f[k] = WithByte(f[k - 1], p[k])
    PROVE  /\ \A k \in 0 .. Len(p) : f[k] \in SomeNames
           /\ \A k \in 0 .. Len(p) : \A j \in 0 .. k : Continues(f[j], f[k])
<1>1. Len(p) \in Nat /\ \A k \in 1 .. Len(p) : p[k] \in Byte
  BY BytesOfPath
<1> DEFINE Good(k) == f[k] \in SomeNames /\ \A j \in 0 .. k : Continues(f[j], f[k])
           S == {k \in Nat : k <= Len(p) /\ ~Good(k)}
<1>2. SUFFICES ASSUME S # {} PROVE FALSE
  <2>1. S = {} => \A k \in 0 .. Len(p) : Good(k)
    <3> HIDE DEF Good
    <3> QED BY <1>1
  <2> QED BY <2>1
<1>3. PICK m \in S : \A k \in S : m <= k
  <2>1. S \in SUBSET Nat
    OBVIOUS
  <2> HIDE DEF S
  <2> QED BY <1>2, <2>1, LeastElement
<1>4. m \in Nat /\ m <= Len(p) /\ ~Good(m) /\ \A k \in 0 .. m - 1 : Good(k)
  <2> HIDE DEF Good
  <2> QED BY <1>1, <1>3
<1>5. \A x \in SomeNames : Continues(x, x)
  <2> SUFFICES ASSUME NEW x \in SomeNames PROVE Continues(x, x)
    OBVIOUS
  <2> QED BY SomeNamesTyped DEF Continues, Prefix
<1>6. CASE m = 0
  <2>1. <<<<>>>> \in SomeNames
    <3>1. <<>> \in Paths
      BY DEF Paths
    <3> QED BY <3>1 DEF SomeNames
  <2> QED BY <1>4, <1>5, <1>6, <2>1
<1>7. CASE m # 0
  <2>1. m - 1 \in 0 .. m - 1 /\ m \in 1 .. Len(p)
    BY <1>1, <1>4, <1>7
  <2>2. Good(m - 1)
    <3> HIDE DEF Good
    <3> QED BY <1>4, <2>1
  <2>3. f[m - 1] \in SomeNames /\ f[m] = WithByte(f[m - 1], p[m]) /\ p[m] \in Byte
    BY <1>1, <2>1, <2>2
  <2>4. f[m] \in SomeNames /\ Continues(f[m - 1], f[m])
    BY <2>3, ByteContinues, SlashContinues
  <2>5. ASSUME NEW j \in 0 .. m PROVE Continues(f[j], f[m])
    <3>1. CASE j = m
      BY <1>5, <2>4, <3>1
    <3>2. CASE j # m
      <4>1. j \in 0 .. m - 1
        BY <1>4, <3>2
      <4>2. Continues(f[j], f[m - 1])
        BY <2>2, <4>1
      <4>3. f[j] \in SomeNames
        BY <1>4, <4>1
      <4> QED BY <2>3, <2>4, <4>2, <4>3, ContinuesTransitive
    <3> QED BY <3>1, <3>2
  <2> QED BY <1>4, <2>4, <2>5
<1> QED BY <1>6, <1>7

-----------------------------------------------------------------------------
(* The order of names.                                                     *)

\* A name comes before what begins with it.
LEMMA ShorterNameBelow ==
    ASSUME NEW m \in Paths, NEW n \in Paths, Prefix(m, n), Len(m) < Len(n)
    PROVE  NameBelow(m, n)
<1>1. Len(m) \in Nat /\ Len(n) \in Nat
  BY BytesOfPath
<1>2. SubSeq(m, 1, Len(m)) = SubSeq(n, 1, Len(m))
  BY <1>1 DEF Paths, Prefix
<1> QED BY <1>1, <1>2 DEF NameBelow, IsStrictPrefix, IsPrefix

\* What IsStrictPrefix says of two sequences.
LEMMA StrictPrefix ==
    ASSUME NEW T, NEW m \in Seq(T), NEW n \in Seq(T)
    PROVE  IsStrictPrefix(m, n) <=> Prefix(m, n) /\ Len(m) < Len(n)
<1>1. Len(m) \in Nat /\ Len(n) \in Nat
  OBVIOUS
<1>2. CASE Prefix(m, n) /\ Len(m) < Len(n)
  <2>1. SubSeq(m, 1, Len(m)) = SubSeq(n, 1, Len(m))
    BY <1>1, <1>2 DEF Prefix
  <2> QED BY <1>1, <1>2, <2>1 DEF IsStrictPrefix, IsPrefix
<1>3. CASE IsStrictPrefix(m, n)
  <2>1. Len(m) <= Len(n) /\ m # n /\ SubSeq(m, 1, Len(m)) = SubSeq(n, 1, Len(m))
    BY <1>3 DEF IsStrictPrefix, IsPrefix
  <2>2. \A j \in 1 .. Len(m) : m[j] = n[j]
    <3> SUFFICES ASSUME NEW j \in 1 .. Len(m) PROVE m[j] = n[j]
      OBVIOUS
    <3>1. SubSeq(m, 1, Len(m))[j] = m[j] /\ SubSeq(n, 1, Len(m))[j] = n[j]
      BY <1>1, <2>1
    <3> QED BY <2>1, <3>1
  <2>3. Len(m) = Len(n) => m = n
    BY <1>1, <2>2, SeqEqual
  <2> QED BY <1>1, <1>3, <2>1, <2>2, <2>3 DEF Prefix
<1> QED BY <1>2, <1>3

\* Where one sequence is a prefix of another they do not differ, and there is but one
\* first difference.
LEMMA OneDifference ==
    ASSUME NEW T, NEW m \in Seq(T), NEW n \in Seq(T), NEW i, DifferAt(m, n, i)
    PROVE  /\ ~Prefix(m, n) /\ ~Prefix(n, m)
           /\ \A j : DifferAt(m, n, j) \/ DifferAt(n, m, j) => j = i
<1>1. Len(m) \in Nat /\ Len(n) \in Nat
  OBVIOUS
<1> QED BY <1>1 DEF DifferAt, Prefix

\* Two names are in one order only.
LEMMA NameBelowAsymmetric ==
    ASSUME NEW m \in Paths, NEW n \in Paths, NameBelow(m, n)
    PROVE  ~NameBelow(n, m)
<1>1. /\ Len(m) \in Nat /\ Len(n) \in Nat /\ m \in Seq(Byte) /\ n \in Seq(Byte)
      /\ \A i \in 1 .. Len(m) : m[i] \in Int
      /\ \A i \in 1 .. Len(n) : n[i] \in Int
  BY BytesOfPath, CanonAssumption DEF Paths
<1>2. CASE IsStrictPrefix(m, n)
  <2>1. Prefix(m, n) /\ Len(m) < Len(n)
    BY <1>1, <1>2, StrictPrefix
  <2>2. ~IsStrictPrefix(n, m)
    BY <1>1, <2>1, StrictPrefix
  <2>3. \A i : ~DifferAt(n, m, i)
    BY <1>1, <2>1, OneDifference
  <2> QED BY <2>2, <2>3 DEF NameBelow
<1>3. CASE \E i \in 1 .. Len(m) : DifferAt(m, n, i) /\ m[i] < n[i]
  <2>1. PICK i \in 1 .. Len(m) : DifferAt(m, n, i) /\ m[i] < n[i]
    BY <1>3
  <2>2. ~IsStrictPrefix(n, m)
    BY <1>1, <2>1, OneDifference, StrictPrefix
  <2>3. \A j : DifferAt(n, m, j) => j = i
    BY <1>1, <2>1, OneDifference
  <2>4. i \in 1 .. Len(n)
    BY <2>1 DEF DifferAt
  <2>5. ~(n[i] < m[i])
    BY <1>1, <2>1, <2>4
  <2> QED BY <2>2, <2>3, <2>5 DEF NameBelow
<1> QED BY <1>2, <1>3 DEF NameBelow

\* The names of a path are names.
LEMMA NamesTyped == ASSUME NEW p \in Paths PROVE Names(p) \in SomeNames
<1>1. PICK f : /\ Names(p) = f[Len(p)]
               /\ f[0] = <<<<>>>>
               /\ \A k \in 1 .. Len(p) : f[k] = WithByte(f[k - 1], p[k])
  BY NamesOfPath
<1>2. Len(p) \in 0 .. Len(p)
  BY BytesOfPath
<1> QED BY <1>1, <1>2, SplitContinues

\* Two paths are in one order only, name by name.
LEMMA NamesLessAsymmetric ==
    ASSUME NEW p \in Paths, NEW q \in Paths, NamesLess(p, q)
    PROVE  ~NamesLess(q, p)
<1> DEFINE m == Names(p)
           n == Names(q)
<1>1. /\ m \in Seq(Paths) /\ n \in Seq(Paths) /\ Len(m) \in Nat /\ Len(n) \in Nat
      /\ \A i \in 1 .. Len(m) : m[i] \in Paths
      /\ \A i \in 1 .. Len(n) : n[i] \in Paths
  BY NamesTyped, SomeNamesTyped DEF SomeNames
<1>2. \/ IsStrictPrefix(m, n)
      \/ \E i \in 1 .. Len(m) : DifferAt(m, n, i) /\ NameBelow(m[i], n[i])
  BY DEF NamesLess
<1>3. SUFFICES /\ ~IsStrictPrefix(n, m)
               /\ \A i \in 1 .. Len(n) : DifferAt(n, m, i) => ~NameBelow(n[i], m[i])
  BY DEF NamesLess
<1> HIDE DEF m, n
<1>4. CASE IsStrictPrefix(m, n)
  <2>1. Prefix(m, n) /\ Len(m) < Len(n)
    BY <1>1, <1>4, StrictPrefix
  <2>2. ~IsStrictPrefix(n, m)
    BY <1>1, <2>1, StrictPrefix
  <2>3. \A i : ~DifferAt(n, m, i)
    BY <1>1, <2>1, OneDifference
  <2> QED BY <2>2, <2>3
<1>5. CASE \E i \in 1 .. Len(m) : DifferAt(m, n, i) /\ NameBelow(m[i], n[i])
  <2>1. PICK i \in 1 .. Len(m) : DifferAt(m, n, i) /\ NameBelow(m[i], n[i])
    BY <1>5
  <2>2. ~IsStrictPrefix(n, m)
    BY <1>1, <2>1, OneDifference, StrictPrefix
  <2>3. \A j : DifferAt(n, m, j) => j = i
    BY <1>1, <2>1, OneDifference
  <2>4. m[i] \in Paths /\ n[i] \in Paths
    BY <1>1, <2>1 DEF DifferAt
  <2>5. ~NameBelow(n[i], m[i])
    BY <2>1, <2>4, NameBelowAsymmetric
  <2> QED BY <2>2, <2>3, <2>5
<1> QED BY <1>2, <1>4, <1>5

-----------------------------------------------------------------------------
(* CompareKey and the names.                                               *)

\* Up to where two paths are the same, they are split the same way.
LEMMA SameSplit ==
    ASSUME NEW p \in Paths, NEW q \in Paths, NEW d \in Nat,
           d <= Len(p), d <= Len(q), \A j \in 1 .. d : p[j] = q[j],
           NEW f, f[0] = <<<<>>>>, \A k \in 1 .. Len(p) : f[k] = WithByte(f[k - 1], p[k]),
           NEW g, g[0] = <<<<>>>>, \A k \in 1 .. Len(q) : g[k] = WithByte(g[k - 1], q[k])
    PROVE  f[d] = g[d]
<1> DEFINE S == {k \in Nat : k <= d /\ f[k] # g[k]}
<1>1. SUFFICES ASSUME S # {} PROVE FALSE
  OBVIOUS
<1>2. PICK m \in S : \A k \in S : m <= k
  <2>1. S \in SUBSET Nat
    OBVIOUS
  <2> HIDE DEF S
  <2> QED BY <1>1, <2>1, LeastElement
<1>3. m \in Nat /\ m <= d /\ f[m] # g[m]
  OBVIOUS
<1>4. m # 0
  BY <1>3
<1>5. m - 1 \in Nat /\ m - 1 <= d /\ m - 1 \notin S
  <2> HIDE DEF S
  <2> QED BY <1>2, <1>3, <1>4
<1>6. f[m - 1] = g[m - 1]
  BY <1>5
<1>7. m \in 1 .. Len(p) /\ m \in 1 .. Len(q) /\ p[m] = q[m]
  BY <1>3, <1>4, BytesOfPath
<1>8. f[m] = WithByte(f[m - 1], p[m]) /\ g[m] = WithByte(g[m - 1], q[m])
  BY <1>7
<1> QED BY <1>3, <1>6, <1>7, <1>8

\* Names that continue the same ones, one of them with more in the last name and the
\* other with the last name as it was and another after it.
LEMMA ClosedNameFirst ==
    ASSUME NEW x \in SomeNames, NEW m \in SomeNames, NEW n \in SomeNames,
           Continues(x, m), Continues(x, n),
           m[Len(x)] = x[Len(x)], Len(x[Len(x)]) < Len(n[Len(x)])
    PROVE  /\ DifferAt(m, n, Len(x))
           /\ NameBelow(m[Len(x)], n[Len(x)])
<1> DEFINE k == Len(x)
<1>1. /\ k \in 1 .. Len(m) /\ k \in 1 .. Len(n) /\ Len(m) \in Nat /\ Len(n) \in Nat /\ k \in Nat \ {0}
      /\ \A j \in 1 .. k - 1 : m[j] = n[j]
      /\ Prefix(x[k], n[k])
  BY SomeNamesTyped DEF Continues
<1>2. m[k] \in Paths /\ n[k] \in Paths
  BY <1>1, SomeNamesTyped
<1>3. NameBelow(m[k], n[k])
  BY <1>1, <1>2, ShorterNameBelow
<1>4. m[k] # n[k]
  <2>1. Len(x[k]) \in Nat
    BY <1>1, SomeNamesTyped
  <2> QED BY <2>1
<1> QED BY <1>1, <1>3, <1>4 DEF DifferAt

\* The path CompareKey puts first is the one whose names come first.
LEMMA LessNames ==
    ASSUME NEW p \in Paths, NEW q \in Paths, Less(p, q)
    PROVE  NamesLess(p, q)
<1>1. /\ Len(p) \in Nat /\ \A k \in 1 .. Len(p) : p[k] \in Byte
      /\ Len(q) \in Nat /\ \A k \in 1 .. Len(q) : q[k] \in Byte
  BY BytesOfPath
<1>2. PICK f : /\ Names(p) = f[Len(p)]
               /\ f[0] = <<<<>>>>
               /\ \A k \in 1 .. Len(p) : f[k] = WithByte(f[k - 1], p[k])
  BY NamesOfPath
<1>3. PICK g : /\ Names(q) = g[Len(q)]
               /\ g[0] = <<<<>>>>
               /\ \A k \in 1 .. Len(q) : g[k] = WithByte(g[k - 1], q[k])
  BY NamesOfPath
<1> DEFINE m == Names(p)
           n == Names(q)
<1>4. /\ \A k \in 0 .. Len(p) : f[k] \in SomeNames
      /\ \A k \in 0 .. Len(p) : Continues(f[k], m)
  BY <1>1, <1>2, SplitContinues
<1>5. /\ \A k \in 0 .. Len(q) : g[k] \in SomeNames
      /\ \A k \in 0 .. Len(q) : Continues(g[k], n)
  BY <1>1, <1>3, SplitContinues
<1>6. m \in SomeNames /\ n \in SomeNames
  BY NamesTyped
<1>7. m \in Seq(Paths) /\ n \in Seq(Paths)
  BY <1>6 DEF SomeNames
<1>8. SUFFICES \/ IsStrictPrefix(m, n)
               \/ \E i \in 1 .. Len(m) : DifferAt(m, n, i) /\ NameBelow(m[i], n[i])
  BY DEF NamesLess
<1> HIDE DEF m, n
<1>9. ASSUME NEW i \in 1 .. Len(p), DifferAt(p, q, i), ByteBelow(p[i], q[i])
      PROVE  \E k \in 1 .. Len(m) : DifferAt(m, n, k) /\ NameBelow(m[k], n[k])
  <2>1. /\ i \in 1 .. Len(q) /\ i - 1 \in Nat /\ i - 1 \in 0 .. Len(p) /\ i - 1 \in 0 .. Len(q)
        /\ i \in 0 .. Len(p) /\ i \in 0 .. Len(q)
        /\ \A j \in 1 .. i - 1 : p[j] = q[j]
        /\ q[i] # Slash /\ p[i] \in Byte /\ q[i] \in Byte
    BY <1>1, <1>9 DEF DifferAt, ByteBelow
  <2> DEFINE x == f[i - 1]
             k == Len(x)
             w == x[k]
  <2>2. f[i - 1] = g[i - 1]
    <3> DEFINE d == i - 1
    <3>1. d \in Nat /\ d <= Len(p) /\ d <= Len(q) /\ \A j \in 1 .. d : p[j] = q[j]
      BY <1>1, <2>1
    <3> HIDE DEF d
    <3>2. f[d] = g[d]
      BY <1>2, <1>3, <3>1, SameSplit
    <3> QED BY <3>2 DEF d
  <2>3. /\ f[i] = WithByte(x, p[i]) /\ g[i] = WithByte(x, q[i])
        /\ x \in SomeNames /\ f[i] \in SomeNames /\ g[i] \in SomeNames
        /\ Continues(x, m) /\ Continues(x, n) /\ Continues(f[i], m) /\ Continues(g[i], n)
    BY <1>2, <1>3, <1>4, <1>5, <2>1, <2>2
  <2> HIDE DEF x
  <2>4. /\ k \in Nat \ {0} /\ k \in 1 .. Len(m) /\ k \in 1 .. Len(n) /\ Len(w) \in Nat
        /\ Len(m) \in Nat /\ Len(n) \in Nat
        /\ m[k] \in Paths /\ n[k] \in Paths /\ Len(m[k]) \in Nat /\ Len(n[k]) \in Nat
    <3>1. k \in Nat \ {0} /\ Len(m) \in Nat /\ Len(n) \in Nat /\ k <= Len(m) /\ k <= Len(n)
      BY <1>6, <2>3, SomeNamesTyped DEF Continues
    <3>2. k \in 1 .. k /\ k \in 1 .. Len(m) /\ k \in 1 .. Len(n)
      BY <3>1
    <3> QED BY <1>6, <2>3, <3>1, <3>2, SomeNamesTyped
  <2>5. LET y == g[i]
        IN  Len(y) = k /\ Len(y[k]) = Len(w) + 1 /\ y[k][Len(w) + 1] = q[i]
    <3>1. x \in SomeNames /\ q[i] \in Byte /\ q[i] # Slash /\ g[i] = WithByte(x, q[i])
      BY <2>1, <2>3
    <3> QED BY ONLY <3>1, ByteContinues
  <2>6. Prefix(g[i][k], n[k])
    BY <2>3, <2>5 DEF Continues
  <2>7. Len(w) < Len(n[k]) /\ n[k][Len(w) + 1] = q[i]
    BY <2>4, <2>5, <2>6 DEF Prefix
  <2>8. CASE p[i] = Slash
    <3>1. f[i][k] = w /\ Len(f[i]) = k + 1
      <4>1. x \in SomeNames /\ f[i] = WithByte(x, Slash)
        BY <2>3, <2>8
      <4> QED BY ONLY <4>1, SlashContinues
    <3>2. m[k] = w
      <4>1. \A j \in 1 .. Len(f[i]) - 1 : m[j] = f[i][j]
        BY <2>3 DEF Continues
      <4> QED BY <2>4, <3>1, <4>1
    <3>3. DifferAt(m, n, k) /\ NameBelow(m[k], n[k])
      BY <1>6, <2>3, <2>7, <3>2, ClosedNameFirst
    <3> QED BY <2>4, <3>3
  <2>9. CASE p[i] # Slash
    <3>1. LET y == f[i]
          IN  Len(y) = k /\ Len(y[k]) = Len(w) + 1 /\ y[k][Len(w) + 1] = p[i]
      <4>1. x \in SomeNames /\ p[i] \in Byte /\ p[i] # Slash /\ f[i] = WithByte(x, p[i])
        BY <2>1, <2>3, <2>9
      <4> QED BY ONLY <4>1, ByteContinues
    <3>2. Prefix(f[i][k], m[k])
      BY <2>3, <3>1 DEF Continues
    <3>3. Len(w) < Len(m[k]) /\ m[k][Len(w) + 1] = p[i]
      BY <2>4, <3>1, <3>2 DEF Prefix
    <3>4. \A j \in 1 .. Len(w) : m[k][j] = n[k][j]
      <4>1. Prefix(w, m[k]) /\ Prefix(w, n[k])
        BY <2>3 DEF Continues
      <4> QED BY <4>1 DEF Prefix
    <3>5. p[i] < q[i] /\ p[i] # q[i]
      BY <1>9, <2>9 DEF ByteBelow, DifferAt
    <3>6. DifferAt(m[k], n[k], Len(w) + 1)
      BY <2>4, <2>7, <3>3, <3>4, <3>5 DEF DifferAt
    <3>7. NameBelow(m[k], n[k])
      <4>1. Len(w) + 1 \in 1 .. Len(m[k])
        BY <2>4, <3>3
      <4> QED BY <2>7, <3>3, <3>5, <3>6, <4>1 DEF NameBelow
    <3>8. m[k] # n[k]
      BY <2>7, <3>3, <3>5
    <3>9. \A j \in 1 .. k - 1 : m[j] = n[j]
      BY <2>3 DEF Continues
    <3> QED BY <2>4, <3>7, <3>8, <3>9 DEF DifferAt
  <2> QED BY <2>8, <2>9
<1>10. ASSUME ShorterFirst(p, q)
       PROVE  \/ IsStrictPrefix(m, n)
              \/ \E k \in 1 .. Len(m) : DifferAt(m, n, k) /\ NameBelow(m[k], n[k])
  <2> DEFINE i == Len(p) + 1
             k == Len(m)
  <2>1. /\ i \in 1 .. Len(q) /\ i - 1 = Len(p) /\ i \in 0 .. Len(q) /\ Len(p) \in 0 .. Len(p)
        /\ i - 1 \in 0 .. Len(q) /\ \A j \in 1 .. Len(p) : p[j] = q[j]
        /\ Len(p) <= Len(q)
    BY <1>1, <1>10 DEF ShorterFirst, Prefix
  <2> HIDE DEF i
  <2>2. f[Len(p)] = g[Len(p)]
    BY <1>1, <1>2, <1>3, <2>1, SameSplit
  <2>3. /\ g[i] = WithByte(m, q[i]) /\ g[i] \in SomeNames /\ q[i] \in Byte
        /\ Continues(m, n) /\ Continues(g[i], n)
    <3>1. m = g[i - 1]
      BY <1>2, <2>1, <2>2 DEF m
    <3> QED BY <1>1, <1>3, <1>5, <2>1, <3>1
  <2>4. /\ k \in Nat \ {0} /\ Len(n) \in Nat /\ k <= Len(n) /\ Len(m[k]) \in Nat /\ Len(n[k]) \in Nat
    <3>1. k \in Nat \ {0} /\ Len(n) \in Nat /\ k <= Len(n)
      BY <1>6, <2>3, SomeNamesTyped DEF Continues
    <3>2. k \in 1 .. k /\ k \in 1 .. Len(n)
      BY <3>1
    <3> QED BY <1>6, <3>1, <3>2, SomeNamesTyped
  <2>5. CASE q[i] = Slash
    <3>1. Len(g[i]) = k + 1 /\ g[i][k] = m[k]
      BY <1>6, <2>3, <2>5, SlashContinues
    <3>2. k < Len(n) /\ n[k] = m[k]
      BY <2>3, <2>4, <3>1 DEF Continues
    <3>3. Prefix(m, n)
      <4>1. \A j \in 1 .. k - 1 : n[j] = m[j]
        BY <2>3 DEF Continues
      <4> QED BY <2>4, <3>2, <4>1 DEF Prefix
    <3> QED BY <1>7, <3>2, <3>3, StrictPrefix
  <2>6. CASE q[i] # Slash
    <3>1. LET y == g[i]
          IN  Len(y) = k /\ Len(y[k]) = Len(m[k]) + 1
      <4>1. m \in SomeNames /\ q[i] \in Byte /\ q[i] # Slash /\ g[i] = WithByte(m, q[i])
        BY <1>6, <2>3, <2>6
      <4> QED BY ONLY <4>1, ByteContinues
    <3>2. Prefix(g[i][k], n[k])
      BY <2>3, <3>1 DEF Continues
    <3>3. Len(m[k]) < Len(n[k])
      BY <2>4, <3>1, <3>2 DEF Prefix
    <3>4. Continues(m, m)
      BY <2>4 DEF Continues, Prefix
    <3>5. DifferAt(m, n, k) /\ NameBelow(m[k], n[k])
      BY <1>6, <2>3, <3>3, <3>4, ClosedNameFirst
    <3> QED BY <2>4, <3>5
  <2> QED BY <2>5, <2>6
<1> QED BY <1>9, <1>10 DEF Less
=============================================================================
