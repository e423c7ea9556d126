---------------------------- MODULE StoreProofs ----------------------------
(***************************************************************************)
(* A fingerprint file: what the writer accepts is in canonical order; what *)
(* the reader gives back is what the writer was given; no damaged file is  *)
(* taken for a whole one, and no whole one for a damaged one.              *)
(***************************************************************************)
EXTENDS Store, CanonProofs, FiniteSetTheorems, SequenceTheorems

-----------------------------------------------------------------------------
(* Sums.                                                                   *)

\* The recursion of Sums has a solution.
LEMMA SumsExist ==
    ASSUME NEW s
    PROVE  \E f : f = [n \in Nat |-> IF n = 0 THEN 0 ELSE f[n - 1] + s[n]]
<1> DEFINE More(v, n) == v + s[n]
           UpTo(f, m) == f = [n \in 0 .. m |-> IF n = 0 THEN 0 ELSE More(f[n - 1], n)]
<1> HIDE DEF More
<1>1. \A m \in Nat : \E f : UpTo(f, m)
  <2> DEFINE S == {m \in Nat : ~ \E f : UpTo(f, m)}
  <2> SUFFICES ASSUME S # {} PROVE FALSE
    OBVIOUS
  <2>1. PICK m \in S : \A n \in S : m <= n
    <3>1. S \in SUBSET Nat
      OBVIOUS
    <3> HIDE DEF S
    <3> QED BY <3>1, LeastElement
  <2>2. m \in Nat /\ ~ \E f : UpTo(f, m)
    OBVIOUS
  <2>3. CASE m = 0
    <3>1. UpTo([n \in 0 .. 0 |-> 0], 0)
      OBVIOUS
    <3> QED BY <2>2, <2>3, <3>1
  <2>4. CASE m # 0
    <3>1. m - 1 \in Nat /\ m - 1 \notin S
      <4> HIDE DEF S
      <4> QED BY <2>1, <2>2, <2>4
    <3>2. PICK g : UpTo(g, m - 1)
      BY <3>1
    <3> DEFINE h == [n \in 0 .. m |-> IF n = m THEN More(g[m - 1], m) ELSE g[n]]
    <3>3. \A n \in 0 .. m : h[n] = IF n = 0 THEN 0 ELSE More(h[n - 1], n)
      <4> SUFFICES ASSUME NEW n \in 0 .. m PROVE h[n] = IF n = 0 THEN 0 ELSE More(h[n - 1], n)
        OBVIOUS
      <4>1. CASE n = m
        <5>1. h[n] = More(g[n - 1], n) /\ h[n - 1] = g[n - 1]
          BY <2>2, <2>4, <4>1
        <5> QED BY <2>4, <4>1, <5>1
      <4>2. CASE n # m
        <5>1. n \in 0 .. m - 1
          BY <2>2, <4>2
        <5>2. g[n] = IF n = 0 THEN 0 ELSE More(g[n - 1], n)
          BY <3>2, <5>1
        <5>3. h[n] = g[n] /\ (n # 0 => h[n - 1] = g[n - 1])
          BY <2>2, <4>2
        <5> QED BY <5>2, <5>3
      <4> QED BY <4>1, <4>2
    <3>4. UpTo(h, m)
      BY <3>3
    <3> QED BY <2>2, <3>4
  <2> QED BY <2>3, <2>4
<1>2. ASSUME NEW k \in Nat, NEW m \in Nat, NEW f, NEW g, UpTo(f, k), UpTo(g, m)
      PROVE  \A n \in Nat : n <= k /\ n <= m => f[n] = g[n]
  <2> DEFINE S == {n \in Nat : n <= k /\ n <= m /\ f[n] # g[n]}
  <2> SUFFICES ASSUME S # {} PROVE FALSE
    OBVIOUS
  <2>1. PICK i \in S : \A n \in S : i <= n
    <3>1. S \in SUBSET Nat
      OBVIOUS
    <3> HIDE DEF S
    <3> QED BY <3>1, LeastElement
  <2>2. i \in Nat /\ i <= k /\ i <= m /\ f[i] # g[i]
    OBVIOUS
  <2>3. /\ f[i] = IF i = 0 THEN 0 ELSE More(f[i - 1], i)
        /\ g[i] = IF i = 0 THEN 0 ELSE More(g[i - 1], i)
    BY <1>2, <2>2
  <2>4. i # 0 => f[i - 1] = g[i - 1]
    BY <2>1, <2>2
  <2> QED BY <2>2, <2>3, <2>4
<1> DEFINE part(n) == CHOOSE g : UpTo(g, n)
           F == [n \in Nat |-> part(n)[n]]
<1>3. \A n \in Nat : UpTo(part(n), n)
  <2> SUFFICES ASSUME NEW n \in Nat PROVE UpTo(part(n), n)
    OBVIOUS
  <2>1. \E g : UpTo(g, n)
    BY <1>1
  <2> HIDE DEF UpTo
  <2> QED BY <2>1
<1>4. \A n \in Nat : F[n] = IF n = 0 THEN 0 ELSE More(F[n - 1], n)
  <2> SUFFICES ASSUME NEW n \in Nat PROVE F[n] = IF n = 0 THEN 0 ELSE More(F[n - 1], n)
    OBVIOUS
  <2>1. part(n)[n] = IF n = 0 THEN 0 ELSE More(part(n)[n - 1], n)
    <3>1. UpTo(part(n), n)
      BY <1>3
    <3> HIDE DEF part
    <3> QED BY <3>1
  <2>2. n # 0 => part(n)[n - 1] = part(n - 1)[n - 1]
    <3> SUFFICES ASSUME n # 0 PROVE part(n)[n - 1] = part(n - 1)[n - 1]
      OBVIOUS
    <3>1. n - 1 \in Nat /\ UpTo(part(n), n) /\ UpTo(part(n - 1), n - 1)
      BY <1>3
    <3> HIDE DEF part, UpTo
    <3> QED BY <1>2, <3>1
  <2> HIDE DEF part
  <2> QED BY <2>1, <2>2
<1>5. F = [n \in Nat |-> IF n = 0 THEN 0 ELSE More(F[n - 1], n)]
  <2> DEFINE G == [n \in Nat |-> IF n = 0 THEN 0 ELSE More(F[n - 1], n)]
  <2>1. \A n \in Nat : F[n] = G[n]
    <3> HIDE DEF F
    <3> QED BY <1>4
  <2>2. F = [n \in Nat |-> F[n]] /\ G = [n \in Nat |-> G[n]]
    OBVIOUS
  <2> HIDE DEF F, G
  <2>3. F = G
    BY <2>1, <2>2
  <2> QED BY <2>3 DEF G
<1> QED BY <1>5 DEF More

\* Each sum is the one before it and one more term.
LEMMA SumsStep ==
    ASSUME NEW s
    PROVE  /\ Sums(s)[0] = 0
           /\ \A n \in Nat : Sums(s)[n + 1] = Sums(s)[n] + s[n + 1]
<1> DEFINE f == Sums(s)
<1>1. f = [n \in Nat |-> IF n = 0 THEN 0 ELSE f[n - 1] + s[n]]
  BY SumsExist DEF Sums
<1> HIDE DEF f
<1>2. f[0] = 0
  BY <1>1
<1>3. ASSUME NEW n \in Nat PROVE f[n + 1] = f[n] + s[n + 1]
  <2>1. n + 1 \in Nat /\ n + 1 # 0 /\ (n + 1) - 1 = n
    OBVIOUS
  <2>2. f[n + 1] = IF n + 1 = 0 THEN 0 ELSE f[(n + 1) - 1] + s[n + 1]
    BY <1>1, <2>1, Zenon
  <2> QED BY <2>1, <2>2
<1> QED BY <1>2, <1>3 DEF f

\* A sum depends on its terms alone.
LEMMA SumsAgree ==
    ASSUME NEW s, NEW t, NEW n \in Nat, \A i \in 1 .. n : s[i] = t[i]
    PROVE  \A m \in 0 .. n : Sums(s)[m] = Sums(t)[m]
<1> DEFINE S == {m \in Nat : m <= n /\ Sums(s)[m] # Sums(t)[m]}
<1> SUFFICES ASSUME S # {} PROVE FALSE
  OBVIOUS
<1>1. PICK m \in S : \A k \in S : m <= k
  <2>1. S \in SUBSET Nat
    OBVIOUS
  <2> HIDE DEF S
  <2> QED BY <2>1, LeastElement
<1>2. m \in Nat /\ m <= n /\ Sums(s)[m] # Sums(t)[m] /\ m # 0
  BY SumsStep
<1>3. m - 1 \in Nat /\ m - 1 <= n /\ m - 1 \notin S
  <2> HIDE DEF S
  <2> QED BY <1>1, <1>2
<1>4. Sums(s)[m - 1] = Sums(t)[m - 1]
  BY <1>3
<1>5. /\ Sums(s)[m - 1 + 1] = Sums(s)[m - 1] + s[m - 1 + 1]
      /\ Sums(t)[m - 1 + 1] = Sums(t)[m - 1] + t[m - 1 + 1]
  BY <1>3, SumsStep
<1>6. m - 1 + 1 = m /\ s[m] = t[m]
  BY <1>2
<1> QED BY <1>2, <1>4, <1>5, <1>6

\* The sums of numbers that are at least c, where c is 0, 1 or 3, grow by as much.
LEMMA SumsGrow ==
    ASSUME NEW s, NEW n \in Nat, NEW c \in {0, 1, 3},
           \A i \in 1 .. n : s[i] \in Nat /\ s[i] >= c
    PROVE  /\ \A m \in 0 .. n : Sums(s)[m] \in Nat
           /\ \A k, m \in 0 .. n : k <= m => Sums(s)[k] + c * (m - k) <= Sums(s)[m]
<1> DEFINE f == Sums(s)
<1>1. f[0] = 0 /\ \A k \in Nat : f[k + 1] = f[k] + s[k + 1]
  BY SumsStep
<1> HIDE DEF f
<1>2. \A m \in 0 .. n : f[m] \in Nat
  <2> DEFINE S == {m \in Nat : m <= n /\ f[m] \notin Nat}
  <2> SUFFICES ASSUME S # {} PROVE FALSE
    OBVIOUS
  <2>1. PICK m \in S : \A k \in S : m <= k
    <3>1. S \in SUBSET Nat
      OBVIOUS
    <3> HIDE DEF S
    <3> QED BY <3>1, LeastElement
  <2>2. m \in Nat /\ m <= n /\ f[m] \notin Nat /\ m # 0
    BY <1>1
  <2>3. m - 1 \in Nat /\ m - 1 <= n /\ m - 1 \notin S
    <3> HIDE DEF S
    <3> QED BY <2>1, <2>2
  <2>4. f[m - 1] \in Nat
    BY <2>3
  <2>5. f[m - 1 + 1] = f[m - 1] + s[m - 1 + 1] /\ m - 1 + 1 = m
    BY <1>1, <2>3
  <2>6. s[m] \in Nat
    BY <2>2
  <2> QED BY <2>2, <2>4, <2>5, <2>6
<1>3. ASSUME NEW k \in 0 .. n PROVE \A m \in 0 .. n : k <= m => f[k] + c * (m - k) <= f[m]
  <2> DEFINE S == {m \in Nat : k <= m /\ m <= n /\ ~ (f[k] + c * (m - k) <= f[m])}
  <2> SUFFICES ASSUME S # {} PROVE FALSE
    OBVIOUS
  <2>1. PICK m \in S : \A j \in S : m <= j
    <3>1. S \in SUBSET Nat
      OBVIOUS
    <3> HIDE DEF S
    <3> QED BY <3>1, LeastElement
  <2>2. m \in Nat /\ k <= m /\ m <= n /\ ~ (f[k] + c * (m - k) <= f[m])
    OBVIOUS
  <2>3. m # k
    <3>1. f[k] \in Nat /\ k - k = 0 /\ c * 0 = 0
      BY <1>2
    <3> QED BY <2>2, <3>1
  <2>4. m - 1 \in Nat /\ k <= m - 1 /\ m - 1 <= n /\ m - 1 \notin S
    <3> HIDE DEF S
    <3> QED BY <2>1, <2>2, <2>3
  <2>5. f[k] + c * ((m - 1) - k) <= f[m - 1]
    BY <2>4
  <2>6. f[m - 1 + 1] = f[m - 1] + s[m - 1 + 1] /\ m - 1 + 1 = m
    BY <1>1, <2>4
  <2>7. s[m] \in Nat /\ s[m] >= c /\ f[k] \in Nat /\ f[m - 1] \in Nat
    BY <1>2, <2>2, <2>3, <2>4
  <2> HIDE DEF S
  <2>8. f[m] = f[m - 1] + s[m]
    BY <2>6
  <2>9. c = 0 \/ c = 1 \/ c = 3
    OBVIOUS
  <2> QED BY <2>2, <2>4, <2>5, <2>7, <2>8, <2>9
<1> QED BY <1>2, <1>3 DEF f

-----------------------------------------------------------------------------
(* Counting, and front coding.                                             *)

\* A set of the first numbers is told by how many they are.
LEMMA InitialSegment ==
    ASSUME NEW n \in Nat, NEW S \in SUBSET (1 .. n), \A i \in S, j \in 1 .. n : j < i => j \in S
    PROVE  Cardinality(S) \in 0 .. n /\ S = 1 .. Cardinality(S)
<1> DEFINE T == {i \in Nat : i # 0 /\ i \notin S}
<1>1. n + 1 \in T
  OBVIOUS
<1>2. PICK m \in T : \A i \in T : m <= i
  <2>1. T \in SUBSET Nat /\ T # {}
    BY <1>1
  <2> HIDE DEF T
  <2> QED BY <2>1, LeastElement
<1>3. m \in Nat /\ m # 0 /\ m \notin S /\ m <= n + 1
  BY <1>1, <1>2
<1>4. ASSUME NEW i \in 1 .. m - 1 PROVE i \in S
  <2>1. i \in Nat /\ i # 0 /\ i \notin T
    <3> HIDE DEF T
    <3> QED BY <1>2, <1>3
  <2> QED BY <2>1
<1>5. ASSUME NEW i \in S PROVE i \in 1 .. m - 1
  BY <1>3
<1>6. S = 1 .. m - 1
  BY <1>4, <1>5
<1>7. Cardinality(S) = m - 1
  <2>1. m - 1 \in Nat
    BY <1>3
  <2>2. Cardinality(1 .. m - 1) = IF 1 > m - 1 THEN 0 ELSE (m - 1) - 1 + 1
    BY <2>1, FS_Interval
  <2> QED BY <1>6, <2>1, <2>2
<1> QED BY <1>3, <1>6, <1>7

\* What SharedPrefix counts.
LEMMA SharedIsShared ==
    ASSUME NEW a \in Paths, NEW b \in Paths
    PROVE  /\ SharedPrefix(a, b) \in 0 .. Len(a) /\ SharedPrefix(a, b) <= Len(b)
           /\ \A j \in 1 .. SharedPrefix(a, b) : a[j] = b[j]
<1> DEFINE S == {n \in 1 .. Len(a) : n <= Len(b) /\ \A j \in 1 .. n : a[j] = b[j]}
           c == Cardinality(S)
<1>1. Len(a) \in Nat /\ Len(b) \in Nat
  BY BytesOfPath
<1>2. S \in SUBSET (1 .. Len(a)) /\ \A i \in S, j \in 1 .. Len(a) : j < i => j \in S
  BY <1>1
<1>3. c \in 0 .. Len(a) /\ S = 1 .. c
  <2> HIDE DEF S
  <2> QED BY <1>1, <1>2, InitialSegment
<1>4. c = 0 \/ c \in S
  <2> HIDE DEF S, c
  <2> QED BY <1>1, <1>3
<1>5. c = SharedPrefix(a, b)
  BY DEF SharedPrefix
<1>6. c <= Len(b) /\ \A j \in 1 .. c : a[j] = b[j]
  <2>1. CASE c = 0
    <3> HIDE DEF S, c
    <3> QED BY <1>1, <2>1
  <2>2. CASE c \in S
    <3>1. \A n \in S : n <= Len(b) /\ \A j \in 1 .. n : a[j] = b[j]
      OBVIOUS
    <3> HIDE DEF S, c
    <3> QED BY <2>2, <3>1
  <2> QED BY <1>4, <2>1, <2>2
<1> HIDE DEF c, S
<1> QED BY <1>3, <1>5, <1>6

\* The record of an entry that follows the path p in its block.
CodeOf(p, e) ==
    [shared |-> SharedPrefix(p, e.path),
     suffix |-> SubSeq(e.path, SharedPrefix(p, e.path) + 1, Len(e.path)), value |-> e.value]

\* A record is decoded to what was encoded.
LEMMA FrontCoding ==
    ASSUME NEW p \in Paths, NEW e \in Entry
    PROVE  /\ CodeOf(p, e) \in Record
           /\ CodeOf(p, e).shared <= Len(p)
           /\ SubSeq(p, 1, CodeOf(p, e).shared) \o CodeOf(p, e).suffix = e.path
           /\ CodeOf(p, e).value = e.value
<1> DEFINE q == e.path
           n == SharedPrefix(p, q)
           u == SubSeq(p, 1, n)
           v == SubSeq(q, n + 1, Len(q))
<1>1. q \in Paths /\ e.value \in Value
  BY WriterAssumption DEF Entry
<1>2. Len(p) \in Nat /\ Len(q) \in Nat
  BY <1>1, BytesOfPath
<1>3. n \in 0 .. Len(p) /\ n <= Len(q) /\ \A j \in 1 .. n : p[j] = q[j]
  BY <1>1, SharedIsShared
<1> HIDE DEF n, q
<1>4. u \in Seq(Byte) /\ Len(u) = n /\ \A j \in 1 .. n : u[j] = p[j]
  BY <1>2, <1>3 DEF Paths
<1>5. v \in Seq(Byte) /\ Len(v) = Len(q) - n /\ \A j \in 1 .. Len(q) - n : v[j] = q[n + j]
  BY <1>1, <1>2, <1>3 DEF Paths
<1> HIDE DEF u, v
<1>6. u \o v = q
  <2>1. u \o v \in Seq(Byte) /\ Len(u \o v) = Len(q)
    <3>1. u \o v \in Seq(Byte) /\ Len(u \o v) = Len(u) + Len(v)
      BY <1>4, <1>5, ConcatProperties
    <3>2. n + (Len(q) - n) = Len(q)
      BY <1>2, <1>3
    <3> QED BY <1>4, <1>5, <3>1, <3>2
  <2>2. ASSUME NEW j \in 1 .. Len(q) PROVE (u \o v)[j] = q[j]
    <3>1. CASE j <= n
      BY <1>2, <1>3, <1>4, <1>5, <3>1
    <3>2. CASE j > n
      <4>1. (u \o v)[j] = v[j - n]
        BY <1>2, <1>3, <1>4, <1>5, <3>2
      <4>2. j - n \in 1 .. Len(q) - n /\ n + (j - n) = j
        BY <1>2, <1>3, <3>2
      <4> QED BY <1>5, <4>1, <4>2
    <3>3. j <= n \/ j > n
      BY <1>2, <1>3
    <3> QED BY <3>1, <3>2, <3>3
  <2> QED BY <1>1, <2>1, <2>2, SeqEqual DEF Paths
<1>7. /\ CodeOf(p, e) = [shared |-> n, suffix |-> v, value |-> e.value]
  BY DEF CodeOf, n, q, v
<1> QED BY <1>1, <1>2, <1>3, <1>4, <1>5, <1>6, <1>7 DEF Record, Paths, u, q

-----------------------------------------------------------------------------
(* What Add accepts.                                                       *)

\* The last key is that of the last entry, and the greatest.
SortedInv ==
    /\ added \in Seq(Entry)
    /\ \A i \in 1 .. Len(added) : added[i].path # <<>>
    /\ lastKey = IF added = <<>> THEN <<>> ELSE added[Len(added)].path
    /\ AcceptedIsSorted

LEMMA AddKeepsSorted == ASSUME SortedInv, NEW e \in Entry, Add(e) PROVE SortedInv'
<1>1. /\ e.path # <<>> /\ (lastKey = <<>> \/ Less(lastKey, e.path))
      /\ lastKey' = e.path /\ added' = Append(added, e)
  BY DEF Add, Refuses, OutOfOrder
<1>2. /\ added' \in Seq(Entry) /\ Len(added') = Len(added) + 1 /\ Len(added) \in Nat
      /\ added'[Len(added) + 1] = e
      /\ \A i \in 1 .. Len(added) : added'[i] = added[i]
  BY <1>1 DEF SortedInv
<1>3. \A i \in 1 .. Len(added) + 1 : added'[i].path # <<>>
  BY <1>1, <1>2 DEF SortedInv
<1>4. ASSUME NEW i \in 1 .. Len(added) PROVE Less(added[i].path, e.path)
  <2> DEFINE n == Len(added)
  <2>1. n \in 1 .. n /\ added # <<>> /\ lastKey = added[n].path /\ lastKey # <<>>
    BY <1>2, <1>4 DEF SortedInv
  <2>2. Less(added[n].path, e.path)
    BY <1>1, <2>1
  <2>3. \A x \in Entry : x.path \in Paths
    BY WriterAssumption DEF Entry
  <2>4. added[i] \in Entry /\ added[n] \in Entry
    BY <1>2, <2>1 DEF SortedInv
  <2>5. i # n => Less(added[i].path, added[n].path)
    BY <1>2, <2>1 DEF SortedInv, AcceptedIsSorted
  <2> QED BY <2>2, <2>3, <2>4, <2>5, LessTransitive
<1>5. AcceptedIsSorted'
  <2> SUFFICES ASSUME NEW i \in 1 .. Len(added) + 1, NEW j \in 1 .. Len(added) + 1, i < j
               PROVE  Less(added'[i].path, added'[j].path)
    BY <1>2 DEF AcceptedIsSorted
  <2>1. CASE j = Len(added) + 1
    BY <1>2, <1>4, <2>1
  <2>2. CASE j # Len(added) + 1
    BY <1>2, <2>2 DEF SortedInv, AcceptedIsSorted
  <2> QED BY <2>1, <2>2
<1>6. added' # <<>>
  BY <1>2
<1> QED BY <1>1, <1>2, <1>3, <1>5, <1>6 DEF SortedInv

LEMMA SortedKept == ASSUME SortedInv, [Next]_storeVars PROVE SortedInv'
<1>1. CASE \E e \in Entry : StoreAdd(e)
  BY <1>1, AddKeepsSorted DEF StoreAdd
<1>2. CASE UNCHANGED <<lastKey, added>>
  BY <1>2 DEF SortedInv, AcceptedIsSorted
<1>3. (\E e \in Entry : StoreAdd(e)) \/ UNCHANGED <<lastKey, added>>
  BY DEF Next, StoreClose, Close, Damage, NewReader, Verify, OpenCursor, Seek, ReadBlock,
         SeekStep, CursorNext, Eof, Over, writer, building, storeVars
<1> QED BY <1>1, <1>2, <1>3

\* "The writer accepts nothing out of canonical order, across blocks as within one"
\* (Add): whatever the caller does, and whatever becomes of the file afterwards.
THEOREM StoreAcceptedIsSorted == Spec => []AcceptedIsSorted
<1>1. StoreInit => SortedInv
  BY DEF StoreInit, Init, SortedInv, AcceptedIsSorted
<1>2. SortedInv => AcceptedIsSorted
  BY DEF SortedInv
<1> QED BY <1>1, <1>2, SortedKept, PTL DEF Spec

-----------------------------------------------------------------------------
(* The inductive invariant.                                                *)

\* Where the k-th piece of a file ends.
Lens(g)   == [k \in 1 .. Len(g) |-> g[k].len]
End(g, k) == Sums(Lens(g))[k]

\* The records of the k-th block, and how many there are in the first k.
BlockOf(g, k) == g[k + 2].holds
Upto(g, k)    == Sums([j \in Nat |-> Len(BlockOf(g, j))])[k]

\* The i-th record of the block that begins after n entries of l.
Code(l, n, i) == CodeOf(IF i = 1 THEN <<>> ELSE l[n + i - 1].path, l[n + i])

IsSeq(f) == f \in Seq({f[k] : k \in 1 .. Len(f)})

\* A file that begins with the header, the metadata and the blocks of the index, in
\* which the entries of l are, in their order.
Sections(g, idx, l) ==
    /\ g[1] = Piece("header", HeaderSize, <<>>)
    /\ g[2] = Piece("meta", MetaLength, <<>>)
    /\ \A k \in 1 .. Len(idx) :
          /\ BlockOf(g, k) \in Seq(Record) /\ BlockOf(g, k) # <<>>
          /\ g[k + 2] = BlockPiece(BlockOf(g, k))
          /\ idx[k] = Placed(BlockOf(g, k), End(g, k + 1))
          /\ \A i \in 1 .. Len(BlockOf(g, k)) : BlockOf(g, k)[i] = Code(l, Upto(g, k - 1), i)

\* The entries of l that are not in a block of g are in b.
Remaining(g, idx, b, l) ==
    /\ Upto(g, Len(idx)) + Len(b) = Len(l)
    /\ \A i \in 1 .. Len(b) : b[i] = Code(l, Upto(g, Len(idx)), i)

Place == [firstKey: Paths, offset: Nat, size: Nat]

Written ==
    /\ phase \in {"writing", "broken", "sealed"}
    /\ off \in Nat
    /\ added \in Seq([path: Key \ {<<>>}, value: Value])
    /\ entries = Len(added)
    /\ errors = Cardinality({i \in 1 .. Len(added) : added[i].value \in Unreadable})
    /\ block \in Seq(Record)
    /\ prev \in Key \cup {<<>>} /\ lastKey \in Key \cup {<<>>}
    /\ index \in Seq(Place)

WritingInv ==
    phase = "writing" =>
        /\ IsSeq(file) /\ Len(file) = Len(index) + 2
        /\ off = Size(file)
        /\ Sections(file, index, added) /\ Remaining(file, index, block, added)
        /\ block # <<>> => prev = added[Len(added)].path

\* What Close makes of it.
WholeFile ==
    LET n == Len(index)
        above == SubSeq(file, 1, n + 4)
    IN  /\ Len(file) = n + 6
        /\ Sections(file, index, added) /\ Upto(file, n) = Len(added)
        /\ file[n + 3] = IndexPiece(index)
        /\ file[n + 4] = Piece("footer", FieldsSize,
              <<[meta    |-> [at |-> HeaderSize, len |-> MetaLength],
                 data    |-> [at |-> DataOffset, len |-> End(file, n + 2) - DataOffset],
                 index   |-> [at |-> End(file, n + 2), len |-> IndexPiece(index).len],
                 entries |-> entries, errors |-> errors, blocks |-> n]>>)
        /\ file[n + 5] = Piece("digest", DigestSize, above)
        /\ file[n + 6] = Piece("magic", MagicSize, <<>>)

\* What is left of it in a file that still ends with the magic.
SealedInv ==
    phase = "sealed" /\ ~Cut =>
        LET digest == file[Len(file) - 1]
        IN  /\ IsSeq(file) /\ Len(file) >= 6
            /\ \A k \in 1 .. Len(file) : file[k].len \in Nat \ {0}
            /\ file[Len(file)].len = MagicSize /\ digest.len = DigestSize
            /\ IF digest.kind = "damaged" THEN digest.holds = <<>>
               ELSE \A k \in 1 .. Len(digest.holds) : digest.holds[k].kind # "damaged"
            /\ ~Altered => WholeFile

\* How many entries the cursor has decoded or passed.
Pos == Upto(file, at) - Len(rest)

CursorTyped ==
    /\ reading \in {"no", "opened", "verified", "seeking", "ready", "eof", "refused"}
    /\ target \in Key \cup {<<>>} /\ at \in Nat
    /\ rest \in Seq(Record) /\ before \in Paths /\ entry \in Entry \cup {NoEntry}
    /\ pending \in BOOLEAN /\ loaded \in Nat

\* The cursor has not been opened.
Untouched ==
    target = <<>> /\ at = 0 /\ rest = <<>> /\ pending = FALSE /\ got = <<>> /\ loaded = 0

InBlock ==
    /\ at \in 0 .. Len(index)
    /\ rest # <<>> =>
          LET b == BlockOf(file, at)
          IN  /\ at >= 1 /\ Len(rest) <= Len(b)
              /\ \A i \in 1 .. Len(rest) : rest[i] = b[Len(b) - Len(rest) + i]
              /\ before = IF Len(rest) = Len(b) THEN <<>> ELSE added[Pos].path

Seeking ==
    reading = "seeking" =>
        /\ ~pending /\ got = <<>> /\ Pos <= Passed
        /\ at = StartBlock(target) + loaded /\ loaded <= 2
        /\ loaded = 2 => Len(rest) = Len(BlockOf(file, at))

Reading ==
    /\ reading \in {"ready", "eof"} =>
          IF pending THEN /\ Pos = Passed + 1 /\ got = <<>> /\ entry = added[Pos]
          ELSE Pos >= Passed /\ got = SubSeq(added, Passed + 1, Pos)
    /\ reading = "eof" => ~pending /\ Pos = Len(added)

\* What a reading that was given up has returned.
GivenUp ==
    reading = "refused" =>
        got = <<>> \/ \E p \in Passed .. Len(added) : got = SubSeq(added, Passed + 1, p)

\* A block is flushed when it is full, and is then no longer than a path more.
BlocksFit ==
    /\ phase = "writing" => BlockLen(block) < BlockSize
    /\ ~LongText => \A k \in 1 .. Len(index) : index[k].size - BlockHeaderSize <= MaxBlockSize

ReadInv ==
    /\ CursorTyped
    /\ reading # "no" => phase \in {"sealed", "broken"}
    /\ reading \notin {"no", "refused"} => phase = "sealed" /\ ~Cut
    /\ DamageIsRefused /\ NeverCorrupt /\ SeekIsLocal
    /\ reading \in {"no", "opened", "verified"} => Untouched
    /\ reading \in {"seeking", "ready", "eof"} => InBlock
    /\ Seeking /\ Reading /\ GivenUp

SInv ==
    /\ SortedInv
    /\ Written
    /\ BlocksFit
    /\ WritingInv
    /\ phase = "broken" => Cut
    /\ SealedInv
    /\ ReadInv

-----------------------------------------------------------------------------
(* Facts about files.                                                      *)

\* A piece more.
LEMMA OneMore ==
    ASSUME NEW f, IsSeq(f), NEW x
    PROVE  /\ IsSeq(Append(f, x)) /\ Len(f) \in Nat /\ Len(Append(f, x)) = Len(f) + 1
           /\ Append(f, x)[Len(f) + 1] = x
           /\ \A k \in 1 .. Len(f) : Append(f, x)[k] = f[k]
<1> DEFINE S == {f[k] : k \in 1 .. Len(f)} \cup {x}
           g == Append(f, x)
<1>1. f \in Seq(S) /\ x \in S /\ Len(f) \in Nat
  BY DEF IsSeq
<1> HIDE DEF S
<1>2. /\ g \in Seq(S) /\ Len(g) = Len(f) + 1 /\ g[Len(f) + 1] = x
      /\ \A k \in 1 .. Len(f) : g[k] = f[k]
  BY <1>1, AppendProperties
<1> HIDE DEF g
<1>3. IsSeq(g)
  BY <1>2 DEF IsSeq
<1> QED BY <1>1, <1>2, <1>3 DEF g

\* Two files are the same if their pieces are.
LEMMA SamePieces ==
    ASSUME NEW f, NEW g, IsSeq(f), IsSeq(g), Len(f) = Len(g), \A k \in 1 .. Len(f) : f[k] = g[k]
    PROVE  f = g
<1> DEFINE S == {f[k] : k \in 1 .. Len(f)} \cup {g[k] : k \in 1 .. Len(g)}
<1>1. f \in Seq(S) /\ g \in Seq(S)
  BY DEF IsSeq
<1> HIDE DEF S
<1> QED BY <1>1, SeqEqual

\* Two pieces more.
LEMMA TwoMore ==
    ASSUME NEW f, IsSeq(f), NEW x, NEW y
    PROVE  f \o <<x, y>> = Append(Append(f, x), y)
<1> DEFINE S == {f[k] : k \in 1 .. Len(f)} \cup {x, y}
<1>1. f \in Seq(S) /\ x \in S /\ y \in S
  BY DEF IsSeq
<1> HIDE DEF S
<1>2. Append(f, x) = f \o <<x>> /\ Append(f, x) \in Seq(S)
  BY <1>1, AppendIsConcat, AppendProperties
<1>3. Append(Append(f, x), y) = (f \o <<x>>) \o <<y>>
  BY <1>1, <1>2, AppendIsConcat
<1>4. <<x>> \in Seq(S) /\ <<y>> \in Seq(S) /\ <<x>> \o <<y>> = <<x, y>>
  <2>1. <<x>> \in Seq(S) /\ <<y>> \in Seq(S)
    BY <1>1
  <2>2. Append(<<x>>, y) = <<x>> \o <<y>>
    BY <1>1, <2>1, AppendIsConcat
  <2>3. Append(<<x>>, y) = <<x, y>>
    <3>1. Append(<<x>>, y) \in Seq(S) /\ <<x, y>> \in Seq(S)
      BY <1>1, <2>1, AppendProperties
    <3>2. Len(<<x>>) = 1 /\ Len(<<x, y>>) = 2 /\ <<x>>[1] = x /\ <<x, y>>[1] = x /\ <<x, y>>[2] = y
      OBVIOUS
    <3>3. /\ Len(Append(<<x>>, y)) = 2 /\ Append(<<x>>, y)[2] = y
          /\ Append(<<x>>, y)[1] = x
      BY <1>1, <2>1, <3>2, AppendProperties
    <3>4. \A k \in 1 .. 2 : k = 1 \/ k = 2
      OBVIOUS
    <3> DEFINE p == Append(<<x>>, y)
               q == <<x, y>>
    <3> HIDE DEF p, q
    <3>5. p = q
      <4>1. p \in Seq(S) /\ q \in Seq(S) /\ Len(p) = 2 /\ Len(q) = 2
            /\ p[1] = q[1] /\ p[2] = q[2]
        BY <3>1, <3>2, <3>3 DEF p, q
      <4>2. \A k \in 1 .. Len(p) : p[k] = q[k]
        BY <3>4, <4>1
      <4> QED BY <4>1, <4>2, SeqEqual
    <3> QED BY <3>5 DEF p, q
  <2> QED BY <2>1, <2>2, <2>3
<1> QED BY <1>1, <1>3, <1>4, ConcatAssociative

\* The pieces of a sequence.
LEMMA OwnPieces == ASSUME NEW S, NEW f \in Seq(S) PROVE IsSeq(f)
BY DEF IsSeq

\* The first pieces.
LEMMA FirstOnes ==
    ASSUME NEW f, IsSeq(f), NEW n \in 0 .. Len(f)
    PROVE  /\ IsSeq(SubSeq(f, 1, n)) /\ Len(SubSeq(f, 1, n)) = n
           /\ \A k \in 1 .. n : SubSeq(f, 1, n)[k] = f[k]
<1> DEFINE S == {f[k] : k \in 1 .. Len(f)}
           g == SubSeq(f, 1, n)
<1>1. f \in Seq(S) /\ Len(f) \in Nat
  BY DEF IsSeq
<1> HIDE DEF S
<1>2. /\ g \in Seq(S) /\ Len(g) = n /\ \A k \in 1 .. n : g[k] = f[k]
  BY <1>1
<1> HIDE DEF g
<1>3. IsSeq(g)
  BY <1>2 DEF IsSeq
<1> QED BY <1>2, <1>3 DEF g

\* Two files end their first pieces at the same places if these have the same lengths.
LEMMA SameEnds ==
    ASSUME NEW f, NEW g, NEW n \in Nat, Len(f) \in Nat, Len(g) \in Nat, n <= Len(f), n <= Len(g),
           \A k \in 1 .. n : f[k].len = g[k].len
    PROVE  \A m \in 0 .. n : End(f, m) = End(g, m)
<1>1. \A k \in 1 .. n : Lens(f)[k] = Lens(g)[k]
  BY DEF Lens
<1> QED BY <1>1, SumsAgree DEF End

\* The place where the next piece ends.
LEMMA EndStep ==
    ASSUME NEW g, Len(g) \in Nat
    PROVE  /\ End(g, 0) = 0
           /\ \A k \in 0 .. Len(g) - 1 : End(g, k + 1) = End(g, k) + g[k + 1].len
           /\ Size(g) = End(g, Len(g))
<1>1. Lens(g) = [k \in 1 .. Len(g) |-> g[k].len] /\ Len(Lens(g)) = Len(g)
  BY DEF Lens
<1>2. \A k \in 0 .. Len(g) - 1 : k \in Nat /\ Lens(g)[k + 1] = g[k + 1].len
  BY <1>1
<1>3. Size(g) = Sums(Lens(g))[Len(g)]
  BY <1>1 DEF Size, Total, Lens
<1> QED BY <1>2, <1>3, SumsStep DEF End

\* The pieces of a file come one after the other.
LEMMA EndsGrow ==
    ASSUME NEW g, Len(g) \in Nat, \A k \in 1 .. Len(g) : g[k].len \in Nat \ {0}
    PROVE  /\ \A k \in 0 .. Len(g) : End(g, k) \in Nat
           /\ \A k, m \in 0 .. Len(g) : k < m => End(g, k) < End(g, m)
           /\ \A k, m \in 0 .. Len(g) : k <= m => End(g, k) <= End(g, m)
<1>1. \A k \in 1 .. Len(g) : Lens(g)[k] \in Nat /\ Lens(g)[k] >= 1
  BY DEF Lens
<1> DEFINE s == Lens(g)
           n == Len(g)
<1> HIDE DEF s, n
<1>2. /\ \A m \in 0 .. n : Sums(s)[m] \in Nat
      /\ \A k, m \in 0 .. n : k <= m => Sums(s)[k] + 1 * (m - k) <= Sums(s)[m]
  BY <1>1, SumsGrow DEF s, n
<1>3. n \in Nat
  BY DEF n
<1>4. \A k, m \in 0 .. n : k < m => Sums(s)[k] < Sums(s)[m]
  BY <1>2, <1>3
<1>5. \A k, m \in 0 .. n : k <= m => Sums(s)[k] <= Sums(s)[m]
  BY <1>2, <1>3
<1> QED BY <1>2, <1>4, <1>5 DEF End, s, n

\* The size of the first pieces of a file.
LEMMA SizeOfFirst ==
    ASSUME NEW f, IsSeq(f), NEW n \in 0 .. Len(f)
    PROVE  Size(SubSeq(f, 1, n)) = End(f, n)
<1> DEFINE g == SubSeq(f, 1, n)
<1>1. Len(g) = n /\ Len(f) \in Nat /\ n \in Nat /\ n <= Len(f) /\ \A k \in 1 .. n : g[k] = f[k]
  BY FirstOnes DEF IsSeq
<1> HIDE DEF g
<1>2. End(g, n) = End(f, n)
  <2>1. \A k \in 1 .. n : f[k].len = g[k].len
    BY <1>1
  <2>2. n \in Nat /\ Len(f) \in Nat /\ Len(g) \in Nat /\ n <= Len(f) /\ n <= Len(g)
    BY <1>1
  <2>3. \A m \in 0 .. n : End(f, m) = End(g, m)
    BY <2>1, <2>2, SameEnds, Zenon
  <2> QED BY <1>1, <2>3
<1>3. Size(g) = End(g, n)
  BY <1>1, EndStep
<1> QED BY <1>2, <1>3 DEF g

\* What readAt finds where a piece begins is that piece.
LEMMA ReadAtPiece ==
    ASSUME IsSeq(file), \A k \in 1 .. Len(file) : file[k].len \in Nat \ {0},
           NEW i \in 1 .. Len(file)
    PROVE  ReadAt(End(file, i - 1), file[i].len) = file[i]
<1> DEFINE there == {k \in 1 .. Len(file) :
                        Size(SubSeq(file, 1, k - 1)) = End(file, i - 1) /\ file[k].len = file[i].len}
<1>1. Len(file) \in Nat
  BY DEF IsSeq
<1>2. \A k \in 1 .. Len(file) : k - 1 \in 0 .. Len(file)
                                 /\ Size(SubSeq(file, 1, k - 1)) = End(file, k - 1)
  BY <1>1, SizeOfFirst
<1>3. \A k \in 1 .. Len(file) : End(file, k - 1) = End(file, i - 1) => k = i
  <2> SUFFICES ASSUME NEW k \in 1 .. Len(file), End(file, k - 1) = End(file, i - 1), k # i
               PROVE  FALSE
    OBVIOUS
  <2>1. k - 1 < i - 1 \/ i - 1 < k - 1
    BY <1>1
  <2>2. k - 1 \in 0 .. Len(file) /\ i - 1 \in 0 .. Len(file)
    BY <1>2
  <2>3. End(file, k - 1) < End(file, i - 1) \/ End(file, i - 1) < End(file, k - 1)
    BY <1>1, <2>1, <2>2, EndsGrow
  <2>4. End(file, k - 1) \in Nat /\ End(file, i - 1) \in Nat
    BY <1>1, <2>2, EndsGrow
  <2> QED BY <2>3, <2>4
<1>4. there = {i}
  BY <1>2, <1>3
<1>5. (CHOOSE k \in there : TRUE) = i /\ there # {}
  <2> HIDE DEF there
  <2> QED BY <1>4
<1> QED BY <1>5 DEF ReadAt

\* The number of records in the first blocks.
LEMMA UptoStep ==
    ASSUME NEW g
    PROVE  /\ Upto(g, 0) = 0
           /\ \A k \in Nat : Upto(g, k + 1) = Upto(g, k) + Len(BlockOf(g, k + 1))
<1> DEFINE s == [j \in Nat |-> Len(BlockOf(g, j))]
<1>1. \A k \in Nat : s[k + 1] = Len(BlockOf(g, k + 1))
  OBVIOUS
<1>2. Sums(s)[0] = 0 /\ \A k \in Nat : Sums(s)[k + 1] = Sums(s)[k] + s[k + 1]
  BY SumsStep
<1> QED BY <1>1, <1>2 DEF Upto

LEMMA SameUpto ==
    ASSUME NEW f, NEW g, NEW n \in Nat, \A k \in 1 .. n : f[k + 2].holds = g[k + 2].holds
    PROVE  \A m \in 0 .. n : Upto(f, m) = Upto(g, m)
<1> DEFINE s == [j \in Nat |-> Len(BlockOf(f, j))]
           t == [j \in Nat |-> Len(BlockOf(g, j))]
<1>1. \A k \in 1 .. n : s[k] = t[k]
  <2>1. \A k \in 1 .. n : k \in Nat /\ BlockOf(f, k) = BlockOf(g, k)
    BY DEF BlockOf
  <2> QED BY <2>1
<1> HIDE DEF s, t
<1>2. \A m \in 0 .. n : Sums(s)[m] = Sums(t)[m]
  BY <1>1, SumsAgree
<1> QED BY <1>2 DEF Upto, s, t

LEMMA UptoGrows ==
    ASSUME NEW g, NEW n \in Nat, \A k \in 1 .. n : Len(BlockOf(g, k)) \in Nat \ {0}
    PROVE  /\ \A k \in 0 .. n : Upto(g, k) \in Nat
           /\ \A k, m \in 0 .. n : k < m => Upto(g, k) < Upto(g, m)
           /\ \A k, m \in 0 .. n : k <= m => Upto(g, k) <= Upto(g, m)
<1> DEFINE s == [j \in Nat |-> Len(BlockOf(g, j))]
<1>1. \A k \in 1 .. n : s[k] \in Nat /\ s[k] >= 1
  OBVIOUS
<1>2. Upto(g, 0) = Sums(s)[0] /\ \A k \in 0 .. n : Upto(g, k) = Sums(s)[k]
  BY DEF Upto
<1> HIDE DEF s
<1>3. /\ \A m \in 0 .. n : Sums(s)[m] \in Nat
      /\ \A k, m \in 0 .. n : k <= m => Sums(s)[k] + 1 * (m - k) <= Sums(s)[m]
  BY <1>1, SumsGrow
<1>4. \A k, m \in 0 .. n : k < m => Sums(s)[k] < Sums(s)[m]
  BY <1>3
<1>5. \A k, m \in 0 .. n : k <= m => Sums(s)[k] <= Sums(s)[m]
  BY <1>3
<1> QED BY <1>2, <1>3, <1>4, <1>5

\* The blocks of a file are not empty.
LEMMA BlocksHold ==
    ASSUME NEW g, NEW idx, NEW l, Sections(g, idx, l), Len(idx) \in Nat
    PROVE  /\ \A k \in 1 .. Len(idx) : Len(BlockOf(g, k)) \in Nat \ {0}
           /\ \A k \in 0 .. Len(idx) : Upto(g, k) \in Nat
           /\ \A k, m \in 0 .. Len(idx) : k < m => Upto(g, k) < Upto(g, m)
           /\ \A k, m \in 0 .. Len(idx) : k <= m => Upto(g, k) <= Upto(g, m)
           /\ \A k \in 1 .. Len(idx) : Upto(g, k) = Upto(g, k - 1) + Len(BlockOf(g, k))
<1>1. ASSUME NEW k \in 1 .. Len(idx) PROVE Len(BlockOf(g, k)) \in Nat \ {0}
  <2>1. BlockOf(g, k) \in Seq(Record) /\ BlockOf(g, k) # <<>>
    BY DEF Sections
  <2> HIDE DEF BlockOf
  <2> QED BY <2>1, EmptySeq
<1>2. ASSUME NEW k \in 1 .. Len(idx) PROVE Upto(g, k) = Upto(g, k - 1) + Len(BlockOf(g, k))
  <2>1. k - 1 \in Nat /\ (k - 1) + 1 = k
    OBVIOUS
  <2>2. Upto(g, (k - 1) + 1) = Upto(g, k - 1) + Len(BlockOf(g, (k - 1) + 1))
    BY <2>1, UptoStep
  <2> QED BY <2>1, <2>2
<1> QED BY <1>1, <1>2, UptoGrows

\* Only its first pieces tell what sections a file has.
LEMMA SameSections ==
    ASSUME NEW f, NEW g, NEW idx, NEW l, Sections(f, idx, l), Len(idx) \in Nat,
           Len(f) \in Nat, Len(g) \in Nat, Len(f) >= Len(idx) + 2, Len(g) >= Len(idx) + 2,
           \A k \in 1 .. Len(idx) + 2 : f[k] = g[k]
    PROVE  /\ Sections(g, idx, l)
           /\ \A k \in 0 .. Len(idx) : Upto(f, k) = Upto(g, k)
           /\ \A k \in 0 .. Len(idx) + 2 : End(f, k) = End(g, k)
<1> DEFINE n == Len(idx)
<1>1. \A k \in 1 .. n : k + 2 \in 1 .. n + 2 /\ BlockOf(f, k) = BlockOf(g, k)
  BY DEF BlockOf
<1>2. \A k \in 0 .. n : Upto(f, k) = Upto(g, k)
  <2>1. \A k \in 1 .. n : f[k + 2].holds = g[k + 2].holds
    BY <1>1
  <2> QED BY <2>1, SameUpto
<1>3. \A k \in 0 .. n + 2 : End(f, k) = End(g, k)
  <2>1. \A k \in 1 .. n + 2 : f[k].len = g[k].len
    OBVIOUS
  <2>2. n + 2 \in Nat /\ n + 2 <= Len(f) /\ n + 2 <= Len(g)
    OBVIOUS
  <2> QED BY <2>1, <2>2, SameEnds, Zenon
<1>4. Sections(g, idx, l)
  <2>1. g[1] = f[1] /\ g[2] = f[2] /\ \A k \in 1 .. n : g[k + 2] = f[k + 2]
    BY <1>1
  <2>2. g[1] = Piece("header", HeaderSize, <<>>) /\ g[2] = Piece("meta", MetaLength, <<>>)
    BY <2>1 DEF Sections
  <2>3. ASSUME NEW k \in 1 .. n
        PROVE  /\ BlockOf(g, k) \in Seq(Record) /\ BlockOf(g, k) # <<>>
               /\ g[k + 2] = BlockPiece(BlockOf(g, k))
               /\ idx[k] = Placed(BlockOf(g, k), End(g, k + 1))
               /\ \A i \in 1 .. Len(BlockOf(g, k)) :
                     BlockOf(g, k)[i] = Code(l, Upto(g, k - 1), i)
    <3>1. k - 1 \in 0 .. n /\ k + 1 \in 0 .. n + 2
      OBVIOUS
    <3>2. /\ BlockOf(g, k) = BlockOf(f, k) /\ g[k + 2] = f[k + 2]
          /\ End(g, k + 1) = End(f, k + 1) /\ Upto(g, k - 1) = Upto(f, k - 1)
      BY <1>1, <1>2, <1>3, <2>1, <3>1
    <3> QED BY <3>2 DEF Sections
  <2> QED BY <2>2, <2>3 DEF Sections
<1> QED BY <1>2, <1>3, <1>4

\* Nor does it matter what comes after the entries they hold.
LEMMA MoreEntries ==
    ASSUME NEW g, NEW idx, NEW l, NEW m, Sections(g, idx, l), Len(idx) \in Nat,
           Len(l) \in Nat, Upto(g, Len(idx)) <= Len(l),
           \A i \in 1 .. Len(l) : m[i] = l[i]
    PROVE  Sections(g, idx, m)
<1> DEFINE n == Len(idx)
<1>1. ASSUME NEW k \in 1 .. n, NEW i \in 1 .. Len(BlockOf(g, k))
      PROVE  Code(l, Upto(g, k - 1), i) = Code(m, Upto(g, k - 1), i)
  <2> DEFINE u == Upto(g, k - 1)
  <2>1. /\ u \in Nat /\ Upto(g, k) = u + Len(BlockOf(g, k)) /\ Upto(g, k) <= Upto(g, n)
        /\ Upto(g, n) \in Nat /\ Len(BlockOf(g, k)) \in Nat
    BY BlocksHold
  <2> HIDE DEF u
  <2>2. u + i \in 1 .. Len(l) /\ (i # 1 => u + i - 1 \in 1 .. Len(l))
    BY <2>1
  <2> QED BY <2>2 DEF Code, u
<1> QED BY <1>1 DEF Sections

-----------------------------------------------------------------------------
(* Writing.                                                                *)

\* The length of a block.
LEMMA BlockLength ==
    ASSUME NEW b \in Seq(Record)
    PROVE  BlockLen(b) \in Nat /\ BlockPiece(b).len \in Nat /\ BlockPiece(b).len >= BlockHeaderSize
<1> DEFINE s == [i \in 1 .. Len(b) |-> Len(b[i].suffix) + 1]
<1>1. Len(b) \in Nat /\ Len(s) = Len(b)
  OBVIOUS
<1>2. \A i \in 1 .. Len(b) : s[i] \in Nat /\ s[i] >= 1
  <2> SUFFICES ASSUME NEW i \in 1 .. Len(b) PROVE s[i] \in Nat /\ s[i] >= 1
    OBVIOUS
  <2>1. b[i].suffix \in Paths
    <3>1. b[i] \in Record
      OBVIOUS
    <3> QED BY <3>1 DEF Record
  <2>2. Len(b[i].suffix) \in Nat
    BY <2>1, BytesOfPath
  <2> QED BY <2>2
<1>3. BlockLen(b) = Sums(s)[Len(b)]
  BY <1>1 DEF BlockLen, Total
<1> DEFINE n == Len(b)
<1> HIDE DEF s, n
<1>4. BlockLen(b) \in Nat
  <2>1. n \in Nat /\ \A i \in 1 .. n : s[i] \in Nat /\ s[i] >= 1
    BY <1>1, <1>2 DEF n
  <2>2. \A m \in 0 .. n : Sums(s)[m] \in Nat
    BY <2>1, SumsGrow
  <2> QED BY <1>3, <2>1, <2>2 DEF n
<1> QED BY <1>4 DEF BlockPiece, Piece, BlockHeaderSize

\* An empty block is below any size.
LEMMA EmptyBlock == BlockLen(<<>>) < BlockSize
<1>1. BlockLen(<<>>) = Sums([i \in 1 .. 0 |-> Len(<<>>[i].suffix) + 1])[0]
  BY DEF BlockLen, Total
<1> QED BY <1>1, SumsStep, WriterAssumption

\* Neither the magic nor a damaged piece is in the sections.
LEMMA SectionKinds ==
    ASSUME NEW g, NEW idx, NEW l, Sections(g, idx, l), Len(idx) \in Nat
    PROVE  \A k \in 1 .. Len(idx) + 2 :
              g[k].kind \notin {"magic", "damaged"} /\ g[k].len \in Nat \ {0}
<1>1. g[1].kind = "header" /\ g[1].len = HeaderSize /\ g[2].kind = "meta" /\ g[2].len = MetaLength
  BY DEF Sections, Piece
<1>2. ASSUME NEW k \in 1 .. Len(idx)
      PROVE  g[k + 2].kind = "block" /\ g[k + 2].len \in Nat \ {0}
  <2>1. g[k + 2] = BlockPiece(BlockOf(g, k)) /\ BlockOf(g, k) \in Seq(Record)
    BY DEF Sections
  <2>2. BlockPiece(BlockOf(g, k)).kind = "block"
    BY DEF BlockPiece, Piece
  <2>3. BlockPiece(BlockOf(g, k)).len \in Nat \ {0}
    BY <2>1, BlockLength DEF BlockHeaderSize
  <2> QED BY <2>1, <2>2, <2>3
<1>3. \A k \in 1 .. Len(idx) + 2 : k = 1 \/ k = 2 \/ (k - 2 \in 1 .. Len(idx) /\ (k - 2) + 2 = k)
  OBVIOUS
<1>4. HeaderSize \in Nat \ {0} /\ MetaLength \in Nat \ {0}
  BY WriterAssumption DEF HeaderSize
<1> QED BY <1>1, <1>2, <1>3, <1>4

\* flushBlock: the records of a block are those of the entries that were not in one.
LEMMA Flushed ==
    ASSUME NEW g, NEW idx \in Seq(Place), NEW l, NEW b \in Seq(Record),
           IsSeq(g), Len(g) = Len(idx) + 2, Len(l) \in Nat,
           Sections(g, idx, l), Remaining(g, idx, b, l), b # <<>>
    PROVE  LET h == Append(g, BlockPiece(b))
               x == Append(idx, Placed(b, Size(g)))
           IN  /\ IsSeq(h) /\ x \in Seq(Place) /\ Len(h) = Len(x) + 2 /\ Len(x) = Len(idx) + 1
               /\ Sections(h, x, l) /\ Upto(h, Len(x)) = Len(l)
               /\ Size(h) = Size(g) + BlockPiece(b).len
               /\ Size(g) \in Nat /\ BlockPiece(b).len \in Nat
<1> DEFINE n == Len(idx)
           h == Append(g, BlockPiece(b))
           q == Placed(b, Size(g))
           x == Append(idx, q)
<1>1. n \in Nat /\ Len(g) \in Nat
  OBVIOUS
<1>2. /\ IsSeq(h) /\ Len(h) = n + 3 /\ h[n + 3] = BlockPiece(b)
      /\ \A k \in 1 .. n + 2 : h[k] = g[k]
  <2>1. /\ IsSeq(h) /\ Len(h) = Len(g) + 1 /\ h[Len(g) + 1] = BlockPiece(b)
        /\ \A k \in 1 .. Len(g) : h[k] = g[k]
    BY OneMore
  <2>2. Len(g) + 1 = n + 3 /\ Len(g) = n + 2
    BY <1>1
  <2> HIDE DEF h, n
  <2> QED BY <2>1, <2>2
<1>3. Size(g) \in Nat /\ Size(g) = End(g, n + 2)
  <2>1. \A k \in 1 .. Len(g) : g[k].len \in Nat \ {0}
    BY <1>1, SectionKinds
  <2>2. \A k \in 0 .. Len(g) : End(g, k) \in Nat
    BY <1>1, <2>1, EndsGrow
  <2>3. Size(g) = End(g, Len(g))
    BY <1>1, EndStep
  <2> QED BY <1>1, <2>2, <2>3
<1>4. q \in Place
  <2>1. b[1] \in Record
    <3>1. Len(b) \in Nat /\ Len(b) # 0
      BY EmptySeq
    <3> QED BY <3>1
  <2> QED BY <1>3, <2>1, BlockLength DEF Place, Placed, Record
<1>5. x \in Seq(Place) /\ Len(x) = n + 1 /\ x[n + 1] = q /\ \A k \in 1 .. n : x[k] = idx[k]
  <2> HIDE DEF q
  <2> QED BY <1>4, AppendProperties
<1> HIDE DEF x, h, q, n
<1>6. /\ Sections(h, idx, l)
      /\ \A k \in 0 .. n : Upto(h, k) = Upto(g, k)
      /\ \A k \in 0 .. n + 2 : End(h, k) = End(g, k)
  <2>1. /\ Len(idx) \in Nat /\ Len(g) \in Nat /\ Len(h) \in Nat
        /\ Len(g) >= Len(idx) + 2 /\ Len(h) >= Len(idx) + 2
        /\ \A k \in 1 .. Len(idx) + 2 : g[k] = h[k]
    BY <1>1, <1>2 DEF n
  <2>2. /\ Sections(h, idx, l)
        /\ \A k \in 0 .. Len(idx) : Upto(g, k) = Upto(h, k)
        /\ \A k \in 0 .. Len(idx) + 2 : End(g, k) = End(h, k)
    BY <2>1, SameSections, Zenon
  <2> QED BY <2>2 DEF n
<1>7. BlockOf(h, n + 1) = b
  <2>1. (n + 1) + 2 = n + 3
    BY <1>1
  <2>2. BlockPiece(b).holds = b
    BY DEF BlockPiece, Piece
  <2> QED BY <1>2, <2>1, <2>2 DEF BlockOf
<1>8. Upto(g, n) + Len(b) = Len(l) /\ \A i \in 1 .. Len(b) : b[i] = Code(l, Upto(g, n), i)
  BY DEF Remaining, n
<1>9. Upto(h, n + 1) = Len(l)
  BY <1>1, <1>6, <1>7, <1>8, UptoStep
<1>10. Size(h) = Size(g) + BlockPiece(b).len
  <2>1. Size(h) = End(h, n + 3) /\ n + 2 \in 0 .. Len(h) - 1 /\ (n + 2) + 1 = n + 3
    BY <1>1, <1>2, EndStep
  <2>2. End(h, (n + 2) + 1) = End(h, n + 2) + h[(n + 2) + 1].len
    <3>1. Len(h) \in Nat
      BY <1>1, <1>2
    <3>2. \A k \in 0 .. Len(h) - 1 : End(h, k + 1) = End(h, k) + h[k + 1].len
      BY <3>1, EndStep
    <3> QED BY <2>1, <3>2
  <2>3. End(h, n + 2) = Size(g)
    BY <1>1, <1>3, <1>6
  <2> QED BY <1>2, <2>1, <2>2, <2>3
<1>11. Sections(h, x, l)
  <2>1. h[1] = Piece("header", HeaderSize, <<>>) /\ h[2] = Piece("meta", MetaLength, <<>>)
    BY <1>6 DEF Sections
  <2>2. ASSUME NEW k \in 1 .. n
        PROVE  /\ BlockOf(h, k) \in Seq(Record) /\ BlockOf(h, k) # <<>>
               /\ h[k + 2] = BlockPiece(BlockOf(h, k))
               /\ x[k] = Placed(BlockOf(h, k), End(h, k + 1))
               /\ \A i \in 1 .. Len(BlockOf(h, k)) : BlockOf(h, k)[i] = Code(l, Upto(h, k - 1), i)
    BY <1>5, <1>6 DEF Sections, n
  <2>3. /\ BlockOf(h, n + 1) \in Seq(Record) /\ BlockOf(h, n + 1) # <<>>
        /\ h[(n + 1) + 2] = BlockPiece(BlockOf(h, n + 1))
        /\ x[n + 1] = Placed(BlockOf(h, n + 1), End(h, (n + 1) + 1))
        /\ \A i \in 1 .. Len(BlockOf(h, n + 1)) :
              BlockOf(h, n + 1)[i] = Code(l, Upto(h, (n + 1) - 1), i)
    <3>1. (n + 1) + 2 = n + 3 /\ (n + 1) + 1 = n + 2 /\ (n + 1) - 1 = n
      BY <1>1
    <3>2. End(h, n + 2) = Size(g) /\ Upto(h, n) = Upto(g, n)
      BY <1>1, <1>3, <1>6
    <3> QED BY <1>2, <1>5, <1>7, <1>8, <3>1, <3>2 DEF q
  <2>4. \A k \in 1 .. Len(x) : k = n + 1 \/ k \in 1 .. n
    BY <1>1, <1>5
  <2> QED BY <2>1, <2>2, <2>3, <2>4 DEF Sections
<1>12. BlockPiece(b).len \in Nat
  BY BlockLength
<1>13. Len(h) = Len(x) + 2
  BY <1>1, <1>2, <1>5
<1>14. Upto(h, Len(x)) = Len(l)
  BY <1>5, <1>9
<1> QED BY <1>2, <1>3, <1>5, <1>10, <1>11, <1>12, <1>13, <1>14 DEF h, x, q, n

-----------------------------------------------------------------------------
(* The first state.                                                        *)

LEMMA SInvInit == StoreInit => SInv
<1> SUFFICES ASSUME StoreInit PROVE SInv
  OBVIOUS
<1> DEFINE h == Piece("header", HeaderSize, <<>>)
           m == Piece("meta", MetaLength, <<>>)
<1>1. /\ phase = "writing" /\ file = <<h, m>> /\ off = DataOffset
      /\ block = <<>> /\ prev = <<>> /\ lastKey = <<>>
      /\ index = <<>> /\ entries = 0 /\ errors = 0 /\ added = <<>>
  BY DEF StoreInit, Init
<1>2. /\ reading = "no" /\ target = <<>> /\ at = 0 /\ rest = <<>> /\ before = <<>>
      /\ entry = NoEntry /\ pending = FALSE /\ got = <<>> /\ loaded = 0
  BY DEF StoreInit
<1>3. SortedInv
  BY <1>1 DEF SortedInv, AcceptedIsSorted
<1>4. DataOffset \in Nat
  BY WriterAssumption DEF DataOffset, HeaderSize
<1>5. Written
  <2>1. {i \in 1 .. Len(added) : added[i].value \in Unreadable} = {} /\ Len(added) = 0
    BY <1>1
  <2>2. Cardinality({i \in 1 .. Len(added) : added[i].value \in Unreadable}) = 0
    BY <2>1, FS_EmptySet
  <2> QED BY <1>1, <1>4, <2>1, <2>2 DEF Written
<1>6. WritingInv
  <2> HIDE DEF h, m
  <2>1. Len(file) = 2 /\ Len(index) = 0 /\ Len(block) = 0 /\ Len(added) = 0
    BY <1>1
  <2>2. file[1] = h /\ file[2] = m
    BY <1>1
  <2>3. IsSeq(file)
    <3>1. \A k \in {1, 2} : k \in 1 .. Len(file)
      BY <2>1
    <3>2. h \in {file[k] : k \in 1 .. Len(file)} /\ m \in {file[k] : k \in 1 .. Len(file)}
      BY <2>2, <3>1
    <3> QED BY <1>1, <3>2 DEF IsSeq
  <2>4. Size(file) = off
    <3>1. /\ Size(file) = End(file, 2) /\ End(file, 0) = 0
          /\ End(file, 0 + 1) = End(file, 0) + file[0 + 1].len
          /\ End(file, 1 + 1) = End(file, 1) + file[1 + 1].len
      <4>1. 0 \in 0 .. Len(file) - 1 /\ 1 \in 0 .. Len(file) - 1 /\ Len(file) \in Nat
        BY <2>1
      <4>2. /\ Size(file) = End(file, Len(file)) /\ End(file, 0) = 0
            /\ \A k \in 0 .. Len(file) - 1 : End(file, k + 1) = End(file, k) + file[k + 1].len
        BY <4>1, EndStep, Zenon
      <4> QED BY <2>1, <4>1, <4>2, Zenon
    <3>2. file[1].len = HeaderSize /\ file[2].len = MetaLength
      BY <2>2 DEF h, m, Piece
    <3>3. HeaderSize \in Nat /\ MetaLength \in Nat
      BY WriterAssumption DEF HeaderSize
    <3> QED BY <1>1, <3>1, <3>2, <3>3 DEF DataOffset
  <2>5. Sections(file, index, added)
    BY <2>1, <2>2 DEF Sections, h, m
  <2>6. Remaining(file, index, block, added)
    BY <2>1, UptoStep DEF Remaining
  <2> QED BY <1>1, <2>1, <2>3, <2>4, <2>5, <2>6 DEF WritingInv
<1>7. SealedInv /\ phase # "broken"
  BY <1>1 DEF SealedInv
<1>8. ReadInv
  <2>1. CursorTyped
    <3>1. reading = "no" /\ target \in Key \cup {<<>>} /\ at \in Nat /\ pending \in BOOLEAN /\ loaded \in Nat
      BY <1>2
    <3>2. rest \in Seq(Record) /\ before \in Paths
      BY <1>2 DEF Paths
    <3> QED BY <1>2, <3>1, <3>2 DEF CursorTyped
  <2> QED BY <1>2, <2>1 DEF ReadInv, DamageIsRefused, NeverCorrupt, SeekIsLocal, Untouched,
             Seeking, Reading, GivenUp
<1>9. BlocksFit
  BY <1>1, EmptyBlock DEF BlocksFit
<1> QED BY <1>3, <1>5, <1>6, <1>7, <1>8, <1>9 DEF SInv

-----------------------------------------------------------------------------
(* Add.                                                                    *)

\* Nothing has opened the file yet.
LEMMA NotRead ==
    ASSUME ReadInv, reading = "no", UNCHANGED <<reading, cursor>>
    PROVE  ReadInv'
<1>1. /\ reading' = "no" /\ target' = target /\ at' = at /\ rest' = rest /\ before' = before
      /\ entry' = entry /\ pending' = pending /\ got' = got /\ loaded' = loaded
  BY DEF cursor
<1>2. CursorTyped' /\ Untouched' /\ SeekIsLocal'
  BY <1>1 DEF ReadInv, CursorTyped, Untouched, SeekIsLocal
<1>3. DamageIsRefused' /\ NeverCorrupt' /\ Seeking' /\ Reading' /\ GivenUp'
  BY <1>1 DEF DamageIsRefused, NeverCorrupt, Seeking, Reading, GivenUp
<1> QED BY <1>1, <1>2, <1>3 DEF ReadInv

\* While the file is written, nothing has opened it.
LEMMA NotReadWhileWriting ==
    ASSUME SInv, phase = "writing"
    PROVE  reading = "no"
BY DEF SInv, ReadInv

\* The record Add appends is that of the new entry.
LEMMA AddEncodes ==
    ASSUME SInv, NEW e \in Entry, Add(e)
    PROVE  /\ Append(block, Encoded(e)) \in Seq(Record) /\ Append(block, Encoded(e)) # <<>>
           /\ Len(added) \in Nat /\ Len(added') = Len(added) + 1
           /\ added'[Len(added) + 1] = e /\ \A i \in 1 .. Len(added) : added'[i] = added[i]
           /\ Sections(file, index, added')
           /\ Remaining(file, index, Append(block, Encoded(e)), added')
<1> DEFINE n == Len(index)
           u == Upto(file, n)
           a == Len(added)
           c == Len(block)
           b == Append(block, Encoded(e))
<1>1. /\ phase = "writing" /\ added' = Append(added, e) /\ added \in Seq(Entry)
      /\ block \in Seq(Record) /\ index \in Seq(Place) /\ prev \in Key \cup {<<>>}
  BY DEF Add, SInv, SortedInv, Written
<1>2. /\ a \in Nat /\ c \in Nat /\ n \in Nat /\ Len(added') = a + 1 /\ added'[a + 1] = e
      /\ \A i \in 1 .. a : added'[i] = added[i]
  BY <1>1
<1>3. /\ Sections(file, index, added) /\ Remaining(file, index, block, added)
      /\ block # <<>> => prev = added[a].path
  BY <1>1 DEF SInv, WritingInv
<1>4. \A k \in 0 .. n : Upto(file, k) \in Nat
  BY <1>2, <1>3, BlocksHold
<1>5. u \in Nat /\ u + c = a /\ \A i \in 1 .. c : block[i] = Code(added, u, i)
  BY <1>2, <1>3, <1>4 DEF Remaining
<1>6. PrevInBlock = (IF c + 1 = 1 THEN <<>> ELSE added'[u + c].path)
  <2>1. CASE block = <<>>
    BY <2>1 DEF PrevInBlock
  <2>2. CASE block # <<>>
    <3>1. c # 0 /\ c + 1 # 1
      BY <1>1, <1>2, <2>2, EmptySeq
    <3>2. u + c = a /\ a \in 1 .. a
      BY <1>2, <1>5, <3>1
    <3> QED BY <1>2, <1>3, <2>2, <3>1, <3>2 DEF PrevInBlock
  <2> QED BY <2>1, <2>2
<1>7. PrevInBlock \in Paths
  <2>1. prev \in Paths
    <3>1. <<>> \in Paths
      BY DEF Paths
    <3>2. Key \subseteq Paths
      BY WriterAssumption
    <3> QED BY <1>1, <3>1, <3>2
  <2>2. <<>> \in Paths
    BY DEF Paths
  <2> QED BY <2>1, <2>2 DEF PrevInBlock
<1>8. Encoded(e) = CodeOf(PrevInBlock, e)
  BY DEF Encoded, CodeOf
<1>9. Encoded(e) \in Record
  BY <1>7, <1>8, FrontCoding
<1>10. b \in Seq(Record) /\ Len(b) = c + 1 /\ b[c + 1] = Encoded(e) /\ \A i \in 1 .. c : b[i] = block[i]
  <2> HIDE DEF c
  <2>1. /\ b \in Seq(Record) /\ Len(b) = Len(block) + 1 /\ b[Len(block) + 1] = Encoded(e)
        /\ \A i \in 1 .. Len(block) : b[i] = block[i]
    BY <1>1, <1>9, AppendProperties
  <2> QED BY <2>1 DEF c
<1>11. b # <<>>
  BY <1>1, <1>9, AppendProperties
<1>12. Encoded(e) = Code(added', u, c + 1)
  <2>1. u + (c + 1) = a + 1 /\ u + (c + 1) - 1 = u + c
    BY <1>2, <1>5
  <2> HIDE DEF u, c, a
  <2> QED BY <1>2, <1>6, <1>8, <2>1 DEF Code
<1>13. ASSUME NEW i \in 1 .. c PROVE block[i] = Code(added', u, i)
  <2>1. u + i \in 1 .. a /\ (i # 1 => u + i - 1 \in 1 .. a)
    BY <1>2, <1>5
  <2>2. block[i] = Code(added, u, i)
    BY <1>5
  <2>3. Code(added, u, i) = Code(added', u, i)
    <3> HIDE DEF u, c, a
    <3> QED BY <1>2, <2>1 DEF Code
  <2> QED BY <2>2, <2>3
<1>14. Remaining(file, index, b, added')
  <2>1. u + Len(b) = Len(added')
    BY <1>2, <1>5, <1>10
  <2>2. \A i \in 1 .. Len(b) : i = c + 1 \/ i \in 1 .. c
    BY <1>2, <1>10
  <2>3. \A i \in 1 .. Len(b) : b[i] = Code(added', u, i)
    <3> HIDE DEF b, u, c
    <3> QED BY <1>10, <1>12, <1>13, <2>2
  <2> QED BY <2>1, <2>3 DEF Remaining
<1>15. Sections(file, index, added')
  <2>1. Upto(file, Len(index)) <= Len(added)
    BY <1>2, <1>5
  <2>2. Len(index) \in Nat /\ Len(added) \in Nat /\ \A i \in 1 .. Len(added) : added'[i] = added[i]
    BY <1>2
  <2> HIDE DEF n, u, a
  <2> QED BY <1>3, <2>1, <2>2, MoreEntries, Zenon
<1> QED BY <1>2, <1>10, <1>11, <1>14, <1>15

\* A block grows by the suffix of the entry, which is no longer than its path.
LEMMA AddGrows ==
    ASSUME SInv, NEW e \in Entry, Add(e)
    PROVE  /\ BlockLen(Append(block, Encoded(e))) \in Nat
           /\ Len(e.path) <= MaxStringSize =>
                 BlockLen(Append(block, Encoded(e))) <= BlockSize + MaxStringSize
<1> DEFINE b == Append(block, Encoded(e))
           c == Len(block)
           s == [i \in 1 .. Len(block) |-> Len(block[i].suffix) + 1]
           t == [i \in 1 .. Len(b) |-> Len(b[i].suffix) + 1]
<1>1. block \in Seq(Record) /\ BlockLen(block) < BlockSize /\ prev \in Key \cup {<<>>}
  BY DEF Add, SInv, Written, BlocksFit
<1>2. PrevInBlock \in Paths /\ e.path \in Paths
  <2>1. Key \subseteq Paths /\ <<>> \in Paths
    BY WriterAssumption DEF Paths
  <2> QED BY <1>1, <2>1 DEF PrevInBlock, Entry
<1>3. Encoded(e) = CodeOf(PrevInBlock, e)
  BY DEF Encoded, CodeOf
<1>4. Encoded(e) \in Record
  BY <1>2, <1>3, FrontCoding
<1>5. Len(Encoded(e).suffix) \in Nat /\ Len(Encoded(e).suffix) <= Len(e.path) /\ Len(e.path) \in Nat
  <2> DEFINE q == e.path
             n == SharedPrefix(PrevInBlock, q)
  <2>1. n \in Nat /\ n <= Len(q) /\ Len(q) \in Nat /\ q \in Seq(Byte)
    <3>1. n \in 0 .. Len(PrevInBlock) /\ n <= Len(q) /\ Len(PrevInBlock) \in Nat /\ Len(q) \in Nat
      BY <1>2, SharedIsShared, BytesOfPath
    <3> QED BY <1>2, <3>1 DEF Paths
  <2>2. Encoded(e).suffix = SubSeq(q, n + 1, Len(q))
    BY DEF Encoded
  <2> HIDE DEF q, n
  <2>3. Len(SubSeq(q, n + 1, Len(q))) = Len(q) - n
    BY <2>1
  <2> QED BY <2>1, <2>2, <2>3 DEF q
<1>6. /\ b \in Seq(Record) /\ Len(b) = c + 1 /\ b[c + 1] = Encoded(e) /\ c \in Nat
      /\ \A i \in 1 .. c : b[i] = block[i]
  <2>1. Len(block) \in Nat
    BY <1>1
  <2> QED BY <1>1, <1>4, <2>1, AppendProperties
<1> HIDE DEF b
<1>7. BlockLen(b) \in Nat /\ BlockLen(block) \in Nat
  BY <1>1, <1>6, BlockLength
<1>8. BlockLen(block) = Sums(s)[c] /\ BlockLen(b) = Sums(t)[c + 1]
  <2>1. Len(s) = c /\ Len(t) = c + 1
    BY <1>6
  <2> QED BY <2>1 DEF BlockLen, Total
<1>9. Sums(s)[c] = Sums(t)[c]
  <2>1. \A i \in 1 .. c : s[i] = t[i]
    BY <1>6
  <2> HIDE DEF s, t, c
  <2>2. \A m \in 0 .. c : Sums(s)[m] = Sums(t)[m]
    BY <1>6, <2>1, SumsAgree
  <2> QED BY <1>6, <2>2
<1>10. Sums(t)[c + 1] = Sums(t)[c] + t[c + 1]
  <2> HIDE DEF t, c
  <2> QED BY <1>6, SumsStep
<1>11. t[c + 1] = Len(Encoded(e).suffix) + 1
  BY <1>6
<1> HIDE DEF s, t, c
<1>12. BlockLen(b) = BlockLen(block) + Len(Encoded(e).suffix) + 1
  BY <1>7, <1>5, <1>8, <1>9, <1>10, <1>11
<1>13. BlockSize \in Nat /\ MaxStringSize \in Nat
  BY WriterAssumption, StoreAssumption
<1> QED BY <1>1, <1>5, <1>7, <1>12, <1>13 DEF b

\* Add flushes a block that is full, and no block becomes larger than the reader allows.
LEMMA AddFits ==
    ASSUME SInv, NEW e \in Entry, Add(e)
    PROVE  BlocksFit'
<1> DEFINE b == Append(block, Encoded(e))
           q == Placed(b, off)
<1>1. /\ phase = "writing" /\ added' = Append(added, e) /\ added \in Seq(Entry)
      /\ block \in Seq(Record) /\ index \in Seq(Place) /\ off \in Nat
  BY DEF Add, SInv, SortedInv, Written
<1>2. b \in Seq(Record) /\ b # <<>>
  BY AddEncodes
<1>3. /\ BlockLen(b) \in Nat
      /\ Len(e.path) <= MaxStringSize => BlockLen(b) <= BlockSize + MaxStringSize
  BY AddGrows
<1>4. ~LongText' => ~LongText /\ Len(e.path) <= MaxStringSize
  <2>1. /\ Len(added) \in Nat /\ Len(added') = Len(added) + 1
        /\ added'[Len(added) + 1] = e /\ \A i \in 1 .. Len(added) : added'[i] = added[i]
    BY AddEncodes
  <2>2. Len(added) + 1 \in 1 .. Len(added') /\ \A i \in 1 .. Len(added) : i \in 1 .. Len(added')
    BY <2>1
  <2>3. e.path \in Paths
    BY WriterAssumption DEF Entry
  <2>4. Len(e.path) \in Nat /\ MaxStringSize \in Nat
    BY <2>3, BytesOfPath, StoreAssumption
  <2> QED BY <2>1, <2>2, <2>4 DEF LongText
<1>5. ~LongText => \A k \in 1 .. Len(index) : index[k].size - BlockHeaderSize <= MaxBlockSize
  BY DEF SInv, BlocksFit
<1>6. BlockLen(<<>>) < BlockSize
  BY EmptyBlock
<1>7. q.size - BlockHeaderSize = BlockLen(b)
  BY <1>3 DEF Placed, BlockPiece, Piece, BlockHeaderSize
<1> HIDE DEF b
<1>8. CASE BlockLen(b) < BlockSize /\ block' = b /\ UNCHANGED <<phase, file, off, index>>
  BY <1>4, <1>5, <1>8 DEF BlocksFit
<1>9. CASE block' = <<>> /\ index' = Append(index, q)
  <2>1. q \in Place
    <3>1. b[1] \in Record
      <4>1. Len(b) \in Nat /\ Len(b) # 0
        BY <1>2, EmptySeq
      <4> QED BY <1>2, <4>1
    <3> QED BY <1>1, <1>2, <3>1, BlockLength DEF Place, Placed, Record
  <2> HIDE DEF q
  <2>2. /\ Len(index') = Len(index) + 1 /\ Len(index) \in Nat /\ index'[Len(index) + 1] = q
        /\ \A k \in 1 .. Len(index) : index'[k] = index[k]
    BY <1>1, <1>9, <2>1, AppendProperties
  <2>3. ~LongText' => q.size - BlockHeaderSize <= MaxBlockSize
    BY <1>3, <1>4, <1>7, WriterAssumption, StoreAssumption
  <2>4. \A k \in 1 .. Len(index') : k = Len(index) + 1 \/ k \in 1 .. Len(index)
    BY <2>2
  <2>5. ~LongText' => \A k \in 1 .. Len(index') : index'[k].size - BlockHeaderSize <= MaxBlockSize
    BY <1>4, <1>5, <2>2, <2>3, <2>4
  <2> QED BY <1>6, <1>9, <2>5 DEF BlocksFit
<1>10. CASE phase' = "broken" /\ UNCHANGED <<file, off, block, index>>
  BY <1>4, <1>5, <1>10 DEF BlocksFit
<1> QED BY <1>8, <1>9, <1>10 DEF Add, b

\* Add counts the entries that carry an error.
LEMMA AddCounts ==
    ASSUME SInv, NEW e \in Entry, Add(e)
    PROVE  /\ entries' = Len(added')
           /\ errors' = Cardinality({i \in 1 .. Len(added') : added'[i].value \in Unreadable})
           /\ added' \in Seq([path: Key \ {<<>>}, value: Value])
<1> DEFINE a == Len(added)
           S == {i \in 1 .. Len(added) : added[i].value \in Unreadable}
           T == {i \in 1 .. Len(added') : added'[i].value \in Unreadable}
<1>1. /\ a \in Nat /\ Len(added') = a + 1 /\ added'[a + 1] = e
      /\ \A i \in 1 .. a : added'[i] = added[i]
  BY AddEncodes
<1>2. entries = a /\ errors = Cardinality(S) /\ added \in Seq([path: Key \ {<<>>}, value: Value])
  BY DEF SInv, Written
<1>3. /\ entries' = entries + 1 /\ added' = Append(added, e)
      /\ errors' = IF e.value \in Unreadable THEN errors + 1 ELSE errors
  BY DEF Add
<1>4. e \in [path: Key \ {<<>>}, value: Value]
  BY DEF Add, Refuses, Entry
<1>5. T = IF e.value \in Unreadable THEN S \cup {a + 1} ELSE S
  <2>1. \A i : i \in 1 .. Len(added') <=> i \in 1 .. a \/ i = a + 1
    BY <1>1
  <2>2. a + 1 \notin 1 .. a
    BY <1>1
  <2> HIDE DEF a
  <2>3. \A i : i \in T <=> (i \in 1 .. a /\ added[i].value \in Unreadable)
                           \/ (i = a + 1 /\ e.value \in Unreadable)
    BY <1>1, <2>1, <2>2
  <2>4. \A i : i \in S <=> i \in 1 .. a /\ added[i].value \in Unreadable
    BY DEF a
  <2> HIDE DEF S, T
  <2> QED BY <2>3, <2>4
<1>6. IsFiniteSet(S) /\ a + 1 \notin S
  <2>1. IsFiniteSet(1 .. a)
    BY <1>1, FS_Interval
  <2>2. S \subseteq 1 .. a
    OBVIOUS
  <2>3. a + 1 \notin 1 .. a
    BY <1>1
  <2> HIDE DEF S, a
  <2> QED BY <2>1, <2>2, <2>3, FS_Subset
<1>7. Cardinality(S \cup {a + 1}) = Cardinality(S) + 1
  <2> HIDE DEF S, a
  <2> QED BY <1>6, FS_AddElement
<1>8. errors' = Cardinality(T)
  <2> HIDE DEF S, T, a
  <2> QED BY <1>2, <1>3, <1>5, <1>7
<1> HIDE DEF S, T
<1>9. added' \in Seq([path: Key \ {<<>>}, value: Value])
  <2> DEFINE E == [path: Key \ {<<>>}, value: Value]
  <2>1. added \in Seq(E) /\ e \in E /\ added' = Append(added, e)
    BY <1>2, <1>3, <1>4
  <2> HIDE DEF E
  <2>2. added' \in Seq(E)
    BY <2>1, AppendProperties
  <2> QED BY <2>2 DEF E
<1>10. entries' = Len(added')
  BY <1>1, <1>2, <1>3
<1> QED BY <1>8, <1>9, <1>10 DEF T

LEMMA AddKeepsSInv ==
    ASSUME SInv, NEW e \in Entry, StoreAdd(e)
    PROVE  SInv'
<1> DEFINE b == Append(block, Encoded(e))
           h == Append(file, BlockPiece(b))
           x == Append(index, Placed(b, Size(file)))
<1>1. /\ Add(e) /\ UNCHANGED <<reading, cursor>> /\ phase = "writing" /\ reading = "no"
      /\ off \in Nat /\ index \in Seq(Place) /\ block \in Seq(Record)
  BY NotReadWhileWriting DEF StoreAdd, Add, SInv, Written
<1>2. /\ b \in Seq(Record) /\ b # <<>>
      /\ Len(added) \in Nat /\ Len(added') = Len(added) + 1 /\ added'[Len(added) + 1] = e
      /\ Sections(file, index, added') /\ Remaining(file, index, b, added')
  BY <1>1, AddEncodes
<1>3. /\ entries' = Len(added')
      /\ errors' = Cardinality({i \in 1 .. Len(added') : added'[i].value \in Unreadable})
      /\ added' \in Seq([path: Key \ {<<>>}, value: Value])
  BY <1>1, AddCounts
<1>4. IsSeq(file) /\ Len(file) = Len(index) + 2 /\ off = Size(file)
  BY <1>1 DEF SInv, WritingInv
<1>5. SortedInv'
  BY <1>1, AddKeepsSorted DEF SInv
<1>6. ReadInv'
  BY <1>1, NotRead DEF SInv
<1>7. prev' = e.path /\ lastKey' = e.path /\ e.path \in Key /\ BlocksFit'
  BY <1>1, AddFits DEF Add, Entry
<1>8. /\ IsSeq(h) /\ x \in Seq(Place) /\ Len(h) = Len(x) + 2
      /\ Sections(h, x, added') /\ Upto(h, Len(x)) = Len(added')
      /\ Size(h) = Size(file) + BlockPiece(b).len
      /\ Size(file) \in Nat /\ BlockPiece(b).len \in Nat
  <2>1. Len(added') \in Nat
    BY <1>2
  <2> HIDE DEF b
  <2> QED BY <1>1, <1>2, <1>4, <2>1, Flushed
<1> HIDE DEF b, h, x
<1>9. CASE /\ block' = b /\ UNCHANGED <<phase, file, off, index>>
  <2>1. Written'
    BY <1>1, <1>2, <1>3, <1>7, <1>9 DEF Written
  <2>2. WritingInv'
    <3>1. prev' = added'[Len(added')].path
      BY <1>2, <1>7
    <3> QED BY <1>1, <1>2, <1>4, <1>9, <3>1 DEF WritingInv
  <2>3. SealedInv' /\ phase' = "writing"
    BY <1>1, <1>9 DEF SealedInv
  <2> QED BY <1>5, <1>6, <1>7, <2>1, <2>2, <2>3 DEF SInv
<1>10. CASE /\ block' = <<>> /\ file' = h /\ off' = off + BlockPiece(b).len
            /\ index' = x /\ phase' = phase
  <2>0. off' \in Nat /\ off' = Size(h)
    BY <1>4, <1>8, <1>10
  <2>1. Written'
    BY <1>1, <1>3, <1>7, <1>8, <1>10, <2>0 DEF Written
  <2>2. Remaining(h, x, <<>>, added')
    <3>1. Len(<<>>) = 0 /\ Len(added') \in Nat
      BY <1>2
    <3> QED BY <1>8, <3>1 DEF Remaining
  <2>3. WritingInv'
    BY <1>8, <1>10, <2>0, <2>2 DEF WritingInv
  <2>4. SealedInv' /\ phase' = "writing"
    BY <1>1, <1>10 DEF SealedInv
  <2> QED BY <1>5, <1>6, <1>7, <2>1, <2>3, <2>4 DEF SInv
<1>11. CASE phase' = "broken" /\ UNCHANGED <<file, off, block, index>>
  <2>1. Written'
    BY <1>1, <1>3, <1>7, <1>11 DEF Written
  <2>2. WritingInv' /\ SealedInv'
    BY <1>11 DEF WritingInv, SealedInv
  <2>3. Cut'
    <3>1. Len(index) \in Nat /\ Len(file) \in Nat /\ Len(file) \in 1 .. Len(file)
      BY <1>1, <1>4
    <3>2. file[Len(file)].kind # "magic"
      BY <1>2, <1>4, <3>1, SectionKinds
    <3> QED BY <1>11, <3>2 DEF Cut, Last
  <2> QED BY <1>5, <1>6, <1>7, <2>1, <2>2, <2>3 DEF SInv
<1> QED BY <1>1, <1>4, <1>9, <1>10, <1>11 DEF Add, b, h, x

-----------------------------------------------------------------------------
(* Close.                                                                  *)

\* Once the last block is flushed, every entry is in a block.
LEMMA LastBlockHoldsTheRest ==
    ASSUME SInv, phase = "writing"
    PROVE  LET last == LastBlock
           IN  /\ IsSeq(last.file) /\ last.index \in Seq(Place)
               /\ Len(last.file) = Len(last.index) + 2
               /\ Len(last.file) >= Len(file)
               /\ Sections(last.file, last.index, added)
               /\ Upto(last.file, Len(last.index)) = Len(added)
               /\ last.off = Size(last.file) /\ last.off \in Nat
<1>1. /\ IsSeq(file) /\ Len(file) = Len(index) + 2 /\ off = Size(file) /\ off \in Nat
      /\ index \in Seq(Place) /\ block \in Seq(Record)
      /\ Sections(file, index, added) /\ Remaining(file, index, block, added)
      /\ Len(added) \in Nat /\ Len(index) \in Nat
  BY DEF SInv, WritingInv, Written
<1>2. CASE block = <<>>
  <2>1. LastBlock.file = file /\ LastBlock.index = index /\ LastBlock.off = off
    BY <1>2 DEF LastBlock
  <2>2. Upto(file, Len(index)) = Len(added)
    <3>1. Upto(file, Len(index)) + 0 = Len(added)
      BY <1>1, <1>2 DEF Remaining
    <3>2. Upto(file, Len(index)) \in Nat
      BY <1>1, BlocksHold
    <3> QED BY <3>1, <3>2
  <2>3. Len(file) >= Len(file)
    BY <1>1
  <2> QED BY <1>1, <2>1, <2>2, <2>3
<1>3. CASE block # <<>>
  <2> DEFINE h == Append(file, BlockPiece(block))
             x == Append(index, Placed(block, Size(file)))
  <2>1. LastBlock.file = h /\ LastBlock.index = x /\ LastBlock.off = Size(file) + BlockPiece(block).len
    BY <1>1, <1>3 DEF LastBlock
  <2>2. /\ IsSeq(h) /\ x \in Seq(Place) /\ Len(h) = Len(x) + 2 /\ Len(x) = Len(index) + 1
        /\ Sections(h, x, added) /\ Upto(h, Len(x)) = Len(added)
        /\ Size(h) = Size(file) + BlockPiece(block).len
        /\ Size(file) \in Nat /\ BlockPiece(block).len \in Nat
    BY <1>1, <1>3, Flushed
  <2> HIDE DEF h, x
  <2>3. Len(h) >= Len(file)
    BY <1>1, <2>2
  <2>4. LastBlock.off = Size(h) /\ LastBlock.off \in Nat
    BY <2>1, <2>2
  <2> QED BY <2>1, <2>2, <2>3, <2>4
<1> QED BY <1>2, <1>3

\* A record of the index takes at least three bytes.
LEMMA IndexLength ==
    ASSUME NEW x \in Seq(Place)
    PROVE  /\ IndexLen(x) \in Nat /\ 3 * Len(x) <= IndexLen(x)
           /\ IndexPiece(x).len \in Nat /\ IndexPiece(x).len >= BlockHeaderSize
<1> DEFINE s == [k \in 1 .. Len(x) |-> Len(x[k].firstKey) + 3]
           n == Len(x)
<1>1. n \in Nat /\ Len(s) = n
  OBVIOUS
<1>2. \A i \in 1 .. n : s[i] \in Nat /\ s[i] >= 3
  <2> SUFFICES ASSUME NEW i \in 1 .. n PROVE s[i] \in Nat /\ s[i] >= 3
    OBVIOUS
  <2>1. x[i] \in Place
    OBVIOUS
  <2>2. Len(x[i].firstKey) \in Nat
    BY <2>1, BytesOfPath DEF Place
  <2> QED BY <2>2
<1>3. IndexLen(x) = 1 + Sums(s)[n]
  BY <1>1 DEF IndexLen, Total
<1> HIDE DEF s
<1>4. Sums(s)[0] = 0
  BY SumsStep
<1> HIDE DEF n
<1>5. Sums(s)[n] \in Nat /\ Sums(s)[0] + 3 * (n - 0) <= Sums(s)[n]
  <2>1. /\ \A m \in 0 .. n : Sums(s)[m] \in Nat
        /\ \A k, m \in 0 .. n : k <= m => Sums(s)[k] + 3 * (m - k) <= Sums(s)[m]
    BY <1>1, <1>2, SumsGrow
  <2>2. 0 \in 0 .. n /\ n \in 0 .. n /\ 0 <= n
    BY <1>1
  <2> QED BY <2>1, <2>2
<1>6. IndexLen(x) \in Nat /\ 3 * n <= IndexLen(x)
  BY <1>1, <1>3, <1>4, <1>5
<1>7. IndexPiece(x).len = BlockHeaderSize + IndexLen(x) /\ BlockHeaderSize \in Nat
  BY DEF IndexPiece, Piece, BlockHeaderSize
<1> QED BY <1>6, <1>7 DEF n

\* The file Close writes: the sections, and the four pieces after them.
LEMMA SealedPieces ==
    ASSUME SInv, phase = "writing"
    PROVE  LET last == LastBlock
               n    == Len(last.index)
           IN  /\ IsSeq(Sealed) /\ Len(Sealed) = n + 6 /\ n \in Nat
               /\ \A k \in 1 .. n + 2 : Sealed[k] = last.file[k]
               /\ Sealed[n + 3] = IndexPiece(last.index)
               /\ Sealed[n + 4] = FooterPiece(last)
               /\ Sealed[n + 5] = Piece("digest", DigestSize, SubSeq(Sealed, 1, n + 4))
               /\ Sealed[n + 6] = Piece("magic", MagicSize, <<>>)
<1> DEFINE last == LastBlock
           g == last.file
           n == Len(last.index)
           i == IndexPiece(last.index)
           f == FooterPiece(last)
           above == g \o <<i, f>>
           d == Piece("digest", DigestSize, Covered(above))
           m == Piece("magic", MagicSize, <<>>)
           g1 == Append(g, i)
           g2 == Append(g1, f)
           g3 == Append(g2, d)
           g4 == Append(g3, m)
<1>1. IsSeq(g) /\ Len(g) = n + 2 /\ n \in Nat
  BY LastBlockHoldsTheRest
<1>2. Sealed = above \o <<d, m>>
  BY DEF Sealed
<1> HIDE DEF g, n, i, f, d, m, last
<1>3. IsSeq(g1) /\ Len(g1) = n + 3 /\ g1[n + 3] = i /\ \A k \in 1 .. n + 2 : g1[k] = g[k]
  <2>1. /\ IsSeq(g1) /\ Len(g1) = Len(g) + 1 /\ g1[Len(g) + 1] = i
        /\ \A k \in 1 .. Len(g) : g1[k] = g[k]
    BY <1>1, OneMore
  <2>2. Len(g) + 1 = n + 3
    BY <1>1
  <2> HIDE DEF g1
  <2> QED BY <1>1, <2>1, <2>2
<1> HIDE DEF g1
<1>4. IsSeq(g2) /\ Len(g2) = n + 4 /\ g2[n + 4] = f /\ \A k \in 1 .. n + 3 : g2[k] = g1[k]
  <2>1. /\ IsSeq(g2) /\ Len(g2) = Len(g1) + 1 /\ g2[Len(g1) + 1] = f
        /\ \A k \in 1 .. Len(g1) : g2[k] = g1[k]
    BY <1>3, OneMore
  <2>2. Len(g1) + 1 = n + 4
    BY <1>1, <1>3
  <2> HIDE DEF g2
  <2> QED BY <1>3, <2>1, <2>2
<1> HIDE DEF g2
<1>5. IsSeq(g3) /\ Len(g3) = n + 5 /\ g3[n + 5] = d /\ \A k \in 1 .. n + 4 : g3[k] = g2[k]
  <2>1. /\ IsSeq(g3) /\ Len(g3) = Len(g2) + 1 /\ g3[Len(g2) + 1] = d
        /\ \A k \in 1 .. Len(g2) : g3[k] = g2[k]
    BY <1>4, OneMore
  <2>2. Len(g2) + 1 = n + 5
    BY <1>1, <1>4
  <2> HIDE DEF g3
  <2> QED BY <1>4, <2>1, <2>2
<1> HIDE DEF g3
<1>6. IsSeq(g4) /\ Len(g4) = n + 6 /\ g4[n + 6] = m /\ \A k \in 1 .. n + 5 : g4[k] = g3[k]
  <2>1. /\ IsSeq(g4) /\ Len(g4) = Len(g3) + 1 /\ g4[Len(g3) + 1] = m
        /\ \A k \in 1 .. Len(g3) : g4[k] = g3[k]
    BY <1>5, OneMore
  <2>2. Len(g3) + 1 = n + 6
    BY <1>1, <1>5
  <2> HIDE DEF g4
  <2> QED BY <1>5, <2>1, <2>2
<1> HIDE DEF g4
<1>7. above = g2
  BY <1>1, TwoMore DEF g1, g2
<1>8. Sealed = g4
  <2>1. g2 \o <<d, m>> = g4
    BY <1>4, TwoMore DEF g3, g4
  <2> HIDE DEF above
  <2> QED BY <1>2, <1>7, <2>1
<1>9. SubSeq(g4, 1, n + 4) = g2
  <2>1. /\ IsSeq(SubSeq(g4, 1, n + 4)) /\ Len(SubSeq(g4, 1, n + 4)) = n + 4
        /\ \A k \in 1 .. n + 4 : SubSeq(g4, 1, n + 4)[k] = g4[k]
    BY <1>1, <1>6, FirstOnes
  <2>2. \A k \in 1 .. n + 4 : g4[k] = g2[k]
    BY <1>1, <1>5, <1>6
  <2> DEFINE h == SubSeq(g4, 1, n + 4)
  <2> HIDE DEF h
  <2>3. IsSeq(h) /\ IsSeq(g2) /\ Len(h) = Len(g2) /\ \A k \in 1 .. Len(h) : h[k] = g2[k]
    BY <1>4, <2>1, <2>2 DEF h
  <2>4. h = g2
    BY <2>3, SamePieces
  <2> QED BY <2>4 DEF h
<1>10. d = Piece("digest", DigestSize, SubSeq(g4, 1, n + 4))
  <2> HIDE DEF above
  <2> QED BY <1>7, <1>9 DEF d, Covered
<1>11. /\ \A k \in 1 .. n + 2 : g4[k] = g[k]
       /\ g4[n + 3] = i /\ g4[n + 4] = f /\ g4[n + 5] = d /\ g4[n + 6] = m
  BY <1>1, <1>3, <1>4, <1>5, <1>6
<1> QED BY <1>1, <1>6, <1>8, <1>10, <1>11 DEF g, n, i, f, m, last

\* The pieces of that file are not empty, and the magic is its last one.
LEMMA SealedKinds ==
    ASSUME SInv, phase = "writing"
    PROVE  /\ \A k \in 1 .. Len(Sealed) : Sealed[k].kind # "damaged" /\ Sealed[k].len \in Nat \ {0}
           /\ \A k \in 1 .. Len(Sealed) - 1 : Sealed[k].kind # "magic"
<1> DEFINE last == LastBlock
           n == Len(last.index)
           x == last.index
<1>1. /\ n \in Nat /\ Len(Sealed) = n + 6 /\ \A k \in 1 .. n + 2 : Sealed[k] = last.file[k]
      /\ Sealed[n + 3] = IndexPiece(x) /\ Sealed[n + 4] = FooterPiece(last)
      /\ Sealed[n + 5] = Piece("digest", DigestSize, SubSeq(Sealed, 1, n + 4))
      /\ Sealed[n + 6] = Piece("magic", MagicSize, <<>>)
  BY SealedPieces
<1>2. /\ Sections(last.file, x, added) /\ Len(last.file) = n + 2 /\ x \in Seq(Place)
  BY LastBlockHoldsTheRest
<1> HIDE DEF last
<1>3. \A k \in 1 .. n + 2 : last.file[k].kind \notin {"magic", "damaged"} /\ last.file[k].len \in Nat \ {0}
  <2> DEFINE g == last.file
  <2>1. Sections(g, x, added) /\ Len(g) = Len(x) + 2 /\ Len(x) \in Nat
    BY <1>1, <1>2
  <2> HIDE DEF g, x
  <2>2. \A k \in 1 .. Len(x) + 2 : g[k].kind \notin {"magic", "damaged"} /\ g[k].len \in Nat \ {0}
    BY <2>1, SectionKinds, Zenon
  <2> QED BY <1>2, <2>1, <2>2 DEF g
<1>4. Sealed[n + 3].kind = "index" /\ Sealed[n + 3].len \in Nat \ {0}
  <2>1. IndexPiece(x).len \in Nat \ {0}
    <3> HIDE DEF x
    <3> QED BY <1>2, IndexLength DEF BlockHeaderSize
  <2>2. IndexPiece(x).kind = "index"
    BY DEF IndexPiece, Piece
  <2> QED BY <1>1, <2>1, <2>2
<1>5. Sealed[n + 4].kind = "footer" /\ Sealed[n + 4].len = FieldsSize
  <2>1. FooterPiece(last).kind = "footer" /\ FooterPiece(last).len = FieldsSize
    BY DEF FooterPiece, Piece
  <2> QED BY <1>1, <2>1
<1>6. /\ Sealed[n + 5].kind = "digest" /\ Sealed[n + 5].len = DigestSize
      /\ Sealed[n + 6].kind = "magic" /\ Sealed[n + 6].len = MagicSize
  BY <1>1 DEF Piece
<1>7. FieldsSize \in Nat \ {0} /\ DigestSize \in Nat \ {0} /\ MagicSize \in Nat \ {0}
  BY DEF FieldsSize, DigestSize, MagicSize
<1>8. \A k \in 1 .. Len(Sealed) : k \in 1 .. n + 2 \/ k = n + 3 \/ k = n + 4 \/ k = n + 5 \/ k = n + 6
  BY <1>1
<1>9. \A k \in 1 .. Len(Sealed) - 1 : k \in 1 .. n + 2 \/ k = n + 3 \/ k = n + 4 \/ k = n + 5
  BY <1>1
<1> HIDE DEF n
<1>10. \A k \in 1 .. n + 2 : /\ Sealed[k].kind # "magic" /\ Sealed[k].kind # "damaged"
                             /\ Sealed[k].len \in Nat \ {0}
  BY <1>1, <1>3
<1> QED BY <1>4, <1>5, <1>6, <1>7, <1>8, <1>9, <1>10

\* What Close leaves is that file, or the beginning of it.
LEMMA CloseWrites ==
    ASSUME SInv, StoreClose
    PROVE  /\ phase = "writing" /\ reading = "no" /\ ReadInv' /\ SortedInv' /\ Written'
           /\ \/ /\ phase' = "broken"
                 /\ \E m \in 1 .. Len(Sealed) - 1 : file' = SubSeq(Sealed, 1, m)
              \/ phase' = "sealed" /\ file' = Sealed /\ index' = LastBlock.index
           /\ UNCHANGED <<entries, errors, added>>
<1>1. Close /\ phase = "writing" /\ UNCHANGED <<reading, cursor>> /\ reading = "no"
  BY NotReadWhileWriting DEF StoreClose, Close
<1>2. ReadInv'
  BY <1>1, NotRead DEF SInv
<1>3. UNCHANGED <<prev, lastKey, entries, errors, added>>
  BY <1>1 DEF Close
<1>4. SortedInv'
  BY <1>3 DEF SInv, SortedInv, AcceptedIsSorted
<1>5. PICK m \in Len(file) .. Len(Sealed) :
          /\ phase' = IF m = Len(Sealed) THEN "sealed" ELSE "broken"
          /\ file' = SubSeq(Sealed, 1, m)
          /\ IF m >= Len(LastBlock.file) THEN block' = <<>> /\ index' = LastBlock.index
             ELSE UNCHANGED <<block, index>>
  BY <1>1 DEF Close
<1>6. /\ IsSeq(Sealed) /\ Len(Sealed) = Len(LastBlock.index) + 6
      /\ Len(LastBlock.index) \in Nat
  BY <1>1, SealedPieces
<1>7. /\ LastBlock.index \in Seq(Place) /\ Len(LastBlock.file) = Len(LastBlock.index) + 2
  BY <1>1, LastBlockHoldsTheRest
<1>8. Len(file) = Len(index) + 2 /\ index \in Seq(Place) /\ block \in Seq(Record)
  BY <1>1 DEF SInv, WritingInv, Written
<1>9. m \in 1 .. Len(Sealed) /\ Len(Sealed) \in Nat
  <2>1. Len(index) \in Nat
    BY <1>8
  <2> QED BY <1>6, <1>8, <2>1
<1>10. Len(file') = m /\ \A k \in 1 .. m : file'[k] = Sealed[k]
  <2>1. m \in 0 .. Len(Sealed)
    BY <1>9
  <2> QED BY <1>5, <1>6, <2>1, FirstOnes
<1>11. off' \in Nat
  <2> DEFINE s == [k \in 1 .. Len(file') |->
                      IF file'[k].kind \in {"digest", "magic"} THEN 0 ELSE file'[k].len]
  <2>1. off' = Sums(s)[m]
    <3>1. Len(s) = m
      BY <1>9, <1>10
    <3>2. off' = Total(s)
      BY <1>1 DEF Close
    <3> HIDE DEF s
    <3> QED BY <3>1, <3>2 DEF Total
  <2>2. \A k \in 1 .. m : s[k] \in Nat /\ s[k] >= 0
    <3> SUFFICES ASSUME NEW k \in 1 .. m PROVE s[k] \in Nat /\ s[k] >= 0
      OBVIOUS
    <3>1. k \in 1 .. Len(Sealed)
      BY <1>9
    <3>2. Sealed[k].len \in Nat
      BY <1>1, <3>1, SealedKinds
    <3>3. s[k] = IF file'[k].kind \in {"digest", "magic"} THEN 0 ELSE file'[k].len
      BY <1>10
    <3>4. s[k] = 0 \/ s[k] = Sealed[k].len
      BY <1>10, <3>3
    <3> HIDE DEF s
    <3> QED BY <3>2, <3>4
  <2> HIDE DEF s
  <2>3. m \in Nat /\ m \in 0 .. m /\ 0 \in {0, 1, 3}
    BY <1>9
  <2>4. \A j \in 0 .. m : Sums(s)[j] \in Nat
    BY <2>2, <2>3, SumsGrow
  <2> QED BY <2>1, <2>3, <2>4
<1>12. phase' \in {"sealed", "broken"} /\ block' \in Seq(Record) /\ index' \in Seq(Place)
  <2>1. phase' \in {"sealed", "broken"}
    BY <1>5
  <2>2. block' = <<>> \/ block' = block
    BY <1>5
  <2>3. index' = LastBlock.index \/ index' = index
    BY <1>5
  <2>4. <<>> \in Seq(Record)
    OBVIOUS
  <2> QED BY <1>7, <1>8, <2>1, <2>2, <2>3, <2>4
<1>13. Written'
  <2>1. Written
    BY DEF SInv
  <2> QED BY <1>3, <1>11, <1>12, <2>1 DEF Written
<1>14. CASE m = Len(Sealed)
  <2>1. phase' = "sealed" /\ file' = SubSeq(Sealed, 1, Len(Sealed)) /\ index' = LastBlock.index
    BY <1>5, <1>6, <1>7, <1>14
  <2>2. SubSeq(Sealed, 1, Len(Sealed)) = Sealed
    <3> DEFINE h == SubSeq(Sealed, 1, Len(Sealed))
    <3>1. Len(Sealed) \in 0 .. Len(Sealed)
      BY <1>9
    <3>2. IsSeq(h) /\ Len(h) = Len(Sealed) /\ \A k \in 1 .. Len(Sealed) : h[k] = Sealed[k]
      BY <1>6, <3>1, FirstOnes
    <3> HIDE DEF h
    <3>3. h = Sealed
      BY <1>6, <3>2, SamePieces
    <3> QED BY <3>3 DEF h
  <2> QED BY <1>1, <1>2, <1>3, <1>4, <1>13, <2>1, <2>2
<1>15. CASE m # Len(Sealed)
  <2>1. phase' = "broken" /\ m \in 1 .. Len(Sealed) - 1
    BY <1>5, <1>9, <1>15
  <2> QED BY <1>1, <1>2, <1>3, <1>4, <1>5, <1>13, <2>1
<1> QED BY <1>14, <1>15

\* A sealed file is whole.
LEMMA SealedIsWhole ==
    ASSUME SInv, StoreClose, phase' = "sealed"
    PROVE  WholeFile'
<1> DEFINE last == LastBlock
           g == Sealed
           x == last.index
           n == Len(last.index)
           f == last.file
<1>1. /\ phase = "writing" /\ file' = g /\ index' = x
      /\ UNCHANGED <<entries, errors, added>>
  BY CloseWrites
<1>2. /\ IsSeq(g) /\ n \in Nat /\ Len(g) = n + 6 /\ \A k \in 1 .. n + 2 : g[k] = f[k]
      /\ g[n + 3] = IndexPiece(x) /\ g[n + 4] = FooterPiece(last)
      /\ g[n + 5] = Piece("digest", DigestSize, SubSeq(g, 1, n + 4))
      /\ g[n + 6] = Piece("magic", MagicSize, <<>>)
  BY <1>1, SealedPieces
<1>3. /\ IsSeq(f) /\ Sections(f, x, added) /\ Len(f) = n + 2 /\ x \in Seq(Place)
      /\ Upto(f, n) = Len(added) /\ last.off = Size(f)
  BY <1>1, LastBlockHoldsTheRest
<1> HIDE DEF g, f
<1>4. /\ Sections(g, x, added) /\ Upto(g, n) = Upto(f, n) /\ End(g, n + 2) = End(f, n + 2)
  <2>1. /\ Len(x) \in Nat /\ Len(f) \in Nat /\ Len(g) \in Nat /\ Len(f) >= Len(x) + 2
        /\ Len(g) >= Len(x) + 2 /\ \A k \in 1 .. Len(x) + 2 : f[k] = g[k]
    BY <1>2, <1>3
  <2> HIDE DEF x
  <2>2. /\ Sections(g, x, added)
        /\ \A k \in 0 .. Len(x) : Upto(f, k) = Upto(g, k)
        /\ \A k \in 0 .. Len(x) + 2 : End(f, k) = End(g, k)
    BY <1>3, <2>1, SameSections, Zenon
  <2>3. Len(x) \in 0 .. Len(x) /\ Len(x) + 2 \in 0 .. Len(x) + 2
    BY <2>1
  <2>4. Upto(f, Len(x)) = Upto(g, Len(x)) /\ End(f, Len(x) + 2) = End(g, Len(x) + 2)
    BY <2>2, <2>3
  <2> QED BY <2>2, <2>4 DEF x
<1>5. last.off = End(g, n + 2)
  <2>1. Len(f) \in Nat
    BY <1>2, <1>3
  <2>2. Size(f) = End(f, Len(f))
    BY <2>1, EndStep
  <2> QED BY <1>3, <1>4, <2>2
<1>6. FooterPiece(last) = Piece("footer", FieldsSize,
              <<[meta    |-> [at |-> HeaderSize, len |-> MetaLength],
                 data    |-> [at |-> DataOffset, len |-> End(g, n + 2) - DataOffset],
                 index   |-> [at |-> End(g, n + 2), len |-> IndexPiece(x).len],
                 entries |-> entries, errors |-> errors, blocks |-> n]>>)
  BY <1>5 DEF FooterPiece, DataLength
<1>7. Upto(g, n) = Len(added)
  BY <1>3, <1>4
<1> HIDE DEF last
<1> QED BY <1>1, <1>2, <1>4, <1>6, <1>7 DEF WholeFile

\* Close flushes the last block, which was not full.
LEMMA CloseFits ==
    ASSUME SInv, StoreClose
    PROVE  BlocksFit'
<1>1. /\ phase = "writing" /\ added' = added /\ phase' \in {"broken", "sealed"}
      /\ index' = LastBlock.index \/ index' = index
  BY DEF StoreClose, Close
<1>2. /\ block \in Seq(Record) /\ index \in Seq(Place) /\ off \in Nat
      /\ BlockLen(block) < BlockSize
      /\ ~LongText => \A k \in 1 .. Len(index) : index[k].size - BlockHeaderSize <= MaxBlockSize
  BY <1>1 DEF SInv, Written, BlocksFit
<1>3. LongText' <=> LongText
  BY <1>1 DEF LongText
<1>4. CASE index' = index
  BY <1>1, <1>2, <1>3, <1>4 DEF BlocksFit
<1>5. CASE index' = LastBlock.index /\ block # <<>>
  <2> DEFINE q == Placed(block, off)
  <2>1. index' = Append(index, q)
    BY <1>5 DEF LastBlock
  <2>2. BlockLen(block) \in Nat /\ BlockPiece(block).len \in Nat
    BY <1>2, BlockLength
  <2>3. q.size - BlockHeaderSize = BlockLen(block)
    BY <2>2 DEF Placed, BlockPiece, Piece, BlockHeaderSize
  <2>4. q \in Place
    <3>1. block[1] \in Record
      <4>1. Len(block) \in Nat /\ Len(block) # 0
        BY <1>2, <1>5, EmptySeq
      <4> QED BY <1>2, <4>1
    <3> QED BY <1>2, <2>2, <3>1 DEF Place, Placed, Record
  <2> HIDE DEF q
  <2>5. /\ Len(index') = Len(index) + 1 /\ Len(index) \in Nat /\ index'[Len(index) + 1] = q
        /\ \A k \in 1 .. Len(index) : index'[k] = index[k]
    BY <1>2, <2>1, <2>4, AppendProperties
  <2>6. q.size - BlockHeaderSize <= MaxBlockSize
    BY <1>2, <2>2, <2>3, WriterAssumption, StoreAssumption
  <2>7. \A k \in 1 .. Len(index') : k = Len(index) + 1 \/ k \in 1 .. Len(index)
    BY <2>5
  <2>8. ~LongText => \A k \in 1 .. Len(index') : index'[k].size - BlockHeaderSize <= MaxBlockSize
    BY <1>2, <2>5, <2>6, <2>7
  <2> QED BY <1>1, <1>3, <2>8 DEF BlocksFit
<1>6. CASE index' = LastBlock.index /\ block = <<>>
  <2>1. index' = index
    BY <1>6 DEF LastBlock
  <2> QED BY <1>4, <2>1
<1> QED BY <1>1, <1>4, <1>5, <1>6

LEMMA CloseKeepsSInv ==
    ASSUME SInv, StoreClose
    PROVE  SInv'
<1>1. /\ phase = "writing" /\ ReadInv' /\ SortedInv' /\ Written' /\ BlocksFit'
      /\ \/ /\ phase' = "broken"
            /\ \E m \in 1 .. Len(Sealed) - 1 : file' = SubSeq(Sealed, 1, m)
         \/ phase' = "sealed" /\ file' = Sealed /\ index' = LastBlock.index
  BY CloseWrites, CloseFits
<1> DEFINE g == Sealed
           n == Len(LastBlock.index)
<1>2. /\ IsSeq(g) /\ Len(g) = n + 6 /\ n \in Nat
      /\ g[n + 5] = Piece("digest", DigestSize, SubSeq(g, 1, n + 4))
      /\ g[n + 6] = Piece("magic", MagicSize, <<>>)
  BY <1>1, SealedPieces
<1>3. /\ \A k \in 1 .. Len(g) : g[k].kind # "damaged" /\ g[k].len \in Nat \ {0}
      /\ \A k \in 1 .. Len(g) - 1 : g[k].kind # "magic"
  BY <1>1, SealedKinds
<1> HIDE DEF g, n
<1>4. CASE /\ phase' = "broken"
           /\ \E m \in 1 .. Len(g) - 1 : file' = SubSeq(g, 1, m)
  <2>1. PICK m \in 1 .. Len(g) - 1 : file' = SubSeq(g, 1, m)
    BY <1>4
  <2>2. Len(file') = m /\ file'[m] = g[m]
    <3>1. m \in 0 .. Len(g) /\ m \in 1 .. m
      BY <1>2
    <3> QED BY <1>2, <2>1, <3>1, FirstOnes
  <2>3. Cut'
    BY <1>3, <2>2 DEF Cut, Last
  <2> QED BY <1>1, <1>4, <2>3 DEF SInv, WritingInv, SealedInv
<1>5. CASE phase' = "sealed" /\ file' = g
  <2>1. WholeFile'
    BY <1>5, SealedIsWhole
  <2>2. SealedInv'
    <3> DEFINE digest == g[Len(g) - 1]
    <3>1. Len(g) - 1 = n + 5 /\ n + 6 = Len(g) /\ Len(g) >= 6
      BY <1>2
    <3>2. /\ g[Len(g)].len = MagicSize /\ digest.len = DigestSize /\ digest.kind = "digest"
          /\ digest.holds = SubSeq(g, 1, n + 4)
      BY <1>2, <3>1 DEF Piece
    <3>3. \A k \in 1 .. Len(digest.holds) : digest.holds[k].kind # "damaged"
      <4>1. n + 4 \in 0 .. Len(g)
        BY <1>2
      <4>2. Len(SubSeq(g, 1, n + 4)) = n + 4 /\ \A k \in 1 .. n + 4 : SubSeq(g, 1, n + 4)[k] = g[k]
        BY <1>2, <4>1, FirstOnes
      <4>3. \A k \in 1 .. n + 4 : k \in 1 .. Len(g)
        BY <1>2
      <4> HIDE DEF digest
      <4> QED BY <1>3, <3>2, <4>2, <4>3
    <3> QED BY <1>2, <1>3, <1>5, <2>1, <3>1, <3>2, <3>3 DEF SealedInv
  <2> QED BY <1>1, <1>5, <2>2 DEF SInv, WritingInv
<1> QED BY <1>1, <1>4, <1>5 DEF g

-----------------------------------------------------------------------------
(* A whole file.                                                           *)

\* What is known of a file that is sealed, and neither cut nor altered.
LEMMA WholePieces ==
    ASSUME SInv, phase = "sealed", ~Cut, ~Altered
    PROVE  LET n == Len(index)
           IN  /\ n \in Nat /\ index \in Seq(Place) /\ IsSeq(file) /\ Len(file) = n + 6
               /\ \A k \in 1 .. n + 6 : file[k].len \in Nat \ {0}
               /\ Sections(file, index, added) /\ Upto(file, n) = Len(added)
               /\ file[n + 3] = IndexPiece(index)
               /\ file[n + 4].kind = "footer" /\ file[n + 4].len = FieldsSize
               /\ file[n + 4].holds[1] =
                     [meta    |-> [at |-> HeaderSize, len |-> MetaLength],
                      data    |-> [at |-> DataOffset, len |-> End(file, n + 2) - DataOffset],
                      index   |-> [at |-> End(file, n + 2), len |-> IndexPiece(index).len],
                      entries |-> entries, errors |-> errors, blocks |-> n]
               /\ file[n + 5] = Piece("digest", DigestSize, SubSeq(file, 1, n + 4))
               /\ file[n + 6] = Piece("magic", MagicSize, <<>>)
<1>1. WholeFile /\ IsSeq(file) /\ \A k \in 1 .. Len(file) : file[k].len \in Nat \ {0}
  BY DEF SInv, SealedInv
<1>2. index \in Seq(Place) /\ Len(index) \in Nat
  BY DEF SInv, Written
<1> QED BY <1>1, <1>2 DEF WholeFile, Piece

\* Only its last piece is the magic.
LEMMA WholeKinds ==
    ASSUME SInv, phase = "sealed", ~Cut, ~Altered
    PROVE  \A k \in 1 .. Len(file) - 1 : file[k].kind # "magic"
<1> DEFINE n == Len(index)
<1>1. /\ n \in Nat /\ Len(file) = n + 6 /\ Sections(file, index, added)
      /\ file[n + 3] = IndexPiece(index) /\ file[n + 4].kind = "footer"
      /\ file[n + 5] = Piece("digest", DigestSize, SubSeq(file, 1, n + 4))
  BY WholePieces
<1>2. \A k \in 1 .. n + 2 : file[k].kind # "magic"
  <2>1. \A k \in 1 .. Len(index) + 2 : file[k].kind \notin {"magic", "damaged"}
    BY <1>1, SectionKinds
  <2> QED BY <2>1
<1>3. file[n + 3].kind = "index" /\ file[n + 5].kind = "digest"
  BY <1>1 DEF IndexPiece, Piece
<1>4. \A k \in 1 .. Len(file) - 1 : k \in 1 .. n + 2 \/ k = n + 3 \/ k = n + 4 \/ k = n + 5
  BY <1>1
<1> QED BY <1>1, <1>2, <1>3, <1>4

-----------------------------------------------------------------------------
(* Damage.                                                                 *)

LEMMA DamageKeepsSInv ==
    ASSUME SInv, Damage
    PROVE  SInv'
<1> DEFINE n == Len(index)
<1>1. /\ phase = "sealed" /\ reading = "no" /\ ~Cut /\ ~Altered
      /\ UNCHANGED <<phase, off, building, reading, cursor>>
  BY DEF Damage
<1>2. UNCHANGED <<block, prev, lastKey, index, entries, errors, added>>
  BY <1>1 DEF building
<1>3. ReadInv'
  BY <1>1, NotRead DEF SInv
<1>4. SortedInv' /\ Written' /\ BlocksFit' /\ WritingInv'
  <2>1. SortedInv'
    BY <1>2 DEF SInv, SortedInv, AcceptedIsSorted
  <2>2. Written'
    BY <1>1, <1>2 DEF SInv, Written
  <2>3. WritingInv'
    BY <1>1 DEF WritingInv
  <2>4. BlocksFit'
    BY <1>1, <1>2 DEF SInv, BlocksFit, LongText
  <2> QED BY <2>1, <2>2, <2>3, <2>4
<1>5. /\ n \in Nat /\ IsSeq(file) /\ Len(file) = n + 6
      /\ \A k \in 1 .. n + 6 : file[k].len \in Nat \ {0}
      /\ file[n + 6] = Piece("magic", MagicSize, <<>>)
  BY <1>1, WholePieces
<1>6. \A k \in 1 .. Len(file) - 1 : file[k].kind # "magic"
  BY <1>1, WholeKinds
<1>7. PICK k \in 1 .. Len(file) :
          file' \in {[file EXCEPT ![k] = Damaged(@.len)],
                     SubSeq(file, 1, k - 1),
                     Append(SubSeq(file, 1, k - 1), Damaged(file[k].len - 1))}
  BY DEF Damage
<1>8. k - 1 \in 0 .. Len(file)
  BY <1>5
<1> HIDE DEF n
<1>9. SealedInv'
  <2>1. CASE file' = [file EXCEPT ![k] = Damaged(@.len)]
    <3>1. /\ IsSeq(file') /\ Len(file') = Len(file) /\ file'[k] = Damaged(file[k].len)
          /\ \A j \in 1 .. Len(file) : j # k => file'[j] = file[j]
      <4> DEFINE d == Damaged(file[k].len)
                 h == [file EXCEPT ![k] = d]
      <4>1. IsSeq(h) /\ Len(h) = Len(file) /\ h[k] = d /\ \A j \in 1 .. Len(file) : j # k => h[j] = file[j]
        <5> DEFINE S == {file[j] : j \in 1 .. Len(file)} \cup {d}
        <5> HIDE DEF d
        <5>1. file \in Seq(S) /\ d \in S /\ Len(file) \in Nat
          BY <1>5 DEF IsSeq
        <5> HIDE DEF S
        <5>2. /\ h \in Seq(S) /\ Len(h) = Len(file) /\ h[k] = d
              /\ \A j \in 1 .. Len(file) : j # k => h[j] = file[j]
          BY <5>1
        <5> HIDE DEF h
        <5>3. IsSeq(h)
          BY <5>2, OwnPieces
        <5> QED BY <5>2, <5>3
      <4> QED BY <2>1, <4>1
    <3>2. file'[k].kind = "damaged" /\ file'[k].len = file[k].len /\ file'[k].holds = <<>>
      BY <3>1 DEF Damaged, Piece
    <3> SUFFICES ASSUME ~Cut' PROVE SealedInv'
      BY DEF SealedInv
    <3>3. k # Len(file)
      <4>1. file'[Len(file')].kind = "magic"
        BY DEF Cut, Last
      <4> QED BY <3>1, <3>2, <4>1
    <3>4. Altered'
      BY <3>1, <3>2 DEF Altered
    <3>5. \A j \in 1 .. Len(file') : file'[j].len \in Nat \ {0}
      BY <1>5, <3>1, <3>2
    <3>6. Len(file) \in 1 .. Len(file) /\ Len(file) - 1 \in 1 .. Len(file) /\ Len(file) >= 6
      BY <1>5
    <3> DEFINE e == file[Len(file) - 1]
    <3>7. /\ e.len = DigestSize /\ file[Len(file)].len = MagicSize
          /\ IF e.kind = "damaged" THEN e.holds = <<>>
             ELSE \A j \in 1 .. Len(e.holds) : e.holds[j].kind # "damaged"
      BY <1>1, <3>6 DEF SInv, SealedInv
    <3>8. file'[Len(file)] = file[Len(file)]
      BY <3>1, <3>3, <3>6
    <3> DEFINE e2 == file'[Len(file) - 1]
    <3>9. /\ e2.len = DigestSize
          /\ IF e2.kind = "damaged" THEN e2.holds = <<>>
             ELSE \A j \in 1 .. Len(e2.holds) : e2.holds[j].kind # "damaged"
      <4>1. CASE k = Len(file) - 1
        BY <3>2, <3>7, <4>1
      <4>2. CASE k # Len(file) - 1
        <5>1. e2 = e
          BY <3>1, <3>6, <4>2
        <5> HIDE DEF e, e2
        <5> QED BY <3>7, <5>1
      <4> QED BY <4>1, <4>2
    <3> HIDE DEF e, e2
    <3>10. file'[Len(file') - 1] = e2
      BY <3>1 DEF e2
    <3> QED BY <3>1, <3>4, <3>5, <3>6, <3>7, <3>8, <3>9, <3>10 DEF SealedInv
  <2>2. CASE file' = SubSeq(file, 1, k - 1)
    <3>1. /\ IsSeq(file') /\ Len(file') = k - 1 /\ \A j \in 1 .. k - 1 : file'[j] = file[j]
      BY <1>5, <1>8, <2>2, FirstOnes
    <3>2. CASE k = 1
      <4>1. Size(SubSeq(file, 1, 0)) = 0
        <5>1. 0 \in 0 .. Len(file)
          BY <1>5
        <5>2. Size(SubSeq(file, 1, 0)) = End(file, 0)
          BY <1>5, <5>1, SizeOfFirst
        <5>3. Len(file) \in Nat
          BY <1>5
        <5> QED BY <5>2, <5>3, EndStep
      <4>2. Cut'
        <5>1. 0 < HeaderSize + FooterSize
          BY DEF HeaderSize, FooterSize, FieldsSize, DigestSize, MagicSize
        <5>2. file' = SubSeq(file, 1, 0)
          BY <2>2, <3>2
        <5>3. Size(file') = 0
          BY <4>1, <5>2
        <5> QED BY <5>1, <5>3 DEF Cut
      <4> QED BY <4>2 DEF SealedInv
    <3>3. CASE k # 1
      <4>1. k - 1 \in 1 .. Len(file) - 1 /\ k - 1 \in 1 .. k - 1
        BY <1>5, <3>3
      <4>2. file'[Len(file')].kind # "magic"
        BY <1>6, <3>1, <4>1
      <4>3. Cut'
        BY <4>2 DEF Cut, Last
      <4> QED BY <4>3 DEF SealedInv
    <3> QED BY <3>2, <3>3
  <2>3. CASE file' = Append(SubSeq(file, 1, k - 1), Damaged(file[k].len - 1))
    <3> DEFINE d == Damaged(file[k].len - 1)
               g == SubSeq(file, 1, k - 1)
    <3>1. IsSeq(g)
      BY <1>5, <1>8, FirstOnes
    <3>2. d.kind = "damaged"
      BY DEF Damaged, Piece
    <3> HIDE DEF d, g
    <3>3. Len(Append(g, d)) = Len(g) + 1 /\ Append(g, d)[Len(g) + 1] = d
      BY <3>1, OneMore
    <3>4. file' = Append(g, d)
      BY <2>3 DEF d, g
    <3>5. file'[Len(file')] = d
      BY <3>3, <3>4
    <3>6. file'[Len(file')].kind # "magic"
      BY <3>2, <3>5
    <3>7. Cut'
      BY <3>6 DEF Cut, Last
    <3> QED BY <3>7 DEF SealedInv
  <2> QED BY <1>7, <2>1, <2>2, <2>3
<1> QED BY <1>1, <1>3, <1>4, <1>9 DEF SInv

-----------------------------------------------------------------------------
(* NewReader and Verify.                                                   *)

\* The digest of a file that is not cut is found, were it altered.
LEMMA DigestIsFound ==
    ASSUME SInv, phase = "sealed", ~Cut
    PROVE  Digest = file[Len(file) - 1]
<1> DEFINE m == Len(file)
<1>1. /\ IsSeq(file) /\ m >= 6 /\ \A k \in 1 .. m : file[k].len \in Nat \ {0}
      /\ file[m].len = MagicSize /\ file[m - 1].len = DigestSize
  BY DEF SInv, SealedInv
<1>2. m \in Nat /\ m - 1 \in 1 .. m
  BY <1>1 DEF IsSeq
<1>3. /\ \A k \in 0 .. m : End(file, k) \in Nat
      /\ \A k \in 0 .. m - 1 : End(file, k + 1) = End(file, k) + file[k + 1].len
      /\ Size(file) = End(file, m)
  BY <1>1, <1>2, EndStep, EndsGrow
<1> HIDE DEF m
<1>4. End(file, m) = End(file, m - 1) + MagicSize
  <2>1. m - 1 \in 0 .. m - 1 /\ (m - 1) + 1 = m
    BY <1>2
  <2>2. End(file, (m - 1) + 1) = End(file, m - 1) + file[(m - 1) + 1].len
    BY <1>3, <2>1
  <2> QED BY <1>1, <2>1, <2>2
<1>5. End(file, m - 1) = End(file, m - 2) + DigestSize
  <2>1. m - 2 \in 0 .. m - 1 /\ (m - 2) + 1 = m - 1
    BY <1>1, <1>2
  <2>2. End(file, (m - 2) + 1) = End(file, m - 2) + file[(m - 2) + 1].len
    BY <1>3, <2>1
  <2> QED BY <1>1, <2>1, <2>2
<1>6. Size(file) - MagicSize - DigestSize = End(file, m - 2)
  <2>1. m - 2 \in 0 .. m
    BY <1>1, <1>2
  <2>2. End(file, m - 2) \in Nat /\ MagicSize \in Nat /\ DigestSize \in Nat
    BY <1>3, <2>1 DEF MagicSize, DigestSize
  <2> QED BY <1>3, <1>4, <1>5, <2>2
<1>7. ReadAt(End(file, (m - 1) - 1), file[m - 1].len) = file[m - 1]
  BY <1>1, <1>2, ReadAtPiece DEF m
<1>8. (m - 1) - 1 = m - 2
  BY <1>2
<1> QED BY <1>1, <1>6, <1>7, <1>8 DEF Digest, m

\* Where the pieces of a whole file end.
LEMMA WholeEnds ==
    ASSUME SInv, phase = "sealed", ~Cut, ~Altered
    PROVE  LET n == Len(index)
           IN  /\ \A k \in 0 .. n + 6 : End(file, k) \in Nat
               /\ \A k, m \in 0 .. n + 6 : k <= m => End(file, k) <= End(file, m)
               /\ \A k \in 0 .. n + 5 : End(file, k + 1) = End(file, k) + file[k + 1].len
               /\ \A k \in 1 .. n + 6 : ReadAt(End(file, k - 1), file[k].len) = file[k]
               /\ Size(file) = End(file, n + 6)
               /\ Size(file) - FooterSize = End(file, n + 3)
               /\ End(file, 1) = HeaderSize /\ End(file, 2) = DataOffset
<1> DEFINE n == Len(index)
<1>1. /\ n \in Nat /\ IsSeq(file) /\ Len(file) = n + 6
      /\ \A k \in 1 .. n + 6 : file[k].len \in Nat \ {0}
      /\ Sections(file, index, added)
      /\ file[n + 4].len = FieldsSize
      /\ file[n + 5] = Piece("digest", DigestSize, SubSeq(file, 1, n + 4))
      /\ file[n + 6] = Piece("magic", MagicSize, <<>>)
  BY WholePieces
<1>2. /\ \A k \in 0 .. n + 6 : End(file, k) \in Nat
      /\ \A k, m \in 0 .. n + 6 : k <= m => End(file, k) <= End(file, m)
      /\ \A k \in 0 .. n + 5 : End(file, k + 1) = End(file, k) + file[k + 1].len
      /\ Size(file) = End(file, n + 6) /\ End(file, 0) = 0
  <2>1. Len(file) \in Nat /\ Len(file) - 1 = n + 5 /\ \A k \in 1 .. Len(file) : file[k].len \in Nat \ {0}
    BY <1>1
  <2>2. /\ \A k \in 0 .. Len(file) : End(file, k) \in Nat
        /\ \A k, m \in 0 .. Len(file) : k <= m => End(file, k) <= End(file, m)
    BY <2>1, EndsGrow
  <2>3. /\ \A k \in 0 .. Len(file) - 1 : End(file, k + 1) = End(file, k) + file[k + 1].len
        /\ Size(file) = End(file, Len(file)) /\ End(file, 0) = 0
    BY <2>1, EndStep
  <2> QED BY <1>1, <2>1, <2>2, <2>3
<1>3. \A k \in 1 .. n + 6 : ReadAt(End(file, k - 1), file[k].len) = file[k]
  BY <1>1, ReadAtPiece
<1>4. /\ file[1].len = HeaderSize /\ file[2].len = MetaLength
      /\ file[n + 5].len = DigestSize /\ file[n + 6].len = MagicSize
  BY <1>1 DEF Sections, Piece
<1> HIDE DEF n
<1>5. Size(file) - FooterSize = End(file, n + 3)
  <2>1. n + 3 \in 0 .. n + 5 /\ n + 4 \in 0 .. n + 5 /\ n + 5 \in 0 .. n + 5
        /\ (n + 3) + 1 = n + 4 /\ (n + 4) + 1 = n + 5 /\ (n + 5) + 1 = n + 6
    BY <1>1
  <2>2. /\ End(file, (n + 3) + 1) = End(file, n + 3) + file[(n + 3) + 1].len
        /\ End(file, (n + 4) + 1) = End(file, n + 4) + file[(n + 4) + 1].len
        /\ End(file, (n + 5) + 1) = End(file, n + 5) + file[(n + 5) + 1].len
    BY <1>2, <2>1
  <2>3. /\ End(file, n + 4) = End(file, n + 3) + FieldsSize
        /\ End(file, n + 5) = End(file, n + 4) + DigestSize
        /\ End(file, n + 6) = End(file, n + 5) + MagicSize
    BY <1>1, <1>4, <2>1, <2>2
  <2>4. n + 3 \in 0 .. n + 6
    BY <1>1
  <2>5. End(file, n + 3) \in Nat
    BY <1>2, <2>4
  <2> QED BY <1>2, <2>3, <2>5 DEF FooterSize, FieldsSize, DigestSize, MagicSize
<1>6. End(file, 1) = HeaderSize /\ End(file, 2) = DataOffset
  <2>1. 0 \in 0 .. n + 5 /\ 1 \in 0 .. n + 5 /\ 0 + 1 = 1 /\ 1 + 1 = 2
    BY <1>1
  <2>2. /\ End(file, 0 + 1) = End(file, 0) + file[0 + 1].len
        /\ End(file, 1 + 1) = End(file, 1) + file[1 + 1].len
    BY <1>2, <2>1, Zenon
  <2>3. /\ End(file, 1) = 0 + HeaderSize /\ End(file, 2) = End(file, 1) + MetaLength
    BY <1>2, <1>4, <2>1, <2>2
  <2> QED BY <2>3, WriterAssumption DEF HeaderSize, DataOffset
<1> QED BY <1>2, <1>3, <1>5, <1>6 DEF n

\* NewReader finds the footer and the index Close wrote.
LEMMA WholeIndex ==
    ASSUME SInv, phase = "sealed", ~Cut, ~Altered
    PROVE  LET n == Len(index)
           IN  /\ Footer = [meta    |-> [at |-> HeaderSize, len |-> MetaLength],
                            data    |-> [at |-> DataOffset, len |-> End(file, n + 2) - DataOffset],
                            index   |-> [at |-> End(file, n + 2), len |-> IndexPiece(index).len],
                            entries |-> entries, errors |-> errors, blocks |-> n]
               /\ ReadAt(Footer.index.at, Footer.index.len) = IndexPiece(index)
               /\ Known = index
<1> DEFINE n == Len(index)
<1>1. /\ n \in Nat
      /\ file[n + 3] = IndexPiece(index) /\ file[n + 4].len = FieldsSize
      /\ file[n + 4].holds[1] =
                     [meta    |-> [at |-> HeaderSize, len |-> MetaLength],
                      data    |-> [at |-> DataOffset, len |-> End(file, n + 2) - DataOffset],
                      index   |-> [at |-> End(file, n + 2), len |-> IndexPiece(index).len],
                      entries |-> entries, errors |-> errors, blocks |-> n]
  BY WholePieces
<1>2. /\ \A k \in 1 .. n + 6 : ReadAt(End(file, k - 1), file[k].len) = file[k]
      /\ Size(file) - FooterSize = End(file, n + 3)
  BY WholeEnds
<1> HIDE DEF n
<1>3. n + 3 \in 1 .. n + 6 /\ n + 4 \in 1 .. n + 6 /\ (n + 3) - 1 = n + 2 /\ (n + 4) - 1 = n + 3
  BY <1>1
<1>4. ReadAt(End(file, n + 3), FieldsSize) = file[n + 4]
  <2>1. ReadAt(End(file, (n + 4) - 1), file[n + 4].len) = file[n + 4]
    BY <1>2, <1>3
  <2> QED BY <1>1, <1>3, <2>1
<1>5. Footer = file[n + 4].holds[1]
  BY <1>2, <1>4 DEF Footer
<1>6. Footer.index.at = End(file, n + 2) /\ Footer.index.len = IndexPiece(index).len
  BY <1>1, <1>5
<1>7. ReadAt(End(file, n + 2), IndexPiece(index).len) = IndexPiece(index)
  <2>1. ReadAt(End(file, (n + 3) - 1), file[n + 3].len) = file[n + 3]
    BY <1>2, <1>3
  <2> QED BY <1>1, <1>3, <2>1
<1>8. IndexPiece(index).holds = index
  BY DEF IndexPiece, Piece
<1> QED BY <1>1, <1>5, <1>6, <1>7, <1>8 DEF Known, n

\* The index leads to each block.
LEMMA WholeBlocks ==
    ASSUME SInv, phase = "sealed", ~Cut, ~Altered, NEW k \in 1 .. Len(index)
    PROVE  /\ index[k].firstKey = BlockOf(file, k)[1].suffix
           /\ index[k].offset = End(file, k + 1) /\ index[k].size = file[k + 2].len
           /\ index[k].size \in Nat \ {0}
           /\ index[k].offset + index[k].size = End(file, k + 2)
           /\ ~LongText => Readable(index[k].offset, index[k].size)
           /\ ReadAt(index[k].offset, index[k].size).holds = BlockOf(file, k)
           /\ BlockOf(file, k) \in Seq(Record) /\ BlockOf(file, k) # <<>>
<1> DEFINE n == Len(index)
           b == BlockOf(file, k)
<1>1. n \in Nat /\ Sections(file, index, added)
  BY WholePieces
<1>2. /\ b \in Seq(Record) /\ b # <<>> /\ file[k + 2] = BlockPiece(b)
      /\ index[k] = Placed(b, End(file, k + 1))
  BY <1>1 DEF Sections
<1>3. /\ \A j \in 0 .. n + 6 : End(file, j) \in Nat
      /\ \A j, m \in 0 .. n + 6 : j <= m => End(file, j) <= End(file, m)
      /\ \A j \in 0 .. n + 5 : End(file, j + 1) = End(file, j) + file[j + 1].len
      /\ \A j \in 1 .. n + 6 : ReadAt(End(file, j - 1), file[j].len) = file[j]
      /\ Size(file) = End(file, n + 6)
  BY WholeEnds
<1>4. file[k + 2] = BlockPiece(BlockOf(file, k))
  BY <1>2
<1>5. b = file[k + 2].holds
  BY DEF BlockOf
<1> HIDE DEF b, n
<1>6. BlockPiece(b).len \in Nat /\ BlockPiece(b).len >= BlockHeaderSize /\ BlockHeaderSize = 8
  BY <1>2, BlockLength DEF BlockHeaderSize
<1>7. /\ index[k].firstKey = b[1].suffix
      /\ index[k].offset = End(file, k + 1) /\ index[k].size = file[k + 2].len
  BY <1>2 DEF Placed
<1>8. /\ k + 1 \in 0 .. n + 5 /\ k + 2 \in 1 .. n + 6 /\ (k + 1) + 1 = k + 2 /\ (k + 2) - 1 = k + 1
      /\ k + 2 \in 0 .. n + 6 /\ n + 6 \in 0 .. n + 6 /\ k + 2 <= n + 6 /\ k + 1 \in 0 .. n + 6
  BY <1>1 DEF n
<1>9. End(file, k + 2) = End(file, k + 1) + file[k + 2].len
  <2>1. End(file, (k + 1) + 1) = End(file, k + 1) + file[(k + 1) + 1].len
    BY <1>3, <1>8
  <2> QED BY <1>8, <2>1
<1>10. ReadAt(End(file, k + 1), file[k + 2].len) = file[k + 2]
  <2>1. ReadAt(End(file, (k + 2) - 1), file[k + 2].len) = file[k + 2]
    BY <1>3, <1>8
  <2> QED BY <1>8, <2>1
<1>11. file[k + 2].kind = "block"
  BY <1>2 DEF BlockPiece, Piece
<1>12. End(file, k + 2) <= Size(file)
  BY <1>3, <1>8
<1>13. ~LongText => Readable(index[k].offset, index[k].size)
  <2>1. ~LongText => index[k].size - BlockHeaderSize <= MaxBlockSize
    BY DEF SInv, BlocksFit
  <2> QED BY <1>2, <1>6, <1>7, <1>9, <1>10, <1>11, <1>12, <2>1 DEF Readable
<1>14. index[k].size \in Nat \ {0}
  BY <1>2, <1>6, <1>7
<1> QED BY <1>2, <1>5, <1>7, <1>9, <1>10, <1>13, <1>14 DEF b

\* The entries of the k-th block.
LEMMA BlockEntries ==
    ASSUME SInv, phase = "sealed", ~Cut, ~Altered, NEW k \in 1 .. Len(index)
    PROVE  LET u == Upto(file, k - 1)
               b == BlockOf(file, k)
           IN  /\ u \in Nat /\ Len(b) \in Nat \ {0} /\ Upto(file, k) = u + Len(b)
               /\ u + Len(b) <= Len(added) /\ Len(added) \in Nat
               /\ \A i \in 1 .. Len(b) : b[i] = Code(added, u, i)
               /\ b[1].suffix = added[u + 1].path
<1> DEFINE n == Len(index)
           u == Upto(file, k - 1)
           b == BlockOf(file, k)
<1>1. n \in Nat /\ Sections(file, index, added) /\ Upto(file, n) = Len(added)
  BY WholePieces
<1>2. /\ \A j \in 1 .. n : Len(BlockOf(file, j)) \in Nat \ {0}
      /\ \A j \in 0 .. n : Upto(file, j) \in Nat
      /\ \A j, m \in 0 .. n : j <= m => Upto(file, j) <= Upto(file, m)
      /\ \A j \in 1 .. n : Upto(file, j) = Upto(file, j - 1) + Len(BlockOf(file, j))
  BY <1>1, BlocksHold
<1>3. \A i \in 1 .. Len(b) : b[i] = Code(added, u, i)
  BY <1>1 DEF Sections
<1>4. k - 1 \in 0 .. n /\ k \in 0 .. n /\ n \in 0 .. n /\ k <= n /\ k \in 1 .. n
  BY <1>1
<1> HIDE DEF n
<1>5. /\ u \in Nat /\ Len(b) \in Nat \ {0} /\ Upto(file, k) = u + Len(b)
      /\ Upto(file, k) <= Upto(file, n) /\ Upto(file, n) \in Nat
  BY <1>2, <1>4
<1>6. u + Len(b) <= Len(added) /\ Len(added) \in Nat
  BY <1>1, <1>5
<1> HIDE DEF u, b
<1>7. b[1].suffix = added[u + 1].path
  <2>1. 1 \in 1 .. Len(b) /\ u + 1 \in 1 .. Len(added)
    BY <1>5, <1>6
  <2>2. b[1] = CodeOf(<<>>, added[u + 1])
    BY <1>3, <2>1 DEF Code
  <2>3. added[u + 1] \in Entry
    BY <2>1 DEF SInv, SortedInv
  <2>4. <<>> \in Paths /\ added[u + 1].path \in Paths
    <3>1. Key \subseteq Paths
      BY WriterAssumption
    <3> QED BY <2>3, <3>1 DEF Entry, Paths
  <2> DEFINE q == added[u + 1].path
             s == SharedPrefix(<<>>, q)
  <2>5. s = 0
    <3>1. s \in 0 .. Len(<<>>) /\ Len(<<>>) = 0
      BY <2>4, SharedIsShared
    <3> HIDE DEF s
    <3> QED BY <3>1
  <2>6. b[1].suffix = SubSeq(q, s + 1, Len(q))
    <3>1. CodeOf(<<>>, added[u + 1]).suffix = SubSeq(q, s + 1, Len(q))
      BY DEF CodeOf
    <3> QED BY <2>2, <3>1
  <2> HIDE DEF s, q
  <2>7. q \in Seq(Byte)
    BY <2>4 DEF q, Paths
  <2>8. SubSeq(q, 0 + 1, Len(q)) = q
    BY <2>7
  <2> QED BY <2>5, <2>6, <2>8 DEF q
<1> QED BY <1>3, <1>5, <1>6, <1>7 DEF u, b

\* NewReader accepts a whole file that is within its limits.
LEMMA WholeIsConsistent ==
    ASSUME SInv, phase = "sealed", ~Cut, ~Altered, ~Oversized
    PROVE  Consistent
<1> DEFINE n == Len(index)
           F == Footer
<1>1. /\ n \in Nat /\ index \in Seq(Place)
      /\ file[n + 3] = IndexPiece(index)
  BY WholePieces
<1>2. /\ \A k \in 0 .. n + 6 : End(file, k) \in Nat
      /\ \A k, m \in 0 .. n + 6 : k <= m => End(file, k) <= End(file, m)
      /\ \A k \in 0 .. n + 5 : End(file, k + 1) = End(file, k) + file[k + 1].len
      /\ Size(file) = End(file, n + 6)
      /\ Size(file) - FooterSize = End(file, n + 3)
      /\ End(file, 1) = HeaderSize /\ End(file, 2) = DataOffset
  BY WholeEnds
<1>3. /\ F = [meta    |-> [at |-> HeaderSize, len |-> MetaLength],
              data    |-> [at |-> DataOffset, len |-> End(file, n + 2) - DataOffset],
              index   |-> [at |-> End(file, n + 2), len |-> IndexPiece(index).len],
              entries |-> entries, errors |-> errors, blocks |-> n]
      /\ ReadAt(F.index.at, F.index.len) = IndexPiece(index)
      /\ Known = index
  BY WholeIndex
<1>4. /\ F.meta.at = HeaderSize /\ F.meta.len = MetaLength
      /\ F.data.at = DataOffset /\ F.data.len = End(file, n + 2) - DataOffset
      /\ F.index.at = End(file, n + 2) /\ F.index.len = IndexPiece(index).len
      /\ F.blocks = n
  BY <1>3
<1> HIDE DEF F
<1>5. /\ IndexLen(index) \in Nat /\ 3 * n <= IndexLen(index)
      /\ IndexPiece(index).len \in Nat /\ IndexPiece(index).len >= BlockHeaderSize
      /\ IndexPiece(index).kind = "index"
      /\ IndexPiece(index).len = BlockHeaderSize + IndexLen(index)
  <2>1. IndexPiece(index).kind = "index" /\ IndexPiece(index).len = BlockHeaderSize + IndexLen(index)
    BY DEF IndexPiece, Piece
  <2> QED BY <1>1, <2>1, IndexLength
<1> HIDE DEF n
<1>6. /\ HeaderSize \in Nat /\ MetaLength \in Nat /\ DataOffset = HeaderSize + MetaLength
  BY WriterAssumption DEF HeaderSize, DataOffset
<1>7. /\ 2 \in 0 .. n + 6 /\ n + 2 \in 0 .. n + 6 /\ n + 3 \in 0 .. n + 6 /\ n + 6 \in 0 .. n + 6
      /\ n + 2 \in 0 .. n + 5 /\ (n + 2) + 1 = n + 3 /\ 2 <= n + 2 /\ n + 2 <= n + 3 /\ n + 3 <= n + 6
  BY <1>1
<1>8. End(file, n + 3) = End(file, n + 2) + IndexPiece(index).len
  <2>1. End(file, (n + 2) + 1) = End(file, n + 2) + file[(n + 2) + 1].len
    BY <1>2, <1>7
  <2> QED BY <1>1, <1>7, <2>1
<1>9. /\ End(file, 2) <= End(file, n + 2) /\ End(file, n + 2) <= End(file, n + 3)
      /\ End(file, n + 3) <= End(file, n + 6)
      /\ End(file, 2) \in Nat /\ End(file, n + 2) \in Nat /\ End(file, n + 3) \in Nat
      /\ End(file, n + 6) \in Nat
  BY <1>2, <1>7
<1>10. Inside(F.meta) /\ Inside(F.data) /\ Inside(F.index)
  BY <1>2, <1>4, <1>5, <1>6, <1>8, <1>9 DEF Inside
<1>11. IndexFits
  <2>1. Readable(F.index.at, F.index.len)
    <3>1. IndexPiece(index).len - BlockHeaderSize <= MaxBlockSize
      BY <1>5, StoreAssumption DEF Oversized, BlockHeaderSize
    <3> QED BY <1>2, <1>3, <1>4, <1>5, <1>8, <1>9, <3>1 DEF Readable
  <2>2. 3 * Len(Known) <= IndexLen(Known)
    BY <1>3, <1>5 DEF n
  <2>3. ASSUME NEW k \in 1 .. Len(Known)
        PROVE  /\ Len(Known[k].firstKey) <= MaxStringSize
               /\ Known[k].size > 0
               /\ Known[k].offset >= F.data.at
               /\ Known[k].offset + Known[k].size <= F.data.at + F.data.len
    <3>1. k \in 1 .. Len(index) /\ Known[k] = index[k]
      BY <1>3
    <3>2. /\ index[k].offset = End(file, k + 1) /\ index[k].size \in Nat \ {0}
          /\ index[k].offset + index[k].size = End(file, k + 2)
      BY <3>1, WholeBlocks
    <3>3. /\ k + 1 \in 0 .. n + 6 /\ k + 2 \in 0 .. n + 6 /\ 2 <= k + 1 /\ k + 2 <= n + 2
      BY <1>1, <3>1 DEF n
    <3>4. End(file, 2) <= End(file, k + 1) /\ End(file, k + 2) <= End(file, n + 2)
      BY <1>2, <1>7, <3>3
    <3>5. F.data.at + F.data.len = End(file, n + 2)
      BY <1>2, <1>4, <1>9
    <3>6. F.data.at = End(file, 2)
      BY <1>2, <1>4
    <3>7. Known[k].size > 0
      BY <3>1, <3>2
    <3>8. Len(Known[k].firstKey) <= MaxStringSize
      <4> DEFINE u == Upto(file, k - 1)
      <4>1. Known[k].firstKey = added[u + 1].path
        <5>1. BlockOf(file, k)[1].suffix = added[u + 1].path
          BY <3>1, BlockEntries
        <5>2. index[k].firstKey = BlockOf(file, k)[1].suffix
          BY <3>1, WholeBlocks
        <5> QED BY <3>1, <5>1, <5>2
      <4>2. u + 1 \in 1 .. Len(added) /\ added \in Seq(Entry)
        <5>1. /\ u \in Nat /\ Len(BlockOf(file, k)) \in Nat \ {0}
              /\ u + Len(BlockOf(file, k)) <= Len(added) /\ Len(added) \in Nat
          BY <3>1, BlockEntries
        <5> HIDE DEF u
        <5> QED BY <5>1 DEF SInv, SortedInv
      <4> HIDE DEF u
      <4>3. ~(Len(added[u + 1].path) > MaxStringSize)
        BY <4>2 DEF Oversized, LongText
      <4>4. Len(added[u + 1].path) \in Nat
        <5>1. added[u + 1].path \in Paths
          <6>1. added[u + 1] \in Entry /\ Key \subseteq Paths
            BY <4>2, WriterAssumption
          <6> QED BY <6>1 DEF Entry
        <5> QED BY <5>1, BytesOfPath
      <4> QED BY <4>1, <4>3, <4>4, StoreAssumption
    <3> QED BY <3>1, <3>2, <3>4, <3>5, <3>6, <3>7, <3>8
  <2> QED BY <2>1, <2>2, <2>3 DEF IndexFits, F
<1>12. F.meta.len <= MaxMetaSize
  BY <1>4, WriterAssumption, StoreAssumption DEF Oversized
<1> QED BY <1>3, <1>4, <1>10, <1>11, <1>12 DEF Consistent, F, n

\* The writer's variables are all the invariant says of the file.
LEMMA FileKept ==
    ASSUME SInv, UNCHANGED writer
    PROVE  /\ SortedInv' /\ Written' /\ BlocksFit' /\ WritingInv' /\ SealedInv'
           /\ phase' = "broken" => Cut'
<1>1. UNCHANGED <<phase, file, off, block, prev, lastKey, index, entries, errors, added>>
  BY DEF writer, building
<1>2. SortedInv'
  BY <1>1 DEF SInv, SortedInv, AcceptedIsSorted
<1>3. Written' /\ BlocksFit' /\ WritingInv'
  BY <1>1 DEF SInv, Written, BlocksFit, LongText, WritingInv
<1>4. (Cut' <=> Cut) /\ (Altered' <=> Altered) /\ (WholeFile' <=> WholeFile)
  BY <1>1 DEF Cut, Altered, WholeFile
<1>5. SealedInv'
  BY <1>1, <1>4 DEF SInv, SealedInv
<1> QED BY <1>1, <1>2, <1>3, <1>4, <1>5 DEF SInv

LEMMA NewReaderKeepsSInv ==
    ASSUME SInv, NewReader
    PROVE  SInv'
<1>1. /\ phase \in {"sealed", "broken"} /\ reading = "no" /\ UNCHANGED <<writer, cursor>>
      /\ reading' \in IF Cut THEN {"refused"}
                      ELSE IF Altered THEN {"opened", "refused"}
                      ELSE IF Consistent THEN {"opened"} ELSE {"refused"}
  BY DEF NewReader
<1>2. /\ phase' = phase /\ (Cut' <=> Cut) /\ (Altered' <=> Altered) /\ (Oversized' <=> Oversized)
  BY <1>1 DEF writer, building, Cut, Altered, Oversized, LongText
<1>3. phase = "broken" => Cut
  BY DEF SInv
<1>4. ~Cut /\ ~Altered /\ ~Oversized => Consistent
  BY <1>1, <1>3, WholeIsConsistent
<1>5. /\ reading' \in {"opened", "refused"}
      /\ reading' = "opened" => ~Cut
      /\ reading' = "refused" => Cut \/ Altered \/ Oversized
  BY <1>1, <1>4
<1>6. UNCHANGED <<target, at, rest, before, entry, pending, got, loaded>>
  BY <1>1 DEF cursor
<1>7. ReadInv'
  <2>1. CursorTyped' /\ Untouched' /\ SeekIsLocal'
    BY <1>1, <1>5, <1>6 DEF SInv, ReadInv, CursorTyped, Untouched, SeekIsLocal
  <2>2. DamageIsRefused' /\ NeverCorrupt' /\ Seeking' /\ Reading'
    BY <1>2, <1>5 DEF DamageIsRefused, NeverCorrupt, Seeking, Reading
  <2>4. GivenUp' /\ got' = <<>>
    BY <1>1, <1>6 DEF SInv, ReadInv, Untouched, GivenUp
  <2>3. phase' \in {"sealed", "broken"} /\ (reading' # "refused" => phase' = "sealed" /\ ~Cut')
    BY <1>1, <1>2, <1>3, <1>5
  <2> QED BY <1>5, <2>1, <2>2, <2>3, <2>4 DEF ReadInv
<1> QED BY <1>1, <1>7, FileKept DEF SInv

LEMMA VerifyKeepsSInv ==
    ASSUME SInv, Verify
    PROVE  SInv'
<1> DEFINE m == Len(file)
           above == SubSeq(file, 1, m - 2)
<1>1. /\ reading = "opened" /\ UNCHANGED <<writer, cursor>> /\ phase = "sealed" /\ ~Cut
      /\ reading' = IF Digest.holds = Covered(above) THEN "verified" ELSE "refused"
  BY DEF Verify, SInv, ReadInv
<1>2. /\ phase' = phase /\ (Cut' <=> Cut) /\ (Altered' <=> Altered) /\ (Oversized' <=> Oversized)
  BY <1>1 DEF writer, building, Cut, Altered, Oversized, LongText
<1>3. /\ IsSeq(file) /\ m \in Nat /\ m >= 6
      /\ LET e == file[m - 1]
         IN  IF e.kind = "damaged" THEN e.holds = <<>>
             ELSE \A k \in 1 .. Len(e.holds) : e.holds[k].kind # "damaged"
      /\ Digest = file[m - 1]
  <2>1. IsSeq(file) => m \in Nat
    BY DEF IsSeq
  <2> QED BY <1>1, <2>1, DigestIsFound DEF SInv, SealedInv
<1>4. Len(above) = m - 2 /\ \A k \in 1 .. m - 2 : above[k] = file[k]
  <2>1. m - 2 \in 0 .. m
    BY <1>3
  <2> QED BY <1>3, <2>1, FirstOnes
<1>5. file[m].kind = "magic"
  BY <1>1 DEF Cut, Last
<1> HIDE DEF m, above
<1>6. ASSUME Altered PROVE reading' = "refused"
  <2> SUFFICES ASSUME Digest.holds = above PROVE FALSE
    BY <1>1 DEF Covered
  <2>1. PICK k \in 1 .. m : file[k].kind = "damaged"
    BY <1>6 DEF Altered, m
  <2>2. file[m - 1].kind # "damaged"
    <3>1. above # <<>>
      <4>1. Len(above) # 0
        BY <1>3, <1>4
      <4> QED BY <4>1
    <3> QED BY <1>3, <3>1
  <2>3. k # m /\ k # m - 1
    BY <1>5, <2>1, <2>2
  <2>4. k \in 1 .. m - 2
    BY <1>3, <2>1, <2>3
  <2> QED BY <1>3, <1>4, <2>1, <2>2, <2>4
<1>7. ASSUME ~Altered PROVE reading' = "verified"
  <2> DEFINE n == Len(index)
  <2>1. /\ n \in Nat /\ Len(file) = n + 6
        /\ file[n + 5] = Piece("digest", DigestSize, SubSeq(file, 1, n + 4))
    BY <1>1, <1>7, WholePieces
  <2>2. m - 1 = n + 5 /\ m - 2 = n + 4
    BY <2>1 DEF m
  <2>3. file[m - 1].holds = above
    <3> HIDE DEF n
    <3> QED BY <2>1, <2>2 DEF Piece, above
  <2> QED BY <1>1, <1>3, <2>3 DEF Covered
<1>8. UNCHANGED <<target, at, rest, before, entry, pending, got, loaded>>
  BY <1>1 DEF cursor
<1>9. ReadInv'
  <2>1. CursorTyped' /\ Untouched' /\ SeekIsLocal'
    BY <1>1, <1>8 DEF SInv, ReadInv, CursorTyped, Untouched, SeekIsLocal
  <2>2. DamageIsRefused' /\ NeverCorrupt' /\ Seeking' /\ Reading'
    BY <1>1, <1>2, <1>6, <1>7 DEF DamageIsRefused, NeverCorrupt, Seeking, Reading
  <2>3. GivenUp'
    BY <1>1, <1>8 DEF SInv, ReadInv, Untouched, GivenUp
  <2> QED BY <1>1, <1>2, <2>1, <2>2, <2>3 DEF ReadInv
<1> QED BY <1>1, <1>9, FileKept DEF SInv

-----------------------------------------------------------------------------
(* The blocks and the entries.                                             *)

\* The entries below a path are the first ones.
LEMMA PassedAreFirst ==
    ASSUME SortedInv, NEW p \in Paths
    PROVE  LET c == Cardinality({i \in 1 .. Len(added) : Less(added[i].path, p)})
           IN  c \in 0 .. Len(added) /\ \A i \in 1 .. Len(added) : i <= c <=> Less(added[i].path, p)
<1> DEFINE a == Len(added)
           S == {i \in 1 .. Len(added) : Less(added[i].path, p)}
           c == Cardinality(S)
<1>1. /\ a \in Nat /\ \A i \in 1 .. a : added[i].path \in Paths
  <2>1. \A x \in Entry : x.path \in Paths
    BY WriterAssumption DEF Entry
  <2>2. added \in Seq(Entry)
    BY DEF SortedInv
  <2> QED BY <2>1, <2>2
<1>2. \A i, j \in 1 .. a : i < j => Less(added[i].path, added[j].path)
  BY DEF SortedInv, AcceptedIsSorted
<1>3. \A i \in S, j \in 1 .. a : j < i => j \in S
  BY <1>1, <1>2, LessTransitive
<1>4. S \in SUBSET (1 .. a)
  OBVIOUS
<1>5. \A i \in 1 .. a : i \in S <=> Less(added[i].path, p)
  OBVIOUS
<1> HIDE DEF S, a
<1>6. c \in 0 .. a /\ S = 1 .. c
  BY <1>1, <1>3, <1>4, InitialSegment
<1> HIDE DEF c
<1>7. \A i \in 1 .. a : i <= c <=> i \in S
  BY <1>1, <1>6
<1> QED BY <1>5, <1>6, <1>7 DEF c, S, a

\* The block Seek starts at: all that comes before it is below the path, and so is the
\* path below all that comes after the next one.
LEMMA StartBlockIsRight ==
    ASSUME SInv, phase = "sealed", ~Cut, ~Altered, NEW p \in Paths
    PROVE  /\ StartBlock(p) \in 0 .. Len(index)
           /\ \A i \in 1 .. Upto(file, StartBlock(p)) : Less(added[i].path, p)
           /\ \A k \in 1 .. Len(index) : k >= StartBlock(p) + 2 => Less(p, index[k].firstKey)
<1> DEFINE n == Len(index)
           S == {k \in 1 .. n : ~Less(p, index[k].firstKey)}
           c == Cardinality(S)
           s == IF c = 0 THEN 0 ELSE c - 1
           key(k) == index[k].firstKey
<1>1. n \in Nat /\ Known = index /\ index \in Seq(Place) /\ Sections(file, index, added)
      /\ Upto(file, n) = Len(added)
  BY WholePieces, WholeIndex
<1>2. StartBlock(p) = s
  BY <1>1 DEF StartBlock
<1>3. /\ \A k \in 0 .. n : Upto(file, k) \in Nat
      /\ \A k, m \in 0 .. n : k < m => Upto(file, k) < Upto(file, m)
      /\ \A k, m \in 0 .. n : k <= m => Upto(file, k) <= Upto(file, m)
  BY <1>1, BlocksHold
<1>4. ASSUME NEW k \in 1 .. n
      PROVE  /\ key(k) = added[Upto(file, k - 1) + 1].path /\ key(k) \in Paths
             /\ Upto(file, k - 1) \in Nat /\ Upto(file, k - 1) + 1 \in 1 .. Len(added)
  <2>1. /\ Upto(file, k - 1) \in Nat /\ Len(BlockOf(file, k)) \in Nat \ {0}
        /\ Upto(file, k - 1) + Len(BlockOf(file, k)) <= Len(added) /\ Len(added) \in Nat
        /\ BlockOf(file, k)[1].suffix = added[Upto(file, k - 1) + 1].path
    BY BlockEntries
  <2>2. key(k) = BlockOf(file, k)[1].suffix
    BY WholeBlocks
  <2>3. key(k) \in Paths
    <3>1. index[k] \in Place
      BY <1>1
    <3> QED BY <3>1 DEF Place
  <2>4. Upto(file, k - 1) + 1 \in 1 .. Len(added)
    BY <2>1
  <2> QED BY <2>1, <2>2, <2>3, <2>4
<1>5. /\ \A i, j \in 1 .. Len(added) : i < j => Less(added[i].path, added[j].path)
      /\ \A i \in 1 .. Len(added) : added[i].path \in Paths
  <2>1. \A x \in Entry : x.path \in Paths
    BY WriterAssumption DEF Entry
  <2> QED BY <2>1 DEF SInv, SortedInv, AcceptedIsSorted
<1>6. \A k \in 1 .. n : k \in S <=> ~Less(p, key(k))
  OBVIOUS
<1>7. S \in SUBSET (1 .. n)
  OBVIOUS
<1> HIDE DEF n, key, S
<1>8. \A i \in S, j \in 1 .. n : j < i => j \in S
  <2> SUFFICES ASSUME NEW i \in S, NEW j \in 1 .. n, j < i, j \notin S PROVE FALSE
    OBVIOUS
  <2>1. i \in 1 .. n
    BY <1>7
  <2>2. Upto(file, j - 1) < Upto(file, i - 1)
    <3>1. j - 1 \in 0 .. n /\ i - 1 \in 0 .. n /\ j - 1 < i - 1
      BY <1>1, <2>1
    <3> QED BY <1>3, <3>1
  <2>3. /\ key(j) = added[Upto(file, j - 1) + 1].path /\ key(j) \in Paths
        /\ Upto(file, j - 1) \in Nat /\ Upto(file, j - 1) + 1 \in 1 .. Len(added)
    BY <1>4
  <2>4. /\ key(i) = added[Upto(file, i - 1) + 1].path /\ key(i) \in Paths
        /\ Upto(file, i - 1) \in Nat /\ Upto(file, i - 1) + 1 \in 1 .. Len(added)
    BY <1>4, <2>1
  <2>5. Upto(file, j - 1) + 1 < Upto(file, i - 1) + 1
    BY <2>2, <2>3, <2>4
  <2>6. Less(key(j), key(i))
    BY <1>5, <2>3, <2>4, <2>5
  <2>7. Less(p, key(j)) /\ ~Less(p, key(i))
    BY <1>6, <2>1
  <2> QED BY <2>3, <2>4, <2>6, <2>7, LessTransitive
<1>9. c \in 0 .. n /\ S = 1 .. c
  BY <1>1, <1>7, <1>8, InitialSegment
<1> HIDE DEF c
<1>10. s \in 0 .. n
  BY <1>1, <1>9
<1>11. \A k \in 1 .. n : k >= s + 2 => Less(p, key(k))
  <2> SUFFICES ASSUME NEW k \in 1 .. n, k >= s + 2 PROVE Less(p, key(k))
    OBVIOUS
  <2>1. ~(k <= c)
    BY <1>9
  <2>2. k \notin S
    BY <1>9, <2>1
  <2> QED BY <1>6, <2>2
<1>12. \A i \in 1 .. Upto(file, s) : Less(added[i].path, p)
  <2>1. CASE c = 0
    <3>1. s = 0 /\ Upto(file, 0) = 0
      BY <2>1, UptoStep
    <3> QED BY <3>1
  <2>2. CASE c # 0
    <3>1. s = c - 1 /\ c \in 1 .. n /\ c \in S
      BY <1>1, <1>9, <2>2
    <3>2. ~Less(p, key(c))
      BY <1>6, <3>1
    <3>3. /\ key(c) = added[Upto(file, s) + 1].path /\ key(c) \in Paths
          /\ Upto(file, s) \in Nat /\ Upto(file, s) + 1 \in 1 .. Len(added)
      BY <1>4, <3>1
    <3>4. p = key(c) \/ Less(key(c), p)
      BY <3>2, <3>3, LessTotal
    <3> SUFFICES ASSUME NEW i \in 1 .. Upto(file, s) PROVE Less(added[i].path, p)
      OBVIOUS
    <3> DEFINE w == Upto(file, s)
    <3> HIDE DEF w, s
    <3>5. i \in 1 .. Len(added) /\ i < w + 1
      BY <3>3 DEF w
    <3>6. Less(added[i].path, key(c)) /\ added[i].path \in Paths
      BY <1>5, <3>3, <3>5 DEF w
    <3> QED BY <3>3, <3>4, <3>6, LessTransitive
  <2> QED BY <2>1, <2>2
<1> QED BY <1>2, <1>10, <1>11, <1>12 DEF n, key

-----------------------------------------------------------------------------
(* The cursor.                                                             *)

\* A cursor is opened on a whole file.
LEMMA CursorHasFile ==
    ASSUME SInv, reading \in {"verified", "seeking", "ready", "eof"}
    PROVE  phase = "sealed" /\ ~Cut /\ ~Altered /\ Known = index
<1>1. phase = "sealed" /\ ~Cut /\ ~Altered
  BY DEF SInv, ReadInv, DamageIsRefused
<1> QED BY <1>1, WholeIndex

\* As many entries as are below the target.
LEMMA PassedIsRight ==
    ASSUME SInv
    PROVE  Passed \in 0 .. Len(added) /\ \A i \in 1 .. Len(added) : i <= Passed <=> Less(added[i].path, target)
<1>1. target \in Paths
  <2>1. target \in Key \cup {<<>>}
    BY DEF SInv, ReadInv, CursorTyped
  <2>2. Key \subseteq Paths /\ <<>> \in Paths
    BY WriterAssumption DEF Paths
  <2> QED BY <2>1, <2>2
<1>2. SortedInv
  BY DEF SInv
<1> QED BY <1>1, <1>2, PassedAreFirst DEF Passed

\* Where the cursor is.
LEMMA PosIsAPlace ==
    ASSUME SInv, reading \in {"seeking", "ready", "eof"}
    PROVE  /\ Pos \in 0 .. Len(added) /\ Len(added) \in Nat
           /\ at \in 0 .. Len(index) /\ Len(index) \in Nat /\ Len(rest) \in Nat
           /\ \A k \in 0 .. Len(index) : Upto(file, k) \in 0 .. Len(added)
           /\ rest = <<>> => Pos = Upto(file, at)
<1>1. phase = "sealed" /\ ~Cut /\ ~Altered
  BY CursorHasFile
<1>2. InBlock /\ rest \in Seq(Record) /\ added \in Seq(Entry)
  BY DEF SInv, SortedInv, ReadInv, CursorTyped
<1>3. Len(index) \in Nat /\ Sections(file, index, added) /\ Upto(file, Len(index)) = Len(added)
  BY <1>1, WholePieces
<1>4. /\ \A j \in 0 .. Len(index) : Upto(file, j) \in Nat
      /\ \A j, m \in 0 .. Len(index) : j <= m => Upto(file, j) <= Upto(file, m)
  BY <1>3, BlocksHold
<1>5. \A k \in 0 .. Len(index) : Upto(file, k) \in 0 .. Len(added)
  <2> DEFINE n == Len(index)
             a == Len(added)
  <2>1. n \in 0 .. n /\ a \in Nat /\ Upto(file, n) = a /\ n \in Nat
    BY <1>2, <1>3
  <2> HIDE DEF a
  <2>2. \A k \in 0 .. n : k <= n
    BY <2>1
  <2> HIDE DEF n
  <2>3. \A k \in 0 .. n : Upto(file, k) \in Nat /\ Upto(file, k) <= a
    BY <1>4, <2>1, <2>2 DEF n
  <2> QED BY <2>1, <2>3 DEF n, a
<1>6. at \in 0 .. Len(index)
  BY <1>2 DEF InBlock
<1>7. Len(rest) \in Nat /\ Len(added) \in Nat
  BY <1>2
<1>8. CASE rest = <<>>
  <2>1. Len(rest) = 0 /\ Upto(file, at) \in 0 .. Len(added)
    BY <1>5, <1>6, <1>8
  <2>2. Pos = Upto(file, at)
    BY <1>7, <2>1 DEF Pos
  <2> QED BY <1>3, <1>5, <1>6, <1>7, <2>1, <2>2
<1>9. CASE rest # <<>>
  <2>1. at \in 1 .. Len(index) /\ Len(rest) <= Len(BlockOf(file, at))
    BY <1>2, <1>3, <1>9 DEF InBlock
  <2>2. /\ Upto(file, at - 1) \in Nat /\ Len(BlockOf(file, at)) \in Nat
        /\ Upto(file, at) = Upto(file, at - 1) + Len(BlockOf(file, at))
    BY <1>1, <2>1, BlockEntries
  <2>3. Upto(file, at) - Len(rest) \in 0 .. Len(added)
    <3>1. Upto(file, at) \in 0 .. Len(added)
      BY <1>5, <1>6
    <3> QED BY <1>7, <2>1, <2>2, <3>1
  <2> QED BY <1>3, <1>5, <1>6, <1>7, <1>9, <2>3 DEF Pos
<1> QED BY <1>8, <1>9

\* The next record is that of the next entry.
LEMMA NextRecord ==
    ASSUME SInv, reading \in {"seeking", "ready"}, rest # <<>>
    PROVE  /\ Pos + 1 \in 1 .. Len(added)
           /\ ~LongText => Decodable(rest[1])
           /\ DecodedPath(rest[1]) = added[Pos + 1].path /\ rest[1].value = added[Pos + 1].value
<1> DEFINE b == BlockOf(file, at)
           u == Upto(file, at - 1)
           i == Len(b) - Len(rest) + 1
<1>1. phase = "sealed" /\ ~Cut /\ ~Altered
  BY CursorHasFile
<1>2. /\ InBlock /\ rest \in Seq(Record) /\ before \in Paths
      /\ added \in Seq(Entry)
      /\ \A j \in 1 .. Len(added) : added[j].path # <<>>
      /\ \A j, k \in 1 .. Len(added) : j < k => Less(added[j].path, added[k].path)
  BY DEF SInv, SortedInv, AcceptedIsSorted, ReadInv, CursorTyped
<1>3. /\ at \in 1 .. Len(index) /\ Len(rest) <= Len(b)
      /\ \A j \in 1 .. Len(rest) : rest[j] = b[Len(b) - Len(rest) + j]
      /\ before = IF Len(rest) = Len(b) THEN <<>> ELSE added[Pos].path
  BY <1>1, <1>2, WholePieces DEF InBlock
<1>4. /\ u \in Nat /\ Len(b) \in Nat \ {0} /\ Upto(file, at) = u + Len(b)
      /\ u + Len(b) <= Len(added) /\ Len(added) \in Nat
      /\ \A j \in 1 .. Len(b) : b[j] = Code(added, u, j)
  BY <1>1, <1>3, BlockEntries
<1>5. Len(rest) \in Nat \ {0}
  BY <1>2, EmptySeq
<1>6. Pos = u + Len(b) - Len(rest)
  BY <1>4 DEF Pos
<1>7. rest[1] = b[i]
  <2>1. 1 \in 1 .. Len(rest)
    BY <1>5
  <2> QED BY <1>3, <2>1
<1> HIDE DEF b, u
<1>8. i \in 1 .. Len(b) /\ Pos + 1 = u + i /\ Pos + 1 \in 1 .. Len(added) /\ Pos = u + i - 1
      /\ (i = 1 <=> Len(rest) = Len(b)) /\ (i # 1 => Pos \in 1 .. Len(added))
  BY <1>3, <1>4, <1>5, <1>6
<1> HIDE DEF i
<1> DEFINE e == added[Pos + 1]
<1>9. before = IF i = 1 THEN <<>> ELSE added[Pos].path
  BY <1>3, <1>8
<1>10. rest[1] = CodeOf(before, e)
  <2>1. b[i] = Code(added, u, i)
    BY <1>4, <1>8
  <2>2. Code(added, u, i) = CodeOf(IF i = 1 THEN <<>> ELSE added[Pos].path, e)
    BY <1>8 DEF Code
  <2> QED BY <1>7, <1>9, <2>1, <2>2
<1>11. e \in Entry
  BY <1>2, <1>8
<1> HIDE DEF e
<1>12. /\ rest[1].shared <= Len(before) /\ DecodedPath(rest[1]) = e.path /\ rest[1].value = e.value
  BY <1>2, <1>10, <1>11, FrontCoding DEF DecodedPath
<1>13. e.path # <<>>
  BY <1>2, <1>8 DEF e
<1>14. before # <<>> => Less(before, e.path)
  <2> SUFFICES ASSUME before # <<>> PROVE Less(before, e.path)
    OBVIOUS
  <2>1. i # 1
    BY <1>9
  <2>2. Pos \in 1 .. Len(added) /\ Pos + 1 \in 1 .. Len(added) /\ Pos < Pos + 1
    BY <1>8, <2>1
  <2>3. before = added[Pos].path
    BY <1>9, <2>1
  <2> HIDE DEF Pos
  <2> QED BY <1>2, <2>2, <2>3 DEF e
<1>15. ~LongText => Decodable(rest[1])
  <2> SUFFICES ASSUME ~LongText PROVE Decodable(rest[1])
    OBVIOUS
  <2>1. ~(Len(e.path) > MaxStringSize) /\ e.value \notin LongValue
    BY <1>8 DEF LongText, e
  <2>2. e.path \in Paths
    BY <1>11, WriterAssumption DEF Entry
  <2>3. Len(rest[1].suffix) <= Len(e.path) /\ Len(rest[1].suffix) \in Nat
    <3> DEFINE q == e.path
               m == SharedPrefix(before, q)
    <3>1. m \in Nat /\ m <= Len(q) /\ Len(q) \in Nat /\ q \in Seq(Byte)
      <4>1. before \in Paths /\ q \in Paths
        BY <1>2, <2>2
      <4> HIDE DEF q
      <4>2. m \in 0 .. Len(before) /\ m <= Len(q)
        BY <4>1, SharedIsShared
      <4>3. Len(before) \in Nat /\ Len(q) \in Nat
        BY <4>1, BytesOfPath
      <4> QED BY <4>1, <4>2, <4>3 DEF Paths
    <3>2. rest[1].suffix = SubSeq(q, m + 1, Len(q))
      <4>1. CodeOf(before, e).suffix = SubSeq(q, m + 1, Len(q))
        BY DEF CodeOf
      <4> QED BY <1>10, <4>1
    <3> HIDE DEF q, m
    <3>3. Len(SubSeq(q, m + 1, Len(q))) = Len(q) - m
      BY <3>1
    <3>4. Len(q) - m <= Len(q) /\ Len(q) - m \in Nat
      BY <3>1
    <3> QED BY <3>2, <3>3, <3>4 DEF q
  <2>4. Len(e.path) \in Nat
    BY <2>2, BytesOfPath
  <2> QED BY <1>12, <1>13, <1>14, <2>1, <2>3, <2>4, StoreAssumption DEF Decodable
<1> QED BY <1>8, <1>12, <1>15 DEF e

\* Decoding it brings the cursor one entry further.
LEMMA Decoded ==
    ASSUME SInv, reading \in {"seeking", "ready"}, rest # <<>>, Decode(rest[1]),
           Decodable(rest[1]), UNCHANGED <<writer, at>>
    PROVE  /\ entry' = added[Pos + 1] /\ Pos' = Pos + 1 /\ Pos + 1 \in 1 .. Len(added)
           /\ InBlock' /\ rest' \in Seq(Record) /\ before' \in Paths /\ entry' \in Entry
           /\ Len(rest') = Len(rest) - 1
<1> DEFINE b == BlockOf(file, at)
           e == added[Pos + 1]
<1>1. /\ Pos + 1 \in 1 .. Len(added) /\ Decodable(rest[1])
      /\ DecodedPath(rest[1]) = e.path /\ rest[1].value = e.value
  BY NextRecord
<1>2. /\ entry' = [path |-> e.path, value |-> e.value] /\ before' = e.path /\ rest' = Tail(rest)
  BY <1>1 DEF Decode
<1>3. e \in Entry
  BY <1>1 DEF SInv, SortedInv
<1>4. entry' = e /\ e.path \in Paths
  <2>1. Key \subseteq Paths
    BY WriterAssumption
  <2> HIDE DEF e
  <2> QED BY <1>2, <1>3, <2>1 DEF Entry
<1>5. UNCHANGED <<file, index, added, at>>
  BY DEF writer, building
<1>6. rest \in Seq(Record) /\ InBlock
  BY DEF SInv, ReadInv, CursorTyped
<1>7. /\ rest' \in Seq(Record) /\ Len(rest') = Len(rest) - 1 /\ Len(rest) \in Nat \ {0}
      /\ \A j \in 1 .. Len(rest) - 1 : rest'[j] = rest[j + 1]
  <2>1. rest # <<>> /\ rest \in Seq(Record)
    BY <1>6
  <2>2. /\ Tail(rest) \in Seq(Record) /\ Len(Tail(rest)) = Len(rest) - 1
        /\ \A j \in 1 .. Len(Tail(rest)) : Tail(rest)[j] = rest[j + 1]
    BY <2>1, HeadTailProperties
  <2>3. Len(rest) \in Nat \ {0}
    BY <2>1, EmptySeq
  <2> QED BY <1>2, <2>2, <2>3
<1>8. /\ at \in 0 .. Len(index) /\ at >= 1 /\ Len(rest) <= Len(b)
      /\ \A j \in 1 .. Len(rest) : rest[j] = b[Len(b) - Len(rest) + j]
  BY <1>6 DEF InBlock
<1>9. Len(b) \in Nat /\ Upto(file, at) \in Nat
  <2>1. phase = "sealed" /\ ~Cut /\ ~Altered
    BY CursorHasFile
  <2>2. at \in 1 .. Len(index)
    BY <1>8
  <2>3. /\ Upto(file, at - 1) \in Nat /\ Len(b) \in Nat \ {0} /\ Upto(file, at) = Upto(file, at - 1) + Len(b)
    BY <2>1, <2>2, BlockEntries
  <2> QED BY <2>3
<1>10. Pos' = Pos + 1
  <2>1. Pos' = Upto(file, at) - Len(rest')
    BY <1>5 DEF Pos, Upto, BlockOf
  <2> QED BY <1>7, <1>9, <2>1 DEF Pos
<1>11. BlockOf(file, at)' = b
  BY <1>5 DEF BlockOf
<1> HIDE DEF b, e
<1>12. InBlock'
  <2>1. /\ Len(rest') <= Len(b) /\ Len(rest') # Len(b)
    BY <1>7, <1>8, <1>9
  <2>2. ASSUME NEW j \in 1 .. Len(rest') PROVE rest'[j] = b[Len(b) - Len(rest') + j]
    <3>1. j + 1 \in 1 .. Len(rest) /\ j \in 1 .. Len(rest) - 1
      BY <1>7
    <3>2. Len(b) - Len(rest) + (j + 1) = Len(b) - Len(rest') + j
      BY <1>7, <1>9
    <3>3. rest[j + 1] = b[Len(b) - Len(rest) + (j + 1)]
      BY <1>8, <3>1
    <3> QED BY <1>7, <3>1, <3>2, <3>3
  <2>3. before' = added'[Pos'].path
    BY <1>2, <1>5, <1>10 DEF e
  <2> HIDE DEF Pos
  <2> QED BY <1>5, <1>8, <1>11, <2>1, <2>2, <2>3 DEF InBlock
<1> QED BY <1>1, <1>2, <1>3, <1>4, <1>7, <1>10, <1>12 DEF e

\* The reader changes nothing of the file.
LEMMA SameFile ==
    ASSUME UNCHANGED writer
    PROVE  /\ UNCHANGED <<phase, file, index, added, Known>>
           /\ (Cut' <=> Cut) /\ (Altered' <=> Altered)
           /\ \A k : Upto(file, k)' = Upto(file, k) /\ BlockOf(file, k)' = BlockOf(file, k)
<1>1. UNCHANGED <<phase, file, index, added>>
  BY DEF writer, building
<1>2. (Cut' <=> Cut) /\ (Altered' <=> Altered)
  BY <1>1 DEF Cut, Altered
<1>3. \A o, n : ReadAt(o, n)' = ReadAt(o, n)
  BY <1>1 DEF ReadAt
<1>4. Footer' = Footer
  BY <1>1, <1>3 DEF Footer
<1>5. Known' = Known
  BY <1>3, <1>4 DEF Known
<1>6. \A k : Upto(file, k)' = Upto(file, k) /\ BlockOf(file, k)' = BlockOf(file, k)
  BY <1>1 DEF Upto, BlockOf
<1> QED BY <1>1, <1>2, <1>5, <1>6

LEMMA SameStart ==
    ASSUME UNCHANGED writer
    PROVE  StartBlock(target)' = StartBlock(target')
<1>1. Known' = Known
  BY SameFile
<1> QED BY <1>1 DEF StartBlock

\* What is left to show of a step of the cursor.
LEMMA CursorMoves ==
    ASSUME SInv, UNCHANGED writer, reading \in {"verified", "seeking", "ready", "eof"},
           reading' \in {"seeking", "ready", "eof"},
           CursorTyped', InBlock', Seeking', Reading', loaded' <= 2
    PROVE  SInv'
<1>1. phase = "sealed" /\ ~Cut /\ ~Altered
  BY CursorHasFile
<1>2. phase' = "sealed" /\ ~Cut' /\ ~Altered'
  BY <1>1, SameFile
<1>3. DamageIsRefused' /\ NeverCorrupt' /\ SeekIsLocal' /\ GivenUp'
  BY <1>2 DEF DamageIsRefused, NeverCorrupt, SeekIsLocal, GivenUp
<1>4. ReadInv'
  BY <1>2, <1>3 DEF ReadInv
<1> QED BY <1>4, FileKept DEF SInv

LEMMA Stutter ==
    ASSUME SInv, UNCHANGED storeVars
    PROVE  SInv'
<1>1. /\ UNCHANGED writer
      /\ UNCHANGED <<reading, target, at, rest, before, entry, pending, got, loaded>>
  BY DEF storeVars, cursor
<1>2. /\ UNCHANGED <<phase, file, index, added, Known>>
      /\ (Cut' <=> Cut) /\ (Altered' <=> Altered)
      /\ \A k : Upto(file, k)' = Upto(file, k) /\ BlockOf(file, k)' = BlockOf(file, k)
  BY <1>1, SameFile
<1>0. Oversized' <=> Oversized
  BY <1>1 DEF writer, building, Oversized, LongText
<1>3. CursorTyped' /\ DamageIsRefused' /\ NeverCorrupt' /\ SeekIsLocal' /\ (Untouched' <=> Untouched)
  BY <1>0, <1>1, <1>2
     DEF SInv, ReadInv, CursorTyped, DamageIsRefused, NeverCorrupt, SeekIsLocal, Untouched
<1>4. Pos' = Pos /\ Passed' = Passed /\ BlockOf(file, at)' = BlockOf(file, at)
  BY <1>1, <1>2 DEF Pos, Passed, Upto, BlockOf
<1>5. StartBlock(target)' = StartBlock(target)
  BY <1>1, SameStart
<1>6. InBlock' <=> InBlock
  BY <1>1, <1>2, <1>4 DEF InBlock
<1>7. (Seeking' <=> Seeking) /\ (Reading' <=> Reading)
  BY <1>1, <1>2, <1>4, <1>5 DEF Seeking, Reading
<1>9. GivenUp'
  BY <1>1, <1>2, <1>4 DEF SInv, ReadInv, GivenUp
<1>8. ReadInv'
  BY <1>1, <1>2, <1>3, <1>6, <1>7, <1>9 DEF SInv, ReadInv
<1> QED BY <1>1, <1>8, FileKept DEF SInv

\* A reading that is given up, because of what is written being beyond a limit, has
\* returned the entries it should have until there.
LEMMA GiveUp ==
    ASSUME SInv, UNCHANGED writer, reading \in {"seeking", "ready"}, ~pending,
           reading' = "refused", Oversized, CursorTyped', loaded' = loaded,
           UNCHANGED <<target, got>>
    PROVE  SInv'
<1>1. phase = "sealed" /\ ~Cut /\ ~Altered
  BY CursorHasFile
<1>2. phase' = "sealed" /\ ~Cut' /\ ~Altered' /\ UNCHANGED <<index, added>>
  BY <1>1, SameFile
<1>3. Oversized'
  BY <1>2 DEF Oversized, LongText
<1>4. Passed' = Passed
  BY <1>2 DEF Passed
<1>5. Pos \in 0 .. Len(added) /\ Passed \in 0 .. Len(added) /\ Len(added) \in Nat
  BY PosIsAPlace, PassedIsRight
<1>6. got = <<>> \/ (Pos >= Passed /\ got = SubSeq(added, Passed + 1, Pos))
  BY DEF SInv, ReadInv, Seeking, Reading
<1>7. GivenUp'
  <2> HIDE DEF Pos, Passed
  <2>1. Pos >= Passed => Pos \in Passed .. Len(added)
    BY <1>5
  <2> QED BY <1>2, <1>4, <1>6, <2>1 DEF GivenUp
<1>8. DamageIsRefused' /\ NeverCorrupt' /\ SeekIsLocal' /\ Seeking' /\ Reading'
  BY <1>3 DEF SInv, ReadInv, DamageIsRefused, NeverCorrupt, SeekIsLocal, Seeking, Reading
<1>9. ReadInv'
  BY <1>2, <1>7, <1>8 DEF ReadInv
<1> QED BY <1>9, FileKept DEF SInv

\* Cursor.
LEMMA OpenCursorKeepsSInv ==
    ASSUME SInv, OpenCursor
    PROVE  SInv'
<1>1. /\ reading = "verified" /\ reading' = "ready" /\ UNCHANGED writer
      /\ UNCHANGED <<target, at, rest, before, entry, pending, got, loaded>>
  BY DEF OpenCursor, cursor
<1>2. /\ target = <<>> /\ at = 0 /\ rest = <<>> /\ pending = FALSE /\ got = <<>> /\ loaded = 0
      /\ CursorTyped /\ added \in Seq(Entry)
  BY <1>1 DEF SInv, SortedInv, ReadInv, Untouched
<1>3. phase = "sealed" /\ ~Cut /\ ~Altered /\ Len(index) \in Nat
  BY <1>1, CursorHasFile, WholePieces
<1>4. UNCHANGED <<file, index, added>>
  BY <1>1, SameFile
<1>5. CursorTyped'
  BY <1>1, <1>2 DEF CursorTyped
<1>6. InBlock'
  BY <1>1, <1>2, <1>3, <1>4 DEF InBlock
<1>7. Pos = 0 /\ Pos' = Pos
  <2>1. Len(rest) = 0 /\ Upto(file, at) = 0
    BY <1>2, UptoStep
  <2>2. Pos' = Pos
    BY <1>1, <1>4 DEF Pos, Upto, BlockOf
  <2> QED BY <2>1, <2>2 DEF Pos
<1>8. Passed = 0 /\ Passed' = Passed
  <2>1. Passed' = Passed
    BY <1>1, <1>4 DEF Passed
  <2>2. \A q \in Paths : ~Less(q, <<>>)
    <3> SUFFICES ASSUME NEW q \in Paths, Less(q, <<>>) PROVE FALSE
      OBVIOUS
    <3>1. Len(q) \in Nat /\ Len(<<>>) = 0
      BY BytesOfPath
    <3> QED BY <3>1 DEF Less, DifferAt, ShorterFirst
  <2>3. \A i \in 1 .. Len(added) : ~Less(added[i].path, target)
    <3>1. \A x \in Entry : x.path \in Paths
      BY WriterAssumption DEF Entry
    <3> QED BY <1>2, <2>2, <3>1
  <2>4. {i \in 1 .. Len(added) : Less(added[i].path, target)} = {}
    BY <2>3
  <2>5. Passed = 0
    BY <2>4, FS_EmptySet DEF Passed
  <2> QED BY <2>1, <2>5
<1>9. Reading'
  <2>1. SubSeq(added, 0 + 1, 0) = <<>>
    BY <1>2
  <2>2. got' = SubSeq(added', Passed' + 1, Pos')
    BY <1>1, <1>2, <1>4, <1>7, <1>8, <2>1
  <2> HIDE DEF Pos, Passed
  <2> QED BY <1>1, <1>2, <1>7, <1>8, <2>2 DEF Reading
<1>10. Seeking' /\ loaded' <= 2
  BY <1>1, <1>2 DEF Seeking
<1> QED BY <1>1, <1>5, <1>6, <1>9, <1>10, CursorMoves

\* Seek.
LEMMA SeekKeepsSInv ==
    ASSUME SInv, NEW p \in Key, Seek(p)
    PROVE  SInv'
<1>1. /\ reading = "verified" /\ reading' = "seeking" /\ target' = p /\ at' = StartBlock(p)
      /\ UNCHANGED writer /\ UNCHANGED <<rest, before, entry, pending, got, loaded>>
  BY DEF Seek
<1>2. /\ rest = <<>> /\ pending = FALSE /\ got = <<>> /\ loaded = 0 /\ CursorTyped
      /\ SortedInv /\ Len(added) \in Nat
  BY <1>1 DEF SInv, SortedInv, ReadInv, Untouched
<1>3. phase = "sealed" /\ ~Cut /\ ~Altered /\ Len(index) \in Nat
  BY <1>1, CursorHasFile, WholePieces
<1>4. UNCHANGED <<file, index, added>>
  BY <1>1, SameFile
<1>5. p \in Paths
  BY WriterAssumption
<1>6. /\ StartBlock(p) \in 0 .. Len(index)
      /\ \A i \in 1 .. Upto(file, StartBlock(p)) : Less(added[i].path, p)
  BY <1>3, <1>5, StartBlockIsRight
<1> DEFINE c == Cardinality({i \in 1 .. Len(added) : Less(added[i].path, p)})
           s == StartBlock(p)
<1>7. c \in 0 .. Len(added) /\ \A i \in 1 .. Len(added) : i <= c <=> Less(added[i].path, p)
  BY <1>2, <1>5, PassedAreFirst
<1>8. Passed' = c
  BY <1>1, <1>4 DEF Passed
<1> HIDE DEF c, s
<1>9. Upto(file, s) \in 0 .. Len(added)
  <2>1. /\ Len(index) \in Nat /\ Sections(file, index, added) /\ Upto(file, Len(index)) = Len(added)
    BY <1>3, WholePieces
  <2>2. /\ \A j \in 0 .. Len(index) : Upto(file, j) \in Nat
        /\ \A j, m \in 0 .. Len(index) : j <= m => Upto(file, j) <= Upto(file, m)
    BY <2>1, BlocksHold
  <2>3. s \in 0 .. Len(index) /\ Len(index) \in 0 .. Len(index) /\ s <= Len(index)
    BY <1>6, <2>1 DEF s
  <2>4. Upto(file, s) \in Nat /\ Upto(file, s) <= Upto(file, Len(index))
    BY <2>2, <2>3
  <2> QED BY <1>2, <2>1, <2>4
<1>10. Pos' = Upto(file, s)
  <2>1. Pos' = Upto(file, s) - Len(rest)
    BY <1>1, <1>4 DEF Pos, Upto, BlockOf, s
  <2>2. Len(rest) = 0
    BY <1>2
  <2> QED BY <1>9, <2>1, <2>2
<1>11. Upto(file, s) <= c
  <2> DEFINE u == Upto(file, s)
  <2>1. \A i \in 1 .. u : Less(added[i].path, p)
    BY <1>6 DEF s
  <2> HIDE DEF u
  <2>2. CASE u = 0
    BY <1>2, <1>7, <2>2 DEF u
  <2>3. CASE u # 0
    <3>1. u \in 1 .. u /\ u \in 1 .. Len(added)
      BY <1>2, <1>9, <2>3 DEF u
    <3> QED BY <1>7, <2>1, <3>1 DEF u
  <2> QED BY <2>2, <2>3
<1>12. CursorTyped'
  <2>1. at' \in Nat /\ target' \in Key
    BY <1>1, <1>3, <1>6
  <2> QED BY <1>1, <1>2, <2>1 DEF CursorTyped
<1>13. InBlock'
  BY <1>1, <1>2, <1>4, <1>6 DEF InBlock
<1>14. Seeking'
  <2>1. StartBlock(target)' = s
    BY <1>1, SameStart DEF s
  <2>2. Pos' <= Passed'
    BY <1>8, <1>10, <1>11
  <2>3. s \in Nat
    BY <1>3, <1>6 DEF s
  <2>4. at' = StartBlock(target)' + loaded' /\ loaded' = 0
    BY <1>1, <1>2, <2>1, <2>3 DEF s
  <2> HIDE DEF Pos, Passed
  <2> QED BY <1>1, <1>2, <2>2, <2>4 DEF Seeking
<1>15. Reading' /\ loaded' <= 2
  BY <1>1, <1>2 DEF Reading
<1> QED BY <1>1, <1>12, <1>13, <1>14, <1>15, CursorMoves

\* Next reads a block: the cursor stays where it is among the entries.
LEMMA ReadBlockKeepsSInv ==
    ASSUME SInv, ReadBlock
    PROVE  SInv'
<1> DEFINE k == at + 1
           b == BlockOf(file, k)
<1>1. /\ reading \in {"seeking", "ready"} /\ ~pending /\ rest = <<>> /\ at < Len(Known)
      /\ UNCHANGED writer /\ UNCHANGED <<target, entry, pending, got>>
  BY DEF ReadBlock
<1>2. /\ phase = "sealed" /\ ~Cut /\ ~Altered /\ Known = index
  BY <1>1, CursorHasFile
<1>3. /\ Pos \in 0 .. Len(added) /\ Len(added) \in Nat /\ at \in 0 .. Len(index) /\ Len(index) \in Nat
      /\ Pos = Upto(file, at)
  BY <1>1, PosIsAPlace
<1>4. k \in 1 .. Len(index) /\ k - 1 = at
  BY <1>1, <1>2, <1>3
<1> HIDE DEF k
<1>16. /\ ~LongText => Readable(index[k].offset, index[k].size)
       /\ ReadAt(index[k].offset, index[k].size).holds = b
       /\ b \in Seq(Record) /\ b # <<>>
  BY <1>2, <1>4, WholeBlocks
<1>17. ASSUME ~Readable(index[k].offset, index[k].size) PROVE SInv'
  <2>1. reading' = "refused" /\ UNCHANGED <<rest, before, at, loaded>>
    BY <1>2, <1>17 DEF ReadBlock, k
  <2>2. Oversized
    BY <1>16, <1>17 DEF Oversized
  <2>3. CursorTyped'
    BY <1>1, <2>1 DEF SInv, ReadInv, CursorTyped
  <2> QED BY <1>1, <2>1, <2>2, <2>3, GiveUp
<1> SUFFICES ASSUME Readable(index[k].offset, index[k].size) PROVE SInv'
  BY <1>17
<1>5. /\ Readable(index[k].offset, index[k].size)
      /\ ReadAt(index[k].offset, index[k].size).holds = b
      /\ b \in Seq(Record) /\ b # <<>>
  BY <1>16
<1>6. /\ rest' = b /\ before' = <<>> /\ at' = k /\ reading' = reading
      /\ loaded' = IF reading = "seeking" THEN loaded + 1 ELSE loaded
  BY <1>2, <1>5 DEF ReadBlock, k
<1>7. UNCHANGED <<file, index, added>> /\ StartBlock(target)' = StartBlock(target)
  <2>2. target' = target
    BY <1>1
  <2>3. StartBlock(target)' = StartBlock(target')
    BY <1>1, SameStart
  <2>4. UNCHANGED <<file, index, added>>
    BY <1>1, SameFile
  <2> QED BY <2>2, <2>3, <2>4
<1>8. Upto(file, k) = Upto(file, at) + Len(b) /\ Len(b) \in Nat \ {0}
  <2>1. /\ Upto(file, k) = Upto(file, k - 1) + Len(b) /\ Len(b) \in Nat \ {0}
    BY <1>2, <1>4, BlockEntries
  <2> QED BY <1>4, <2>1
<1>9. Pos' = Pos
  <2>1. Pos' = Upto(file, k) - Len(b)
    BY <1>6, <1>7 DEF Pos, Upto, BlockOf
  <2> HIDE DEF Pos, b
  <2> QED BY <1>3, <1>8, <2>1
<1>10. Passed' = Passed
  BY <1>1, <1>7 DEF Passed
<1>11. CursorTyped /\ Seeking /\ Reading /\ loaded <= 2
  BY DEF SInv, ReadInv, SeekIsLocal
<1>12. CursorTyped'
  <2>1. before' \in Paths /\ rest' \in Seq(Record)
    BY <1>5, <1>6 DEF Paths
  <2>2. at' \in Nat /\ loaded' \in Nat
    BY <1>3, <1>4, <1>6, <1>11 DEF CursorTyped
  <2> QED BY <1>1, <1>6, <1>11, <2>1, <2>2 DEF CursorTyped
<1>13. InBlock'
  <2>1. BlockOf(file, at)' = b
    BY <1>6, <1>7 DEF BlockOf
  <2>2. k \in 0 .. Len(index) /\ k >= 1
    BY <1>3, <1>4
  <2>3. \A i \in 1 .. Len(b) : b[i] = b[Len(b) - Len(b) + i]
    <3>1. \A i \in 1 .. Len(b) : Len(b) - Len(b) + i = i
      BY <1>8
    <3> QED BY <3>1
  <2>4. Len(b) <= Len(b)
    BY <1>8
  <2> HIDE DEF b, Pos
  <2> QED BY <1>6, <1>7, <2>1, <2>2, <2>3, <2>4 DEF InBlock
<1>14. Seeking' /\ loaded' <= 2
  <2>1. CASE reading = "seeking"
    <3>1. /\ ~pending /\ got = <<>> /\ Pos <= Passed
          /\ at = StartBlock(target) + loaded /\ loaded <= 2
          /\ loaded = 2 => Len(rest) = Len(BlockOf(file, at))
      BY <1>11, <2>1 DEF Seeking
    <3>2. loaded # 2
      <4> SUFFICES ASSUME loaded = 2 PROVE FALSE
        OBVIOUS
      <4>1. Len(BlockOf(file, at)) = 0
        BY <1>1, <3>1
      <4>2. StartBlock(target) \in Nat
        <5>1. target \in Paths
          <6>1. Key \subseteq Paths /\ <<>> \in Paths
            BY WriterAssumption DEF Paths
          <6> QED BY <1>11, <6>1 DEF CursorTyped
        <5>2. StartBlock(target) \in 0 .. Len(index)
          BY <1>2, <5>1, StartBlockIsRight
        <5> QED BY <1>3, <5>2
      <4>3. at \in 1 .. Len(index)
        BY <1>3, <3>1, <4>2
      <4>4. Len(BlockOf(file, at)) \in Nat \ {0}
        BY <1>2, <4>3, BlockEntries
      <4> QED BY <4>1, <4>4
    <3>3. loaded' = loaded + 1 /\ loaded \in Nat
      BY <1>6, <1>11, <2>1 DEF CursorTyped
    <3>4. k = StartBlock(target) + loaded'
      <4>1. at \in Nat /\ StartBlock(target) + loaded = at /\ k = at + 1
        BY <1>3, <3>1 DEF k
      <4>2. StartBlock(target) \in Nat
        <5>1. target \in Paths
          <6>1. Key \subseteq Paths /\ <<>> \in Paths
            BY WriterAssumption DEF Paths
          <6> QED BY <1>11, <6>1 DEF CursorTyped
        <5>2. StartBlock(target) \in 0 .. Len(index)
          BY <1>2, <5>1, StartBlockIsRight
        <5> QED BY <1>3, <5>2
      <4> QED BY <3>3, <4>1, <4>2
    <3>5. loaded' <= 2
      BY <3>1, <3>2, <3>3
    <3>6. BlockOf(file, at)' = b
      BY <1>6, <1>7 DEF BlockOf
    <3> HIDE DEF Pos, Passed, b
    <3> QED BY <1>1, <1>6, <1>7, <1>9, <1>10, <3>1, <3>4, <3>5, <3>6 DEF Seeking
  <2>2. CASE reading # "seeking"
    BY <1>6, <1>11, <2>2 DEF Seeking
  <2> QED BY <2>1, <2>2
<1>15. Reading'
  <2> HIDE DEF Pos, Passed
  <2> QED BY <1>1, <1>6, <1>7, <1>9, <1>10, <1>11 DEF Reading
<1> QED BY <1>1, <1>6, <1>12, <1>13, <1>14, <1>15, CursorMoves

\* There is no next block.
LEMMA EofKeepsSInv ==
    ASSUME SInv, Eof
    PROVE  SInv'
<1>1. /\ reading \in {"seeking", "ready"} /\ ~pending /\ rest = <<>> /\ at = Len(Known)
      /\ reading' = (IF reading = "seeking" THEN "ready" ELSE "eof") /\ UNCHANGED writer
      /\ UNCHANGED <<target, at, rest, before, entry, pending, got, loaded>>
  BY DEF Eof, cursor
<1>2. phase = "sealed" /\ ~Cut /\ ~Altered /\ Known = index
  BY <1>1, CursorHasFile
<1>3. /\ UNCHANGED <<file, index, added>> /\ Pos' = Pos /\ Passed' = Passed
      /\ BlockOf(file, at)' = BlockOf(file, at)
  <2>1. UNCHANGED <<file, index, added>>
    BY <1>1, SameFile
  <2> QED BY <1>1, <2>1 DEF Pos, Passed, Upto, BlockOf
<1>4. /\ Len(added) \in Nat /\ Pos = Len(added)
  <2>1. Pos = Upto(file, at) /\ Len(added) \in Nat
    BY <1>1, PosIsAPlace
  <2>2. Upto(file, Len(index)) = Len(added)
    BY <1>2, WholePieces
  <2> QED BY <1>1, <1>2, <2>1, <2>2
<1>5. CursorTyped /\ InBlock /\ Seeking /\ Reading /\ loaded <= 2 /\ added \in Seq(Entry)
  BY <1>1 DEF SInv, SortedInv, ReadInv, SeekIsLocal
<1>6. CursorTyped'
  BY <1>1, <1>5 DEF CursorTyped
<1>7. InBlock'
  BY <1>1, <1>3, <1>5 DEF InBlock
<1>8. Seeking' /\ loaded' <= 2
  BY <1>1, <1>5 DEF Seeking
<1>9. Passed \in 0 .. Len(added)
  BY PassedIsRight
<1>10. Reading'
  <2> HIDE DEF Pos, Passed
  <2>1. CASE reading = "seeking"
    <3>1. got = <<>> /\ Pos <= Passed
      BY <1>5, <2>1 DEF Seeking
    <3>2. Passed = Len(added)
      BY <1>4, <1>9, <3>1
    <3>3. SubSeq(added, Passed + 1, Pos) = <<>>
      BY <1>4, <1>5, <3>2
    <3>4. Pos >= Passed
      BY <1>4, <3>2
    <3> QED BY <1>1, <1>3, <2>1, <3>1, <3>3, <3>4 DEF Reading
  <2>2. CASE reading = "ready"
    BY <1>1, <1>3, <1>4, <1>5, <2>2 DEF Reading
  <2> QED BY <1>1, <2>1, <2>2
<1> QED BY <1>1, <1>6, <1>7, <1>8, <1>10, CursorMoves

\* Seek decodes an entry, and drops it or keeps it.
LEMMA SeekStepKeepsSInv ==
    ASSUME SInv, SeekStep
    PROVE  SInv'
<1>1. /\ reading = "seeking" /\ rest # <<>> /\ Decode(rest[1])
      /\ pending' = (~BadRecord /\ ~Less(entry'.path, target))
      /\ reading' = IF BadRecord THEN "refused" ELSE IF pending' THEN "ready" ELSE "seeking"
      /\ UNCHANGED writer /\ UNCHANGED <<target, at, got, loaded>>
  BY DEF SeekStep
<1>2. phase = "sealed" /\ ~Cut /\ ~Altered
  BY <1>1, CursorHasFile
<1>12. ~pending
  BY <1>1 DEF SInv, ReadInv, Seeking
<1>13. ASSUME BadRecord PROVE SInv'
  <2>1. ~Decodable(rest[1])
    BY <1>13 DEF BadRecord
  <2>2. /\ UNCHANGED <<entry, before, rest>> /\ reading' = "refused" /\ pending' = FALSE
    BY <1>1, <1>13, <2>1 DEF Decode
  <2>3. Oversized
    BY <1>1, <2>1, NextRecord DEF Oversized
  <2>4. CursorTyped'
    BY <1>1, <2>2 DEF SInv, ReadInv, CursorTyped
  <2> QED BY <1>1, <1>12, <2>2, <2>3, <2>4, GiveUp
<1> SUFFICES ASSUME ~BadRecord PROVE SInv'
  BY <1>13
<1>3. Decodable(rest[1]) /\ DecodedPath(rest[1]) = added[Pos + 1].path
  BY <1>1, <1>12, NextRecord DEF BadRecord
<1>4. /\ entry' = added[Pos + 1] /\ Pos' = Pos + 1 /\ Pos + 1 \in 1 .. Len(added)
      /\ InBlock' /\ rest' \in Seq(Record) /\ before' \in Paths /\ entry' \in Entry
  BY <1>1, <1>3, Decoded
<1>5. /\ CursorTyped /\ InBlock /\ loaded <= 2
      /\ ~pending /\ got = <<>> /\ Pos <= Passed
      /\ at = StartBlock(target) + loaded
      /\ loaded = 2 => Len(rest) = Len(BlockOf(file, at))
  BY <1>1 DEF SInv, ReadInv, SeekIsLocal, Seeking
<1>6. /\ UNCHANGED <<file, index, added>> /\ Passed' = Passed
      /\ StartBlock(target)' = StartBlock(target)
  <2>1. UNCHANGED <<file, index, added>>
    BY <1>1, SameFile
  <2>2. target' = target
    BY <1>1
  <2>3. StartBlock(target)' = StartBlock(target')
    BY <1>1, SameStart
  <2> QED BY <1>1, <2>1, <2>2, <2>3 DEF Passed
<1>7. CursorTyped'
  <2>1. pending' \in BOOLEAN /\ reading' \in {"ready", "seeking"}
    BY <1>1, <1>3
  <2> QED BY <1>1, <1>4, <1>5, <2>1 DEF CursorTyped
<1>8. Passed \in 0 .. Len(added) /\ \A i \in 1 .. Len(added) : i <= Passed <=> Less(added[i].path, target)
  BY PassedIsRight
<1>9. Pos \in Nat
  BY <1>1, PosIsAPlace
<1>10. CASE Less(added[Pos + 1].path, target)
  <2>1. ~pending' /\ reading' = "seeking"
    BY <1>1, <1>3, <1>4, <1>10
  <2>2. Pos' <= Passed'
    <3> HIDE DEF Passed, Pos
    <3> QED BY <1>4, <1>6, <1>8, <1>10
  <2>3. loaded # 2
    <3> SUFFICES ASSUME loaded = 2 PROVE FALSE
      OBVIOUS
    <3>1. target \in Paths
      <4>1. Key \subseteq Paths /\ <<>> \in Paths
        BY WriterAssumption DEF Paths
      <4> QED BY <1>5, <4>1 DEF CursorTyped
    <3>2. /\ StartBlock(target) \in 0 .. Len(index)
          /\ \A k \in 1 .. Len(index) : k >= StartBlock(target) + 2 => Less(target, index[k].firstKey)
      BY <1>2, <3>1, StartBlockIsRight
    <3>3. at \in 1 .. Len(index) /\ at >= StartBlock(target) + 2
      <4>1. at \in 0 .. Len(index) /\ StartBlock(target) \in Nat
        BY <1>5, <3>2 DEF InBlock
      <4> QED BY <1>5, <4>1
    <3>4. Less(target, index[at].firstKey)
      BY <3>2, <3>3
    <3>5. index[at].firstKey = added[Upto(file, at - 1) + 1].path
      <4>1. index[at].firstKey = BlockOf(file, at)[1].suffix
        BY <1>2, <3>3, WholeBlocks
      <4>2. BlockOf(file, at)[1].suffix = added[Upto(file, at - 1) + 1].path
        BY <1>2, <3>3, BlockEntries
      <4> QED BY <4>1, <4>2
    <3>6. Pos = Upto(file, at - 1)
      <4>1. /\ Upto(file, at - 1) \in Nat /\ Len(BlockOf(file, at)) \in Nat \ {0}
            /\ Upto(file, at) = Upto(file, at - 1) + Len(BlockOf(file, at))
        BY <1>2, <3>3, BlockEntries
      <4>2. Len(rest) = Len(BlockOf(file, at))
        BY <1>5
      <4> QED BY <4>1, <4>2 DEF Pos
    <3>7. Less(target, added[Pos + 1].path)
      <4> HIDE DEF Pos
      <4> QED BY <3>4, <3>5, <3>6
    <3>8. added[Pos + 1].path \in Paths
      <4>1. Key \subseteq Paths
        BY WriterAssumption
      <4> QED BY <1>4, <4>1 DEF Entry
    <3> QED BY <1>10, <3>1, <3>7, <3>8, LessAsymmetric
  <2>4. Seeking'
    <3> HIDE DEF Pos, Passed
    <3> QED BY <1>1, <1>5, <1>6, <2>1, <2>2, <2>3 DEF Seeking
  <2>5. Reading'
    BY <2>1 DEF Reading
  <2> QED BY <1>1, <1>4, <1>5, <1>7, <2>1, <2>4, <2>5, CursorMoves
<1>11. CASE ~Less(added[Pos + 1].path, target)
  <2>1. pending' = TRUE /\ reading' = "ready"
    BY <1>1, <1>3, <1>4, <1>11
  <2>2. Pos = Passed
    <3>1. ~(Pos + 1 <= Passed)
      <4> HIDE DEF Pos, Passed
      <4> QED BY <1>4, <1>8, <1>11
    <3> HIDE DEF Pos, Passed
    <3> QED BY <1>5, <1>8, <1>9, <3>1
  <2>3. Reading'
    <3>1. Pos' = Passed' + 1 /\ entry' = added'[Pos']
      <4> HIDE DEF Pos, Passed
      <4> QED BY <1>4, <1>6, <2>2
    <3> HIDE DEF Pos, Passed
    <3> QED BY <1>1, <1>5, <2>1, <3>1 DEF Reading
  <2>4. Seeking'
    BY <2>1 DEF Seeking
  <2> QED BY <1>1, <1>4, <1>5, <1>7, <2>1, <2>3, <2>4, CursorMoves
<1> QED BY <1>10, <1>11

\* One entry more has been returned.
LEMMA OneMoreEntry ==
    ASSUME NEW S, NEW l \in Seq(S), NEW c \in Nat, NEW p \in Nat, c <= p, p + 1 <= Len(l)
    PROVE  Append(SubSeq(l, c + 1, p), l[p + 1]) = SubSeq(l, c + 1, p + 1)
<1> DEFINE f == SubSeq(l, c + 1, p)
           g == SubSeq(l, c + 1, p + 1)
           h == Append(f, l[p + 1])
<1>1. f \in Seq(S) /\ Len(f) = p - c /\ \A i \in 1 .. p - c : f[i] = l[c + i]
  OBVIOUS
<1>2. g \in Seq(S) /\ Len(g) = p - c + 1 /\ \A i \in 1 .. p - c + 1 : g[i] = l[c + i]
  OBVIOUS
<1>3. l[p + 1] \in S
  OBVIOUS
<1> HIDE DEF f, g
<1>4. /\ h \in Seq(S) /\ Len(h) = p - c + 1 /\ h[p - c + 1] = l[p + 1]
      /\ \A i \in 1 .. p - c : h[i] = f[i]
  <2>1. /\ h \in Seq(S) /\ Len(h) = Len(f) + 1 /\ h[Len(f) + 1] = l[p + 1]
        /\ \A i \in 1 .. Len(f) : h[i] = f[i]
    BY <1>1, <1>3, AppendProperties
  <2> HIDE DEF h
  <2> QED BY <1>1, <2>1
<1> HIDE DEF h
<1>5. \A i \in 1 .. p - c + 1 : h[i] = g[i]
  <2> SUFFICES ASSUME NEW i \in 1 .. p - c + 1 PROVE h[i] = g[i]
    OBVIOUS
  <2>1. CASE i = p - c + 1
    <3>1. c + i = p + 1
      BY <2>1
    <3> QED BY <1>2, <1>4, <2>1, <3>1
  <2>2. CASE i # p - c + 1
    <3>1. i \in 1 .. p - c
      BY <2>2
    <3> QED BY <1>1, <1>2, <1>4, <3>1
  <2> QED BY <2>1, <2>2
<1>6. h = g
  BY <1>2, <1>4, <1>5, SeqEqual
<1> QED BY <1>6 DEF f, g, h

\* Next returns an entry.
LEMMA CursorNextKeepsSInv ==
    ASSUME SInv, CursorNext
    PROVE  SInv'
<1>1. /\ reading = "ready" /\ pending' = FALSE
      /\ \/ pending /\ UNCHANGED <<entry, before, rest>>
         \/ ~pending /\ rest # <<>> /\ Decode(rest[1])
      /\ reading' = (IF BadRecord THEN "refused" ELSE "ready")
      /\ got' = IF BadRecord THEN got ELSE Append(got, entry')
      /\ UNCHANGED writer /\ UNCHANGED <<target, at, loaded>>
  BY DEF CursorNext
<1>2. UNCHANGED <<file, index, added>>
  BY <1>1, SameFile
<1>3. CursorTyped /\ InBlock /\ Reading /\ loaded <= 2 /\ added \in Seq(Entry)
  BY <1>1 DEF SInv, SortedInv, ReadInv, SeekIsLocal
<1>4. Passed \in 0 .. Len(added) /\ Passed' = Passed
  BY <1>1, <1>2, PassedIsRight DEF Passed
<1>5. Pos \in 0 .. Len(added) /\ Len(added) \in Nat
  BY <1>1, PosIsAPlace
<1>6. CASE pending
  <2>1. ~BadRecord
    BY <1>6 DEF BadRecord
  <2>2. /\ UNCHANGED <<entry, before, rest>> /\ reading' = "ready" /\ got' = Append(got, entry)
    BY <1>1, <1>6, <2>1
  <2>3. Pos = Passed + 1 /\ got = <<>> /\ entry = added[Pos]
    BY <1>1, <1>3, <1>6 DEF Reading
  <2>4. Pos' = Pos /\ BlockOf(file, at)' = BlockOf(file, at)
    BY <1>1, <1>2, <2>2 DEF Pos, Upto, BlockOf
  <2>5. InBlock'
    BY <1>1, <1>2, <1>3, <2>2, <2>4 DEF InBlock
  <2>6. CursorTyped'
    BY <1>1, <1>3, <2>2 DEF CursorTyped
  <2>7. got' = SubSeq(added, Passed + 1, Pos)
    <3> HIDE DEF Pos, Passed
    <3>1. Append(SubSeq(added, Passed + 1, Passed), added[Passed + 1]) = SubSeq(added, Passed + 1, Passed + 1)
      <4>1. Passed \in Nat /\ Passed <= Passed /\ Passed + 1 <= Len(added)
        BY <1>4, <1>5, <2>3
      <4> QED BY <1>3, <4>1, OneMoreEntry
    <3>2. SubSeq(added, Passed + 1, Passed) = <<>>
      BY <1>3, <1>4, <1>5
    <3> QED BY <2>2, <2>3, <3>1, <3>2
  <2>8. Reading'
    <3>1. Pos' >= Passed'
      <4> HIDE DEF Pos, Passed
      <4> QED BY <1>4, <1>5, <2>3, <2>4
    <3> HIDE DEF Pos, Passed
    <3> QED BY <1>1, <1>2, <1>4, <2>2, <2>4, <2>7, <3>1 DEF Reading
  <2>9. Seeking'
    BY <2>2 DEF Seeking
  <2> QED BY <1>1, <1>3, <2>2, <2>5, <2>6, <2>8, <2>9, CursorMoves
<1>7. CASE ~pending
  <2>1. rest # <<>> /\ Decode(rest[1])
    BY <1>1, <1>7
  <2>10. ASSUME BadRecord PROVE SInv'
    <3>1. ~Decodable(rest[1])
      BY <2>10 DEF BadRecord
    <3>2. UNCHANGED <<entry, before, rest>> /\ reading' = "refused" /\ got' = got
      BY <1>1, <2>1, <2>10, <3>1 DEF Decode
    <3>3. Oversized
      BY <1>1, <2>1, <3>1, NextRecord DEF Oversized
    <3>4. CursorTyped'
      BY <1>1, <1>3, <3>2 DEF CursorTyped
    <3> QED BY <1>1, <1>7, <3>2, <3>3, <3>4, GiveUp
  <2> SUFFICES ASSUME ~BadRecord PROVE SInv'
    BY <2>10
  <2>2. ~BadRecord /\ Decodable(rest[1])
    BY <1>7, <2>1 DEF BadRecord
  <2>3. /\ entry' = added[Pos + 1] /\ Pos' = Pos + 1 /\ Pos + 1 \in 1 .. Len(added)
        /\ InBlock' /\ rest' \in Seq(Record) /\ before' \in Paths /\ entry' \in Entry
    BY <1>1, <2>1, <2>2, Decoded
  <2>4. reading' = "ready" /\ got' = Append(got, added[Pos + 1])
    BY <1>1, <2>2, <2>3
  <2>5. Pos >= Passed /\ got = SubSeq(added, Passed + 1, Pos)
    BY <1>1, <1>3, <1>7 DEF Reading
  <2>6. CursorTyped'
    BY <1>1, <1>3, <2>3, <2>4 DEF CursorTyped
  <2>7. got' = SubSeq(added, Passed + 1, Pos + 1)
    <3> HIDE DEF Pos, Passed
    <3>1. Passed \in Nat /\ Pos \in Nat /\ Passed <= Pos /\ Pos + 1 <= Len(added)
      BY <1>4, <1>5, <2>3, <2>5
    <3>2. Append(SubSeq(added, Passed + 1, Pos), added[Pos + 1]) = SubSeq(added, Passed + 1, Pos + 1)
      BY <1>3, <3>1, OneMoreEntry
    <3> QED BY <2>4, <2>5, <3>2
  <2>8. Reading'
    <3>1. Pos' >= Passed'
      <4> HIDE DEF Pos, Passed
      <4> QED BY <1>4, <1>5, <2>3, <2>5
    <3> HIDE DEF Pos, Passed
    <3> QED BY <1>1, <1>2, <1>4, <2>3, <2>4, <2>7, <3>1 DEF Reading
  <2>9. Seeking'
    BY <2>4 DEF Seeking
  <2> QED BY <1>1, <1>3, <2>3, <2>4, <2>6, <2>8, <2>9, CursorMoves
<1> QED BY <1>6, <1>7

-----------------------------------------------------------------------------
(* What holds of every state.                                              *)

LEMMA NextKeepsSInv == ASSUME SInv, [Next]_storeVars PROVE SInv'
<1>1. CASE \E e \in Entry : StoreAdd(e)
  BY <1>1, AddKeepsSInv
<1>2. CASE StoreClose
  BY <1>2, CloseKeepsSInv
<1>3. CASE Damage
  BY <1>3, DamageKeepsSInv
<1>4. CASE NewReader
  BY <1>4, NewReaderKeepsSInv
<1>5. CASE Verify
  BY <1>5, VerifyKeepsSInv
<1>6. CASE OpenCursor
  BY <1>6, OpenCursorKeepsSInv
<1>7. CASE \E p \in Key : Seek(p)
  BY <1>7, SeekKeepsSInv
<1>8. CASE ReadBlock
  BY <1>8, ReadBlockKeepsSInv
<1>9. CASE SeekStep
  BY <1>9, SeekStepKeepsSInv
<1>10. CASE CursorNext
  BY <1>10, CursorNextKeepsSInv
<1>11. CASE Eof
  BY <1>11, EofKeepsSInv
<1>12. CASE Over
  BY <1>12, Stutter DEF Over
<1>13. CASE UNCHANGED storeVars
  BY <1>13, Stutter
<1> QED BY <1>1, <1>2, <1>3, <1>4, <1>5, <1>6, <1>7, <1>8, <1>9, <1>10, <1>11, <1>12, <1>13 DEF Next

\* The file is, at every moment, what the writer has put in it or what damage has left
\* of that, with the entries in their order in its blocks and in the one Add is filling,
\* and the cursor stands between two of them (Add, flushBlock, Close, NewReader, Verify,
\* Seek, Next): the inductive invariant of the runs' properties.
THEOREM StoreInvariant == Spec => []SInv
<1> QED BY SInvInit, NextKeepsSInv, PTL DEF Spec

\* Offsets, counters, records and index entries are of the kinds the format has (Add,
\* flushBlock, Close, Next), and no more entries carry an error than were written.
THEOREM StoreTypeOK == Spec => []TypeOK
<1>1. SInv => TypeOK
  <2> SUFFICES ASSUME SInv PROVE TypeOK
    OBVIOUS
  <2> DEFINE S == {i \in 1 .. Len(added) : added[i].value \in Unreadable}
  <2>1. Written /\ CursorTyped
    BY DEF SInv, ReadInv
  <2>2. Len(added) \in Nat /\ entries = Len(added) /\ errors = Cardinality(S)
    BY <2>1 DEF Written
  <2>3. errors \in 0 .. entries
    <3>1. IsFiniteSet(1 .. Len(added)) /\ Cardinality(1 .. Len(added)) = Len(added)
      <4> DEFINE a == Len(added)
      <4>1. a \in Nat
        BY <2>2
      <4> HIDE DEF a
      <4>2. IsFiniteSet(1 .. a) /\ Cardinality(1 .. a) = IF 1 > a THEN 0 ELSE a - 1 + 1
        BY <4>1, FS_Interval
      <4>3. Cardinality(1 .. a) = a
        BY <4>1, <4>2
      <4> QED BY <4>2, <4>3 DEF a
    <3>2. S \subseteq 1 .. Len(added)
      OBVIOUS
    <3> HIDE DEF S
    <3>3. IsFiniteSet(S) /\ Cardinality(S) <= Cardinality(1 .. Len(added))
      BY <3>1, <3>2, FS_Subset
    <3>4. Cardinality(S) \in Nat
      BY <3>3, FS_CardinalityType
    <3> QED BY <2>2, <3>1, <3>3, <3>4
  <2>4. entries \in Nat
    BY <2>2
  <2> HIDE DEF S
  <2> QED BY <2>1, <2>3, <2>4 DEF TypeOK, Written, CursorTyped, Place
<1> QED BY <1>1, StoreInvariant, PTL

\* No file that was cut or altered, nor one whose writer failed before its end, passes
\* both NewReader and Verify: the magic, which is last, is gone, or the digest is not
\* that of what is above it.
THEOREM StoreDamageIsRefused == Spec => []DamageIsRefused
<1>1. SInv => DamageIsRefused
  BY DEF SInv, ReadInv
<1> QED BY <1>1, StoreInvariant, PTL

\* NewReader, Verify and the cursor accept every file that Close has sealed and nothing
\* has damaged, whatever was added, however it was cut into blocks, unless the metadata,
\* the index, a path or another text of an entry is beyond a limit of the reader, which
\* Add and Close do not look at.
THEOREM StoreNeverCorrupt == Spec => []NeverCorrupt
<1>1. SInv => NeverCorrupt
  BY DEF SInv, ReadInv
<1> QED BY <1>1, StoreInvariant, PTL

\* Seek reads two blocks at most, of however many the file has.
THEOREM StoreSeekIsLocal == Spec => []SeekIsLocal
<1>1. SInv => SeekIsLocal
  BY DEF SInv, ReadInv
<1> QED BY <1>1, StoreInvariant, PTL

\* A part of a sequence is the beginning of a longer one.
LEMMA PartIsPrefix ==
    ASSUME NEW S, NEW l \in Seq(S), NEW c \in 0 .. Len(l), NEW p \in c .. Len(l)
    PROVE  IsPrefix(SubSeq(l, c + 1, p), SubSeq(l, c + 1, Len(l)))
<1> DEFINE f == SubSeq(l, c + 1, p)
           g == SubSeq(l, c + 1, Len(l))
           h == SubSeq(g, 1, p - c)
           k == SubSeq(f, 1, p - c)
<1>1. f \in Seq(S) /\ Len(f) = p - c /\ \A i \in 1 .. p - c : f[i] = l[c + i]
  OBVIOUS
<1>2. g \in Seq(S) /\ Len(g) = Len(l) - c /\ \A i \in 1 .. Len(l) - c : g[i] = l[c + i]
  OBVIOUS
<1>3. p - c \in 0 .. Len(l) - c /\ Len(l) \in Nat /\ p - c \in Nat
  OBVIOUS
<1> HIDE DEF f, g
<1>4. h \in Seq(S) /\ Len(h) = p - c /\ \A i \in 1 .. p - c : h[i] = g[i]
  BY <1>2, <1>3
<1>5. k \in Seq(S) /\ Len(k) = p - c /\ \A i \in 1 .. p - c : k[i] = f[i]
  BY <1>1, <1>3
<1> HIDE DEF h, k
<1>6. ASSUME NEW i \in 1 .. p - c PROVE h[i] = k[i]
  <2>1. i \in 1 .. Len(l) - c
    BY <1>3
  <2>2. h[i] = g[i] /\ g[i] = l[c + i]
    BY <1>2, <1>4, <2>1
  <2>3. k[i] = f[i] /\ f[i] = l[c + i]
    BY <1>1, <1>5
  <2> QED BY <2>2, <2>3
<1>7. h = k
  BY <1>4, <1>5, <1>6, SeqEqual
<1>8. Len(f) <= Len(g)
  BY <1>1, <1>2, <1>3
<1>9. SubSeq(f, 1, Len(f)) = SubSeq(g, 1, Len(f))
  <2>1. SubSeq(f, 1, p - c) = SubSeq(g, 1, p - c)
    BY <1>7 DEF h, k
  <2> QED BY <1>1, <2>1
<1> QED BY <1>8, <1>9 DEF IsPrefix, f, g

\* What comes out of a cursor is what went into the writer, from the sought path on, and
\* all of it when io.EOF comes; and the counters of the footer are those of the entries.
THEOREM StoreReadsBack == Spec => []ReadsBack
<1>1. SInv => ReadsBack
  <2> SUFFICES ASSUME SInv PROVE ReadsBack
    OBVIOUS
  <2>1. Passed \in 0 .. Len(added) /\ Len(added) \in Nat /\ added \in Seq(Entry)
    BY PassedIsRight DEF SInv, SortedInv
  <2>2. IsPrefix(<<>>, Wanted)
    <3> DEFINE c == Passed
    <3> HIDE DEF c
    <3>1. c \in 0 .. Len(added) /\ c \in c .. Len(added)
      BY <2>1 DEF c
    <3>2. SubSeq(added, c + 1, c) = <<>>
      BY <2>1, <3>1
    <3>3. IsPrefix(SubSeq(added, c + 1, c), SubSeq(added, c + 1, Len(added)))
      BY <2>1, <3>1, PartIsPrefix
    <3> QED BY <3>2, <3>3 DEF Wanted, c
  <2>3. CASE reading \in {"ready", "eof"} /\ ~pending
    <3>1. Pos \in 0 .. Len(added) /\ Pos >= Passed /\ got = SubSeq(added, Passed + 1, Pos)
      BY <2>3, PosIsAPlace DEF SInv, ReadInv, Reading
    <3>2. IsPrefix(got, Wanted)
      <4> DEFINE c == Passed
                 p == Pos
      <4> HIDE DEF c, p
      <4>1. c \in 0 .. Len(added) /\ p \in c .. Len(added)
        BY <2>1, <3>1 DEF c, p
      <4>2. IsPrefix(SubSeq(added, c + 1, p), SubSeq(added, c + 1, Len(added)))
        BY <2>1, <4>1, PartIsPrefix
      <4> QED BY <3>1, <4>2 DEF Wanted, c, p
    <3>3. ASSUME reading = "eof"
          PROVE  /\ got = Wanted
                 /\ Footer.entries = Len(added)
                 /\ Footer.errors = Cardinality({i \in 1 .. Len(added) : added[i].value \in Unreadable})
      <4>1. Pos = Len(added)
        BY <3>3 DEF SInv, ReadInv, Reading
      <4>2. got = Wanted
        <5> HIDE DEF Pos, Passed
        <5> QED BY <3>1, <4>1 DEF Wanted
      <4>3. phase = "sealed" /\ ~Cut /\ ~Altered
        BY <3>3, CursorHasFile
      <4>4. Footer.entries = entries /\ Footer.errors = errors
        BY <4>3, WholeIndex
      <4> QED BY <4>2, <4>4 DEF SInv, Written
    <3> QED BY <3>2, <3>3 DEF ReadsBack
  <2>4. CASE reading # "refused" /\ ~(reading \in {"ready", "eof"} /\ ~pending)
    <3>1. reading # "eof"
      BY <2>4 DEF SInv, ReadInv, Reading
    <3>2. got = <<>>
      BY <2>4, <3>1 DEF SInv, ReadInv, CursorTyped, Untouched, Seeking, Reading
    <3> QED BY <2>2, <3>1, <3>2 DEF ReadsBack
  <2>5. CASE reading = "refused"
    <3> DEFINE c == Passed
    <3> HIDE DEF c
    <3>1. c \in 0 .. Len(added)
      BY <2>1 DEF c
    <3>2. got = <<>> \/ \E p \in c .. Len(added) : got = SubSeq(added, c + 1, p)
      BY <2>5 DEF SInv, ReadInv, GivenUp, c
    <3>3. IsPrefix(got, Wanted)
      BY <2>1, <2>2, <3>1, <3>2, PartIsPrefix DEF Wanted, c
    <3> QED BY <2>5, <3>3 DEF ReadsBack
  <2> QED BY <2>3, <2>4, <2>5
<1> QED BY <1>1, StoreInvariant, PTL
=============================================================================
