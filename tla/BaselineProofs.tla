--------------------------- MODULE BaselineProofs ---------------------------
(***************************************************************************)
(* A run of osfp baseline keeps the promise of Fingerprint, and compare    *)
(* can take up the perimeter it records: for any tree, patterns, roots and *)
(* outputs whose names are PlainNames.                                     *)
(***************************************************************************)
EXTENDS Baseline, CanonProofs, FiniteSetTheorems

-----------------------------------------------------------------------------
(* Recursion over the first numbers.                                       *)

\* S has 0, and with each number the next one.
Climbs(S, n) == 0 \in S /\ \A k \in 1 .. n : k - 1 \in S => k \in S

\* Then it has every number up to n.
LEMMA Climb ==
    ASSUME NEW n \in Nat, NEW S, Climbs(S, n)
    PROVE  \A k \in 0 .. n : k \in S
<1> DEFINE Out == {k \in 0 .. n : k \notin S}
<1>1. SUFFICES ASSUME Out # {} PROVE FALSE
  OBVIOUS
<1>2. PICK m \in Out : \A k \in Out : m <= k
  <2>1. Out \in SUBSET Nat
    OBVIOUS
  <2> HIDE DEF Out
  <2> QED BY <1>1, <2>1, LeastElement
<1>3. m \in 1 .. n /\ m \notin S
  BY DEF Climbs
<1>4. m - 1 \notin Out
  <2> HIDE DEF Out
  <2> QED BY <1>2, <1>3
<1> QED BY <1>3, <1>4 DEF Climbs

\* f takes a step from each number to the next one.
Follows(f, n, T, v, step) ==
    /\ f \in [0 .. n -> T]
    /\ f[0] = v
    /\ \A k \in 1 .. n : f[k] = step[<<f[k - 1], k>>]

\* There is one, if no step leaves T.
LEMMA Recursion ==
    ASSUME NEW n \in Nat, NEW T, NEW v \in T, NEW step \in [T \X (1 .. n) -> T]
    PROVE  \E f : Follows(f, n, T, v, step)
<1> DEFINE Solves(f, m) == Follows(f, m, T, v, step)
           S == {m \in Nat : m <= n => \E f : Solves(f, m)}
<1>1. 0 \in S
  <2>1. Solves([k \in 0 .. 0 |-> v], 0)
    BY DEF Follows
  <2> QED BY <2>1
<1>2. ASSUME NEW m \in 1 .. n, m - 1 \in S PROVE m \in S
  <2>1. PICK g : Solves(g, m - 1)
    BY <1>2
  <2> DEFINE h == [k \in 0 .. m |-> IF k = m THEN step[<<g[m - 1], m>>] ELSE g[k]]
  <2>2. g[m - 1] \in T /\ step[<<g[m - 1], m>>] \in T
    BY <2>1 DEF Follows
  <2>3. h \in [0 .. m -> T] /\ h[0] = v
    BY <2>1, <2>2 DEF Follows
  <2>4. ASSUME NEW k \in 1 .. m PROVE h[k] = step[<<h[k - 1], k>>]
    <3>1. CASE k = m
      <4>1. h[m] = step[<<g[m - 1], m>>] /\ h[m - 1] = g[m - 1]
        OBVIOUS
      <4> QED BY <3>1, <4>1
    <3>2. CASE k # m
      <4>1. k \in 1 .. m - 1 /\ h[k] = g[k] /\ h[k - 1] = g[k - 1]
        BY <3>2
      <4> QED BY <2>1, <4>1 DEF Follows
    <3> QED BY <3>1, <3>2
  <2>5. Solves(h, m)
    BY <2>3, <2>4 DEF Follows
  <2> HIDE DEF Solves
  <2> QED BY <2>5
<1>3. n \in S
  <2> HIDE DEF S
  <2>1. Climbs(S, n)
    BY <1>1, <1>2 DEF Climbs
  <2> QED BY <2>1, Climb
<1> QED BY <1>3

-----------------------------------------------------------------------------
(* filepath.Clean.                                                         *)

JoinedOne(q, name) == IF name \in {<<>>, <<Dot>>} THEN q ELSE q \o <<Slash>> \o name

\* The steps of Joined, which are paths.
LEMMA JoinedSteps ==
    ASSUME NEW x \in Seq(Paths)
    PROVE  \E f \in [0 .. Len(x) -> Paths] :
              /\ Joined(x) = f[Len(x)]
              /\ f[0] = <<>>
              /\ \A k \in 1 .. Len(x) : f[k] = JoinedOne(f[k - 1], x[k])
<1> DEFINE n == Len(x)
           Rec(f) == f = [k \in 0 .. n |->
                            IF k = 0 THEN <<>>
                            ELSE IF x[k] \in {<<>>, <<Dot>>} THEN f[k - 1]
                            ELSE f[k - 1] \o <<Slash>> \o x[k]]
           step == [vk \in Paths \X (1 .. n) |-> JoinedOne(vk[1], x[vk[2]])]
           g == CHOOSE f : Rec(f)
<1>1. n \in Nat /\ <<>> \in Paths
  BY DEF Paths
<1>2. \A q \in Paths, k \in 1 .. n : JoinedOne(q, x[k]) \in Paths
  BY CanonAssumption DEF JoinedOne, Paths
<1>3. step \in [Paths \X (1 .. n) -> Paths]
  BY <1>2
<1>4. PICK f : Follows(f, n, Paths, <<>>, step)
  <2> HIDE DEF n, step
  <2> QED BY <1>1, <1>3, Recursion
<1>5. Rec(f)
  <2>1. ASSUME NEW k \in 0 .. n PROVE f[k] = IF k = 0 THEN <<>> ELSE JoinedOne(f[k - 1], x[k])
    <3>1. CASE k = 0
      BY <1>4, <3>1 DEF Follows
    <3>2. CASE k # 0
      <4>1. f[k - 1] \in Paths /\ k \in 1 .. n
        BY <1>1, <1>4, <3>2 DEF Follows
      <4>2. f[k] = step[<<f[k - 1], k>>]
        BY <1>4, <4>1 DEF Follows
      <4> QED BY <3>2, <4>1, <4>2
    <3> QED BY <3>1, <3>2
  <2>2. f = [k \in 0 .. n |-> f[k]]
    BY <1>4 DEF Follows
  <2> HIDE DEF n
  <2> QED BY <2>1, <2>2 DEF JoinedOne
<1>6. Rec(g)
  BY <1>5
<1>7. Joined(x) = g[n]
  BY DEF Joined
<1> HIDE DEF g
<1>8. /\ g[0] = <<>>
      /\ \A k \in 1 .. n : g[k] = JoinedOne(g[k - 1], x[k])
  BY <1>1, <1>6 DEF JoinedOne
<1>9. \A k \in 0 .. n : g[k] \in Paths
  <2> DEFINE S == {k \in 0 .. n : g[k] \in Paths}
  <2>1. Climbs(S, n)
    <3>1. 0 \in S
      BY <1>1, <1>8
    <3>2. ASSUME NEW k \in 1 .. n, k - 1 \in S PROVE k \in S
      <4>1. g[k] = JoinedOne(g[k - 1], x[k]) /\ g[k - 1] \in Paths
        BY <1>8, <3>2
      <4>2. JoinedOne(g[k - 1], x[k]) \in Paths
        BY <1>2, <4>1
      <4> HIDE DEF n
      <4> QED BY <1>1, <4>1, <4>2
    <3> HIDE DEF S
    <3> QED BY <3>1, <3>2 DEF Climbs
  <2>2. \A k \in 0 .. n : k \in S
    <3> HIDE DEF S, n
    <3> QED BY <1>1, <2>1, Climb
  <2> QED BY <2>2
<1>10. g \in [0 .. n -> Paths]
  BY <1>6, <1>9
<1> QED BY <1>7, <1>8, <1>10

\* Clean makes a path of a path.
LEMMA CleanTyped == ASSUME NEW p \in Paths PROVE Clean(p) \in Paths
<1>1. Names(p) \in Seq(Paths)
  BY NamesTyped DEF SomeNames
<1>2. Joined(Names(p)) \in Paths
  <2>1. PICK f \in [0 .. Len(Names(p)) -> Paths] : Joined(Names(p)) = f[Len(Names(p))]
    BY <1>1, JoinedSteps
  <2> QED BY <1>1, <2>1
<1>3. <<Slash>> \in Paths /\ <<Dot>> \in Paths
  BY CanonAssumption, ExcludeAssumption DEF Paths
<1>4. \A q \in Paths : q # <<>> => Tail(q) \in Paths
  BY DEF Paths
<1> QED BY <1>2, <1>3, <1>4 DEF Clean

\* z is y with an empty name at m.
Inserted(y, z, m) ==
    /\ m \in 1 .. Len(z)
    /\ Len(z) = Len(y) + 1
    /\ z[m] = <<>>
    /\ \A j \in 1 .. m - 1 : z[j] = y[j]
    /\ \A j \in m .. Len(y) : z[j + 1] = y[j]

\* It joins as y does.
LEMMA InsertedJoins ==
    ASSUME NEW y \in Seq(Paths), NEW z \in Seq(Paths), NEW m, Inserted(y, z, m)
    PROVE  Joined(z) = Joined(y)
<1>1. PICK f \in [0 .. Len(y) -> Paths] :
         /\ Joined(y) = f[Len(y)]
         /\ f[0] = <<>>
         /\ \A k \in 1 .. Len(y) : f[k] = JoinedOne(f[k - 1], y[k])
  BY JoinedSteps
<1>2. PICK g \in [0 .. Len(z) -> Paths] :
         /\ Joined(z) = g[Len(z)]
         /\ g[0] = <<>>
         /\ \A k \in 1 .. Len(z) : g[k] = JoinedOne(g[k - 1], z[k])
  BY JoinedSteps
<1>3. Len(y) \in Nat /\ Len(z) = Len(y) + 1 /\ m \in 1 .. Len(z)
  BY DEF Inserted
<1>4. g[m] = g[m - 1]
  BY <1>2, <1>3 DEF Inserted, JoinedOne
<1> DEFINE S == {k \in 0 .. Len(y) : /\ k < m => g[k] = f[k]
                                     /\ k >= m - 1 => g[k + 1] = f[k]}
<1>5. 0 \in S
  BY <1>1, <1>2, <1>3, <1>4
<1>6. ASSUME NEW k \in 1 .. Len(y), k - 1 \in S PROVE k \in S
  <2>1. CASE k < m
    <3>1. g[k] = JoinedOne(g[k - 1], z[k]) /\ z[k] = y[k] /\ g[k - 1] = f[k - 1]
      BY <1>2, <1>3, <1>6, <2>1 DEF Inserted
    <3>2. g[k] = f[k]
      BY <1>1, <3>1
    <3>3. k >= m - 1 => k = m - 1 /\ k + 1 = m
      BY <1>3, <2>1
    <3>4. k >= m - 1 => g[k + 1] = f[k]
      BY <1>4, <3>2, <3>3
    <3> QED BY <3>2, <3>4
  <2>2. CASE k >= m
    <3>1. g[k + 1] = JoinedOne(g[k], z[k + 1]) /\ z[k + 1] = y[k] /\ g[k] = f[k - 1]
      <4>1. k - 1 >= m - 1 /\ (k - 1) + 1 = k /\ (k + 1) - 1 = k /\ k + 1 \in 1 .. Len(z)
        BY <1>3, <2>2
      <4>2. g[k + 1] = JoinedOne(g[k], z[k + 1])
        BY <1>2, <4>1
      <4>3. g[k] = f[k - 1]
        BY <1>6, <4>1
      <4>4. z[k + 1] = y[k]
        BY <1>3, <2>2 DEF Inserted
      <4> QED BY <4>2, <4>3, <4>4
    <3> QED BY <1>1, <1>3, <2>2, <3>1
  <2> QED BY <1>3, <2>1, <2>2
<1>7. Len(y) \in S
  <2> HIDE DEF S
  <2>1. Climbs(S, Len(y))
    BY <1>5, <1>6 DEF Climbs
  <2> QED BY <1>3, <2>1, Climb
<1> QED BY <1>1, <1>2, <1>3, <1>7

\* A further byte leaves the empty name where it is, unless it is the last one.
LEMMA InsertedByte ==
    ASSUME NEW y \in SomeNames, NEW z \in SomeNames, NEW m, Inserted(y, z, m), m < Len(z),
           NEW c \in Byte
    PROVE  Inserted(WithByte(y, c), WithByte(z, c), m) /\ m < Len(WithByte(z, c))
<1>1. y \in Seq(Paths) /\ z \in Seq(Paths) /\ Len(y) \in Nat /\ Len(z) = Len(y) + 1 /\ m \in 1 .. Len(z)
  BY DEF SomeNames, Inserted
<1>2. CASE c = Slash
  <2> DEFINE v == WithByte(y, c)
             w == WithByte(z, c)
  <2>1. v = Append(y, <<>>) /\ w = Append(z, <<>>)
    BY <1>2 DEF WithByte
  <2>2. Len(v) = Len(y) + 1 /\ Len(w) = Len(z) + 1
    BY <1>1, <2>1
  <2>3. /\ \A j \in 1 .. Len(v) : v[j] = IF j = Len(v) THEN <<>> ELSE y[j]
        /\ \A j \in 1 .. Len(w) : w[j] = IF j = Len(w) THEN <<>> ELSE z[j]
    <3>1. \A x \in Seq(Paths) : \A j \in 1 .. Len(x) + 1 :
             Append(x, <<>>)[j] = IF j = Len(x) + 1 THEN <<>> ELSE x[j]
      OBVIOUS
    <3> HIDE DEF v, w
    <3> QED BY <1>1, <2>1, <2>2, <3>1
  <2> HIDE DEF v, w
  <2>4. /\ m \in 1 .. Len(w) /\ Len(w) = Len(v) + 1 /\ w[m] = <<>>
        /\ \A j \in 1 .. m - 1 : w[j] = v[j]
    BY <1>1, <2>2, <2>3 DEF Inserted
  <2>5. ASSUME NEW j \in m .. Len(v) PROVE w[j + 1] = v[j]
    <3>1. CASE j = Len(v)
      BY <1>1, <2>2, <2>3, <3>1
    <3>2. CASE j < Len(v)
      BY <1>1, <2>2, <2>3, <3>2 DEF Inserted
    <3> QED BY <1>1, <2>2, <3>1, <3>2
  <2>6. Inserted(v, w, m) /\ m < Len(w)
    BY <1>1, <2>2, <2>4, <2>5 DEF Inserted
  <2> QED BY <2>6 DEF v, w
<1>3. CASE c # Slash
  <2> DEFINE v == WithByte(y, c)
             w == WithByte(z, c)
  <2>1. v = [y EXCEPT ![Len(y)] = Append(@, c)] /\ w = [z EXCEPT ![Len(z)] = Append(@, c)]
    BY <1>3 DEF WithByte
  <2>2. Len(v) = Len(y) /\ Len(w) = Len(z)
    BY <1>1, <2>1
  <2>3. /\ \A j \in 1 .. Len(y) : v[j] = IF j = Len(y) THEN Append(y[j], c) ELSE y[j]
        /\ \A j \in 1 .. Len(z) : w[j] = IF j = Len(z) THEN Append(z[j], c) ELSE z[j]
    BY <1>1, <2>1
  <2> HIDE DEF v, w
  <2>4. /\ m \in 1 .. Len(w) /\ Len(w) = Len(v) + 1 /\ w[m] = <<>>
        /\ \A j \in 1 .. m - 1 : w[j] = v[j]
    BY <1>1, <2>2, <2>3 DEF Inserted
  <2>5. ASSUME NEW j \in m .. Len(v) PROVE w[j + 1] = v[j]
    <3>1. j \in 1 .. Len(y) /\ j + 1 \in 1 .. Len(z) /\ (j + 1 = Len(z) <=> j = Len(y))
      BY <1>1, <2>2
    <3>2. z[j + 1] = y[j]
      BY <2>2 DEF Inserted
    <3> QED BY <2>3, <3>1, <3>2
  <2>6. Inserted(v, w, m) /\ m < Len(w)
    BY <1>1, <2>2, <2>4, <2>5 DEF Inserted
  <2> QED BY <2>6 DEF v, w
<1> QED BY <1>2, <1>3

\* q is p with its slash at s twice.
Doubled(p, q, s) ==
    /\ p[s] = Slash
    /\ Len(q) = Len(p) + 1
    /\ \A j \in 1 .. s : q[j] = p[j]
    /\ \A j \in s .. Len(p) : q[j + 1] = p[j]

\* A slash after another one goes.
LEMMA SlashTwice ==
    ASSUME NEW p \in Paths, NEW q \in Paths, NEW s \in 1 .. Len(p), Doubled(p, q, s)
    PROVE  Clean(q) = Clean(p)
<1>1. PICK f : /\ Names(p) = f[Len(p)]
               /\ f[0] = <<<<>>>>
               /\ \A k \in 1 .. Len(p) : f[k] = WithByte(f[k - 1], p[k])
  BY NamesOfPath
<1>2. PICK g : /\ Names(q) = g[Len(q)]
               /\ g[0] = <<<<>>>>
               /\ \A k \in 1 .. Len(q) : g[k] = WithByte(g[k - 1], q[k])
  BY NamesOfPath
<1>3. /\ \A k \in 0 .. Len(p) : f[k] \in SomeNames
      /\ \A k \in 0 .. Len(q) : g[k] \in SomeNames
  BY <1>1, <1>2, SplitContinues
<1>4. Len(p) \in Nat /\ s \in Nat /\ \A k \in 1 .. Len(p) : p[k] \in Byte
  BY BytesOfPath
<1>0. Len(q) = Len(p) + 1 /\ p[s] = Slash /\ q[1] = p[1]
  BY <1>4 DEF Doubled
<1>5. f[s] = g[s]
  <2>1. s <= Len(p) /\ s <= Len(q) /\ \A j \in 1 .. s : p[j] = q[j]
    BY <1>4 DEF Doubled
  <2> QED BY <1>1, <1>2, <1>4, <2>1, SameSplit
<1> DEFINE x == f[s]
           m == Len(x)
           S == {k \in 0 .. Len(p) : k >= s => /\ Inserted(f[k], g[k + 1], m)
                                               /\ m < Len(g[k + 1])}
<1>6. Inserted(x, g[s + 1], m) /\ m < Len(g[s + 1])
  <2>1. x = Append(f[s - 1], <<>>)
    BY <1>0, <1>1, <1>4 DEF WithByte
  <2>2. f[s - 1] \in Seq(Paths) /\ Len(f[s - 1]) \in Nat /\ <<>> \in Paths
    BY <1>3, <1>4 DEF SomeNames, Paths
  <2>3. g[s + 1] = Append(x, <<>>)
    <3>1. s + 1 \in 1 .. Len(q) /\ (s + 1) - 1 = s /\ s \in s .. Len(p)
      BY <1>0, <1>4
    <3>2. q[s + 1] = Slash
      BY <3>1 DEF Doubled
    <3>3. g[s + 1] = WithByte(g[s], q[s + 1])
      BY <1>2, <3>1
    <3> QED BY <1>5, <3>2, <3>3 DEF WithByte
  <2>4. x \in Seq(Paths) /\ m \in Nat \ {0} /\ x[m] = <<>>
    BY <2>1, <2>2
  <2> HIDE DEF x
  <2> QED BY <2>3, <2>4 DEF Inserted
<1>7. 0 \in S
  BY <1>4
<1>8. ASSUME NEW k \in 1 .. Len(p), k - 1 \in S PROVE k \in S
  <2>1. CASE k = s
    BY <1>6, <2>1
  <2>2. CASE k > s
    <3>1. Inserted(f[k - 1], g[k], m) /\ m < Len(g[k])
      BY <1>4, <1>8, <2>2
    <3>2. f[k] = WithByte(f[k - 1], p[k]) /\ g[k + 1] = WithByte(g[k], p[k])
      <4>1. q[k + 1] = p[k] /\ k + 1 \in 1 .. Len(q) /\ (k + 1) - 1 = k
        BY <1>0, <1>4, <2>2 DEF Doubled
      <4>2. g[k + 1] = WithByte(g[k], q[k + 1])
        BY <1>2, <4>1
      <4> QED BY <1>1, <4>1, <4>2
    <3>3. f[k - 1] \in SomeNames /\ g[k] \in SomeNames
      BY <1>0, <1>3, <1>4
    <3> HIDE DEF m
    <3> QED BY <1>4, <3>1, <3>2, <3>3, InsertedByte
  <2> QED BY <1>4, <2>1, <2>2
<1>9. Inserted(Names(p), Names(q), m)
  <2>1. Len(p) \in S
    <3> HIDE DEF S
    <3>1. Climbs(S, Len(p))
      BY <1>7, <1>8 DEF Climbs
    <3> QED BY <1>4, <3>1, Climb
  <2> QED BY <1>0, <1>1, <1>2, <1>4, <2>1
<1>10. Joined(Names(q)) = Joined(Names(p))
  <2>1. Names(p) \in Seq(Paths) /\ Names(q) \in Seq(Paths)
    BY NamesTyped DEF SomeNames
  <2> HIDE DEF m
  <2> QED BY <1>9, <2>1, InsertedJoins
<1>11. Absolute(q) <=> Absolute(p)
  BY <1>0, <1>4 DEF Absolute, Paths
<1> QED BY <1>10, <1>11 DEF Clean

\* A slash at the end goes.
LEMMA SlashAtEnd ==
    ASSUME NEW p \in Paths, p # <<>>
    PROVE  Clean(p \o <<Slash>>) = Clean(p)
<1> DEFINE q == p \o <<Slash>>
<1>1. q \in Paths /\ Len(q) = Len(p) + 1 /\ Len(p) \in Nat /\ q[Len(q)] = Slash
      /\ \A j \in 1 .. Len(p) : q[j] = p[j]
  BY CanonAssumption DEF Paths
<1> HIDE DEF q
<1>2. PICK f : /\ Names(p) = f[Len(p)]
               /\ f[0] = <<<<>>>>
               /\ \A k \in 1 .. Len(p) : f[k] = WithByte(f[k - 1], p[k])
  BY NamesOfPath
<1>3. PICK g : /\ Names(q) = g[Len(q)]
               /\ g[0] = <<<<>>>>
               /\ \A k \in 1 .. Len(q) : g[k] = WithByte(g[k - 1], q[k])
  BY <1>1, NamesOfPath
<1>4. f[Len(p)] = g[Len(p)]
  BY <1>1, <1>2, <1>3, SameSplit
<1>5. Names(q) = Append(Names(p), <<>>)
  <2>1. Len(p) + 1 \in 1 .. Len(q) /\ (Len(p) + 1) - 1 = Len(p)
    BY <1>1
  <2>2. g[Len(p) + 1] = WithByte(g[Len(p)], q[Len(p) + 1])
    BY <1>3, <2>1
  <2> QED BY <1>1, <1>2, <1>3, <1>4, <2>2 DEF WithByte
<1>6. Names(p) \in Seq(Paths) /\ Names(q) \in Seq(Paths)
  BY <1>1, NamesTyped DEF SomeNames
<1>7. Inserted(Names(p), Names(q), Len(Names(p)) + 1)
  BY <1>5, <1>6 DEF Inserted
<1>8. Joined(Names(q)) = Joined(Names(p))
  BY <1>6, <1>7, InsertedJoins
<1>9. Absolute(q) <=> Absolute(p)
  BY <1>1 DEF Absolute, Paths
<1> QED BY <1>8, <1>9 DEF Clean, q

-----------------------------------------------------------------------------
(* The path the walk makes.                                                *)

\* Under a root given as it is, the walk comes to each path by its own name.
LEMMA PathAsItself ==
    ASSUME NEW r \in [given: Paths, real: Paths], r.given = r.real, Absolute(r.real),
           NEW p \in Paths, Clean(p) = p, p = r.real \/ Below(p, r.real)
    PROVE  PathAs(r, p) = p
<1> DEFINE R    == r.real
           l    == Len(R)
           rest == SubSeq(p, l + 1, Len(p))
           q    == R \o <<Slash>> \o rest
<1>1. R \in Paths /\ l \in Nat \ {0} /\ R[1] = Slash /\ Len(p) \in Nat
  BY DEF Paths, Absolute
<1>2. l <= Len(p) /\ \A j \in 1 .. l : R[j] = p[j]
  BY <1>1 DEF Below, Prefix
<1>3. rest \in Paths /\ Len(rest) = Len(p) - l /\ \A j \in 1 .. Len(p) - l : rest[j] = p[l + j]
  BY <1>1, <1>2 DEF Paths
<1> HIDE DEF rest
<1>4. /\ q \in Paths /\ Len(q) = Len(p) + 1
      /\ \A j \in 1 .. l : q[j] = p[j]
      /\ q[l + 1] = Slash
      /\ \A j \in 1 .. Len(p) - l : q[l + 1 + j] = p[l + j]
  <2> DEFINE a == R \o <<Slash>>
  <2>0. /\ a \in Seq(Byte) /\ Len(a) = l + 1 /\ a[l + 1] = Slash
        /\ \A j \in 1 .. l : a[j] = R[j]
    BY <1>1, CanonAssumption DEF Paths
  <2>1. q \in Paths /\ Len(q) = l + 1 + Len(rest)
    <3> HIDE DEF a, R, l
    <3>1. a \o rest \in Seq(Byte) /\ Len(a \o rest) = Len(a) + Len(rest)
      BY <1>3, <2>0, ConcatProperties DEF Paths
    <3> QED BY <2>0, <3>1 DEF Paths, a
  <2>2. \A j \in 1 .. Len(q) : q[j] = IF j <= l + 1 THEN a[j] ELSE rest[j - (l + 1)]
    BY <1>1, <1>3, <2>0 DEF Paths
  <2> HIDE DEF q, a
  <2>3. ASSUME NEW j \in 1 .. Len(p) - l PROVE q[l + 1 + j] = p[l + j]
    <3>1. l + 1 + j \in 1 .. Len(q) /\ (l + 1 + j) - (l + 1) = j
      BY <1>1, <1>3, <2>1
    <3>2. q[l + 1 + j] = rest[j]
      BY <1>1, <2>2, <3>1
    <3> QED BY <1>3, <3>2
  <2>4. l + 1 \in 1 .. Len(q) /\ \A j \in 1 .. l : j \in 1 .. Len(q)
    BY <1>1, <1>3, <2>1
  <2>5. q[l + 1] = Slash /\ \A j \in 1 .. l : q[j] = p[j]
    BY <1>1, <1>2, <2>0, <2>2, <2>4
  <2> QED BY <1>1, <1>2, <1>3, <2>1, <2>3, <2>5
<1>5. PathAs(r, p) = Clean(q)
  BY DEF PathAs, rest
<1>6. CASE p = R /\ R # <<Slash>>
  <2>1. rest = <<>>
    BY <1>1, <1>3, <1>6
  <2>2. q = p \o <<Slash>>
    BY <1>1, <1>6, <2>1 DEF Paths
  <2>3. p # <<>>
    BY <1>1, <1>6
  <2> HIDE DEF q
  <2> QED BY <1>5, <2>2, <2>3, SlashAtEnd
<1>7. CASE R = <<Slash>>
  <2>1. l = 1 /\ p[1] = Slash
    BY <1>2, <1>7
  <2> HIDE DEF q, R, l
  <2>2. ASSUME NEW j \in 1 .. Len(p) PROVE q[j + 1] = p[j]
    <3>1. CASE j = 1
      BY <1>4, <2>1, <3>1
    <3>2. CASE j > 1
      <4>1. j - 1 \in 1 .. Len(p) - l /\ l + 1 + (j - 1) = j + 1 /\ l + (j - 1) = j
        BY <1>1, <2>1, <3>2
      <4> QED BY <1>4, <4>1
    <3> QED BY <3>1, <3>2
  <2>3. Doubled(p, q, 1)
    BY <1>1, <1>4, <2>1, <2>2 DEF Doubled
  <2>4. 1 \in 1 .. Len(p)
    BY <1>1, <1>2, <2>1
  <2> QED BY <1>4, <1>5, <2>3, <2>4, SlashTwice
<1>8. CASE p # R /\ R # <<Slash>>
  <2>1. l < Len(p) /\ p[l + 1] = Slash
    BY <1>8 DEF Below
  <2> HIDE DEF q, R, l
  <2>2. ASSUME NEW j \in l + 1 .. Len(p) PROVE q[j + 1] = p[j]
    <3>1. j - l \in 1 .. Len(p) - l /\ l + 1 + (j - l) = j + 1 /\ l + (j - l) = j
      BY <1>1
    <3> QED BY <1>4, <3>1
  <2>3. ASSUME NEW j \in 1 .. l + 1 PROVE q[j] = p[j]
    BY <1>1, <1>4, <2>1
  <2>4. Doubled(p, q, l + 1)
    BY <1>4, <2>1, <2>2, <2>3 DEF Doubled
  <2>5. l + 1 \in 1 .. Len(p)
    BY <1>1, <2>1
  <2> QED BY <1>4, <1>5, <2>4, <2>5, SlashTwice
<1> QED BY <1>6, <1>7, <1>8

\* Whatever the root, it is a path.
LEMMA PathAsTyped ==
    ASSUME NEW r \in [given: Paths, real: Paths], NEW p \in Paths
    PROVE  PathAs(r, p) \in Paths
<1> DEFINE a    == r.given \o <<Slash>>
           rest == SubSeq(p, Len(r.real) + 1, Len(p))
<1>1. a \in Seq(Byte)
  BY CanonAssumption DEF Paths
<1>2. rest \in Seq(Byte)
  BY DEF Paths
<1>3. a \o rest \in Paths
  <2> HIDE DEF a, rest
  <2> QED BY <1>1, <1>2, ConcatProperties DEF Paths
<1> QED BY <1>3, CleanTyped DEF PathAs

-----------------------------------------------------------------------------
(* The order of the walk.                                                  *)

\* A walk takes paths in the order of CompareKey.
LEMMA NamesLessIsLess ==
    ASSUME NEW p \in Paths, NEW q \in Paths
    PROVE  NamesLess(p, q) <=> Less(p, q)
<1>1. ASSUME NamesLess(p, q) PROVE p # q /\ ~Less(q, p)
  BY <1>1, LessNames, NamesLessAsymmetric
<1> QED BY <1>1, LessNames, LessTotal

\* The rank of a path in a set: how many come before it.
Before(S, p) == {q \in S : <<q, p>> \in {pq \in S \X S : NamesLess(pq[1], pq[2])}}

LEMMA RankOrder ==
    ASSUME NEW S \in SUBSET Paths, IsFiniteSet(S)
    PROVE  /\ \A p \in S : Cardinality(Before(S, p)) \in 0 .. Cardinality(S) - 1
           /\ \A p, q \in S : Less(p, q) => Cardinality(Before(S, p)) < Cardinality(Before(S, q))
<1>0. \A p \in S : \A q : q \in Before(S, p) <=> q \in S /\ NamesLess(q, p)
  BY DEF Before
<1>1. \A p \in S : /\ Before(S, p) \subseteq S
                   /\ IsFiniteSet(Before(S, p)) /\ Cardinality(Before(S, p)) \in Nat
                   /\ Cardinality(Before(S, p)) <= Cardinality(S)
  <2>1. \A p \in S : Before(S, p) \subseteq S
    BY <1>0
  <2> QED BY <2>1, FS_Subset, FS_CardinalityType
<1>2. Cardinality(S) \in Nat
  BY FS_CardinalityType
<1>3. \A p \in S : p \notin Before(S, p)
  BY <1>0, NamesLessAsymmetric
<1>4. ASSUME NEW p \in S PROVE Cardinality(Before(S, p)) # Cardinality(S)
  <2>1. Before(S, p) # S
    BY <1>3
  <2> QED BY <1>1, <2>1, FS_Subset
<1>5. ASSUME NEW p \in S, NEW q \in S, Less(p, q)
      PROVE  Cardinality(Before(S, p)) < Cardinality(Before(S, q))
  <2>1. ASSUME NEW x \in Before(S, p) PROVE x \in Before(S, q)
    <3>1. x \in Paths /\ p \in Paths /\ q \in Paths /\ x \in S /\ NamesLess(x, p)
      BY <1>0
    <3>2. Less(x, p)
      BY <3>1, NamesLessIsLess
    <3>3. Less(x, q)
      BY <1>5, <3>1, <3>2, LessTransitive
    <3> QED BY <1>0, <3>1, <3>3, NamesLessIsLess
  <2>2. p \in Before(S, q)
    BY <1>0, <1>5, LessNames
  <2>3. Before(S, p) \subseteq Before(S, q) /\ Before(S, p) # Before(S, q)
    BY <1>3, <2>1, <2>2
  <2>4. Cardinality(Before(S, p)) <= Cardinality(Before(S, q))
        /\ Cardinality(Before(S, p)) # Cardinality(Before(S, q))
    BY <1>1, <2>3, FS_Subset
  <2> QED BY <1>1, <2>4
<1> QED BY <1>1, <1>2, <1>4, <1>5

\* The paths of S, as a walk takes them.
InWalkOrder(S) == Sorted(S, {pq \in S \X S : NamesLess(pq[1], pq[2])})

\* Each path of a finite set comes once, and the lesser one first.
LEMMA WalkOrderLists ==
    ASSUME NEW S \in SUBSET Paths, IsFiniteSet(S)
    PROVE  /\ InWalkOrder(S) \in Seq(S)
           /\ Len(InWalkOrder(S)) = Cardinality(S)
           /\ \A i, j \in 1 .. Len(InWalkOrder(S)) :
                 i < j => Less(InWalkOrder(S)[i], InWalkOrder(S)[j])
           /\ \A p \in S : \E i \in 1 .. Len(InWalkOrder(S)) : InWalkOrder(S)[i] = p
<1> DEFINE n == Cardinality(S)
           rank(p) == Cardinality(Before(S, p))
           f == [p \in S |-> rank(p)]
           o == InWalkOrder(S)
<1>1. n \in Nat
  BY FS_CardinalityType
<1>2. /\ \A p \in S : rank(p) \in 0 .. n - 1
      /\ \A p, q \in S : Less(p, q) => rank(p) < rank(q)
  BY RankOrder
<1>3. ASSUME NEW p \in S, NEW q \in S, rank(p) = rank(q) PROVE p = q
  <2>1. p # q => Less(p, q) \/ Less(q, p)
    BY LessTotal
  <2>2. rank(p) \in Int /\ rank(q) \in Int
    BY <1>1, <1>2
  <2> QED BY <1>2, <1>3, <2>1, <2>2
<1>4. \A i \in 1 .. n : \E p \in S : rank(p) = i - 1
  <2> HIDE DEF rank
  <2>1. f \in Injection(S, 0 .. n - 1)
    BY <1>2, <1>3 DEF Injection, IsInjective
  <2>2. IsFiniteSet(0 .. n - 1) /\ Cardinality(0 .. n - 1) = n
    BY <1>1, FS_Interval
  <2>3. f \in Surjection(S, 0 .. n - 1)
    <3> HIDE DEF f
    <3> QED BY <2>1, <2>2, FS_Injection
  <2>4. \A i \in 0 .. n - 1 : \E p \in S : rank(p) = i
    BY <2>3 DEF Surjection
  <2> QED BY <1>1, <2>4
<1>5. o = [i \in 1 .. n |-> CHOOSE p \in S : rank(p) = i - 1]
  BY DEF InWalkOrder, Sorted, Before
<1> HIDE DEF rank
<1>6. \A i \in 1 .. n : o[i] \in S /\ rank(o[i]) = i - 1
  BY <1>4, <1>5
<1>7. o \in Seq(S) /\ Len(o) = n
  <2>1. o \in [1 .. n -> S]
    BY <1>5, <1>6
  <2> HIDE DEF o
  <2> QED BY <1>1, <2>1
<1> HIDE DEF n, f, o
<1>8. ASSUME NEW i \in 1 .. n, NEW j \in 1 .. n, i < j PROVE Less(o[i], o[j])
  <2>1. o[i] \in S /\ o[j] \in S /\ rank(o[i]) = i - 1 /\ rank(o[j]) = j - 1
    BY <1>6
  <2>2. ~Less(o[j], o[i])
    <3>1. Less(o[j], o[i]) => rank(o[j]) < rank(o[i])
      BY <1>2, <2>1
    <3> QED BY <1>1, <1>8, <2>1, <3>1
  <2>3. o[i] # o[j]
    BY <1>1, <1>8, <2>1
  <2>4. o[i] \in Paths /\ o[j] \in Paths
    BY <2>1
  <2> QED BY <2>2, <2>3, <2>4, LessTotal
<1>9. ASSUME NEW p \in S PROVE \E i \in 1 .. n : o[i] = p
  <2> DEFINE k == rank(p) + 1
  <2>1. k \in 1 .. n /\ k - 1 = rank(p)
    BY <1>1, <1>2
  <2> HIDE DEF k
  <2>2. o[k] \in S /\ rank(o[k]) = rank(p)
    BY <1>6, <2>1
  <2> QED BY <1>3, <2>1, <2>2
<1> QED BY <1>7, <1>8, <1>9 DEF n, o

-----------------------------------------------------------------------------
(* A pattern, trimmed.                                                     *)

\* The least and the greatest of some indices.
LEMMA Extremes ==
    ASSUME NEW n \in Nat, NEW S \in SUBSET (1 .. n), S # {}
    PROVE  /\ Min(S) \in S /\ Max(S) \in S
           /\ \A i \in S : Min(S) <= i /\ i <= Max(S)
<1>1. \E m \in S : \A i \in S : m <= i
  <2>1. S \in SUBSET Nat
    OBVIOUS
  <2> QED BY <2>1, LeastElement
<1>2. \E m \in S : \A i \in S : m >= i
  <2> DEFINE T == {n - i : i \in S}
  <2>1. T \in SUBSET Nat /\ T # {}
    <3>1. \A i \in S : n - i \in Nat
      OBVIOUS
    <3>2. \E i \in S : TRUE
      OBVIOUS
    <3> QED BY <3>1, <3>2
  <2>2. PICK k \in T : \A j \in T : k <= j
    <3> HIDE DEF T
    <3> QED BY <2>1, LeastElement
  <2>3. PICK m \in S : k = n - m
    BY <2>2
  <2>4. \A i \in S : n - m <= n - i
    BY <2>2, <2>3
  <2>5. \A i \in S : m >= i
    BY <2>4
  <2> QED BY <2>5
<1>3. Min(S) \in S /\ \A i \in S : Min(S) <= i
  BY <1>1 DEF Min
<1>4. Max(S) \in S /\ \A i \in S : Max(S) >= i
  BY <1>2 DEF Max
<1> QED BY <1>3, <1>4

\* A trimmed path has nothing more to trim.
LEMMA TrimOnce ==
    ASSUME NEW p \in Paths
    PROVE  Trim(p) \in Paths /\ Trim(Trim(p)) = Trim(p)
<1> DEFINE ink(q) == {i \in 1 .. Len(q) : q[i] # Space}
<1>1. Len(p) \in Nat /\ <<>> \in Paths
  BY DEF Paths
<1>2. Trim(<<>>) = <<>>
  BY DEF Trim
<1>3. CASE ink(p) = {}
  BY <1>1, <1>2, <1>3 DEF Trim
<1>4. CASE ink(p) # {}
  <2> DEFINE a == Min(ink(p))
             b == Max(ink(p))
             q == SubSeq(p, a, b)
  <2>1. Trim(p) = q
    BY <1>4 DEF Trim
  <2>2. a \in ink(p) /\ b \in ink(p) /\ a <= b
    <3>1. ink(p) \in SUBSET (1 .. Len(p))
      OBVIOUS
    <3> HIDE DEF ink
    <3> QED BY <1>1, <1>4, <3>1, Extremes
  <2> HIDE DEF a, b
  <2>3. a \in 1 .. Len(p) /\ b \in 1 .. Len(p) /\ p[a] # Space /\ p[b] # Space
    BY <2>2
  <2>4. /\ q \in Paths /\ Len(q) = b - a + 1
        /\ \A i \in 1 .. Len(q) : q[i] = p[a + i - 1]
    BY <1>1, <2>2, <2>3 DEF Paths
  <2> HIDE DEF q
  <2>5. 1 \in ink(q) /\ Len(q) \in ink(q)
    <3>1. 1 \in 1 .. Len(q) /\ Len(q) \in 1 .. Len(q) /\ a + 1 - 1 = a /\ a + Len(q) - 1 = b
      BY <2>2, <2>3, <2>4
    <3> QED BY <2>3, <2>4, <3>1
  <2>6. Min(ink(q)) = 1 /\ Max(ink(q)) = Len(q)
    <3>1. ink(q) \in SUBSET (1 .. Len(q)) /\ Len(q) \in Nat
      BY <2>4 DEF Paths
    <3>2. \A i \in ink(q) : 1 <= i /\ i <= Len(q) /\ i \in Nat
      BY <3>1
    <3> HIDE DEF ink
    <3>3. /\ Min(ink(q)) \in ink(q) /\ Max(ink(q)) \in ink(q)
          /\ Min(ink(q)) <= 1 /\ Len(q) <= Max(ink(q))
      BY <2>5, <3>1, Extremes
    <3> QED BY <3>1, <3>2, <3>3
  <2>7. Trim(q) = SubSeq(q, 1, Len(q))
    BY <2>5, <2>6 DEF Trim
  <2>8. SubSeq(q, 1, Len(q)) = q
    BY <2>4 DEF Paths
  <2> QED BY <2>1, <2>4, <2>7, <2>8
<1> QED BY <1>3, <1>4

-----------------------------------------------------------------------------
(* The exclusion set.                                                      *)

ExclusionSet ==
    [root: Paths, prefixes: SUBSET Paths, pathGlobs: SUBSET Paths, nameGlobs: SUBSET Paths,
     patterns: Seq(Paths), dropped: Seq(Paths), ok: BOOLEAN]

LEMMA AddOneTyped ==
    ASSUME NEW s \in ExclusionSet, NEW p \in Paths
    PROVE  AddOne(s, p) \in ExclusionSet /\ AddOne(s, p).root = s.root
<1>1. Clean(p) \in Paths
  BY CleanTyped
<1>2. CASE CoversRoot(s, p)
  <2>1. Append(s.dropped, p) \in Seq(Paths)
    BY DEF ExclusionSet
  <2> QED BY <1>2, <2>1 DEF AddOne, ExclusionSet
<1>3. CASE ~CoversRoot(s, p) /\ IsGlob(p) /\ Malformed(p)
  BY <1>3 DEF AddOne, ExclusionSet
<1>4. CASE ~CoversRoot(s, p) /\ ~(IsGlob(p) /\ Malformed(p))
  <2>1. /\ s.nameGlobs \cup (IF ~Absolute(p) THEN {p} ELSE {}) \in SUBSET Paths
        /\ s.pathGlobs \cup (IF Absolute(p) /\ IsGlob(p) THEN {p} ELSE {}) \in SUBSET Paths
        /\ s.prefixes \cup (IF Absolute(p) /\ ~IsGlob(p) THEN {Clean(p)} ELSE {}) \in SUBSET Paths
        /\ Append(s.patterns, p) \in Seq(Paths)
    BY <1>1 DEF ExclusionSet
  <2> QED BY <1>4, <2>1 DEF AddOne, ExclusionSet
<1> QED BY <1>2, <1>3, <1>4

\* The steps of add.
LEMMA AddListedSteps ==
    ASSUME NEW s \in ExclusionSet, NEW list \in Seq(Paths)
    PROVE  \E f \in [0 .. Len(list) -> ExclusionSet] :
              /\ AddListed(s, list) = f[Len(list)]
              /\ f[0] = s
              /\ \A k \in 1 .. Len(list) : f[k] = AddListedOne(f[k - 1], list[k])
<1> DEFINE n == Len(list)
           Rec(f) == f = [k \in 0 .. n |-> IF k = 0 THEN s ELSE AddListedOne(f[k - 1], list[k])]
           step == [vk \in ExclusionSet \X (1 .. n) |-> AddListedOne(vk[1], list[vk[2]])]
           g == CHOOSE f : Rec(f)
<1>1. n \in Nat
  OBVIOUS
<1>2. \A t \in ExclusionSet, k \in 1 .. n : AddListedOne(t, list[k]) \in ExclusionSet
  BY TrimOnce, AddOneTyped DEF AddListedOne
<1>3. step \in [ExclusionSet \X (1 .. n) -> ExclusionSet]
  BY <1>2
<1>4. PICK f : Follows(f, n, ExclusionSet, s, step)
  <2> HIDE DEF n, step
  <2> QED BY <1>1, <1>3, Recursion
<1>5. Rec(f)
  <2>1. ASSUME NEW k \in 0 .. n PROVE f[k] = IF k = 0 THEN s ELSE AddListedOne(f[k - 1], list[k])
    <3>1. CASE k = 0
      BY <1>4, <3>1 DEF Follows
    <3>2. CASE k # 0
      <4>1. f[k - 1] \in ExclusionSet /\ k \in 1 .. n
        BY <1>1, <1>4, <3>2 DEF Follows
      <4>2. f[k] = step[<<f[k - 1], k>>]
        BY <1>4, <4>1 DEF Follows
      <4> QED BY <3>2, <4>1, <4>2
    <3> QED BY <3>1, <3>2
  <2>2. f = [k \in 0 .. n |-> f[k]]
    BY <1>4 DEF Follows
  <2> HIDE DEF n
  <2> QED BY <2>1, <2>2
<1>6. Rec(g)
  BY <1>5
<1>7. AddListed(s, list) = g[n]
  BY DEF AddListed
<1> HIDE DEF g
<1>8. g[0] = s /\ \A k \in 1 .. n : g[k] = AddListedOne(g[k - 1], list[k])
  BY <1>1, <1>6
<1>9. \A k \in 0 .. n : g[k] \in ExclusionSet
  <2> DEFINE S == {k \in 0 .. n : g[k] \in ExclusionSet}
  <2>1. Climbs(S, n)
    BY <1>1, <1>2, <1>8 DEF Climbs
  <2>2. \A k \in 0 .. n : k \in S
    <3> HIDE DEF S, n
    <3> QED BY <1>1, <2>1, Climb
  <2> QED BY <2>2
<1>10. g \in [0 .. n -> ExclusionSet]
  BY <1>6, <1>9
<1> QED BY <1>7, <1>8, <1>10

\* The steps of addAuto.
LEMMA AddAutoSteps ==
    ASSUME NEW s \in ExclusionSet, NEW list \in Seq(Paths)
    PROVE  \E f \in [0 .. Len(list) -> ExclusionSet] :
              /\ AddAuto(s, list) = f[Len(list)]
              /\ f[0] = s
              /\ \A k \in 1 .. Len(list) : f[k] = AddAutoOne(f[k - 1], list[k])
<1> DEFINE n == Len(list)
           Rec(f) == f = [k \in 0 .. n |-> IF k = 0 THEN s ELSE AddAutoOne(f[k - 1], list[k])]
           step == [vk \in ExclusionSet \X (1 .. n) |-> AddAutoOne(vk[1], list[vk[2]])]
           g == CHOOSE f : Rec(f)
<1>1. n \in Nat
  OBVIOUS
<1>2. \A t \in ExclusionSet, k \in 1 .. n : AddAutoOne(t, list[k]) \in ExclusionSet
  BY TrimOnce, AddOneTyped DEF AddAutoOne
<1>3. step \in [ExclusionSet \X (1 .. n) -> ExclusionSet]
  BY <1>2
<1>4. PICK f : Follows(f, n, ExclusionSet, s, step)
  <2> HIDE DEF n, step
  <2> QED BY <1>1, <1>3, Recursion
<1>5. Rec(f)
  <2>1. ASSUME NEW k \in 0 .. n PROVE f[k] = IF k = 0 THEN s ELSE AddAutoOne(f[k - 1], list[k])
    <3>1. CASE k = 0
      BY <1>4, <3>1 DEF Follows
    <3>2. CASE k # 0
      <4>1. f[k - 1] \in ExclusionSet /\ k \in 1 .. n
        BY <1>1, <1>4, <3>2 DEF Follows
      <4>2. f[k] = step[<<f[k - 1], k>>]
        BY <1>4, <4>1 DEF Follows
      <4> QED BY <3>2, <4>1, <4>2
    <3> QED BY <3>1, <3>2
  <2>2. f = [k \in 0 .. n |-> f[k]]
    BY <1>4 DEF Follows
  <2> HIDE DEF n
  <2> QED BY <2>1, <2>2
<1>6. Rec(g)
  BY <1>5
<1>7. AddAuto(s, list) = g[n]
  BY DEF AddAuto
<1> HIDE DEF g
<1>8. g[0] = s /\ \A k \in 1 .. n : g[k] = AddAutoOne(g[k - 1], list[k])
  BY <1>1, <1>6
<1>9. \A k \in 0 .. n : g[k] \in ExclusionSet
  <2> DEFINE S == {k \in 0 .. n : g[k] \in ExclusionSet}
  <2>1. Climbs(S, n)
    BY <1>1, <1>2, <1>8 DEF Climbs
  <2>2. \A k \in 0 .. n : k \in S
    <3> HIDE DEF S, n
    <3> QED BY <1>1, <2>1, Climb
  <2> QED BY <2>2
<1>10. g \in [0 .. n -> ExclusionSet]
  BY <1>6, <1>9
<1> QED BY <1>7, <1>8, <1>10

Patterns(s) == {s.patterns[i] : i \in 1 .. Len(s.patterns)}

\* add would take p again, and addOne would compile it.
Accepted(s, p) ==
    /\ Trim(p) = p /\ p # <<>> /\ p[1] # HashSign
    /\ ~CoversRoot(s, p)
    /\ ~(IsGlob(p) /\ Malformed(p))

\* The recorded patterns say what the set is.
Compiled(s) ==
    /\ s.prefixes  = {Clean(p) : p \in {x \in Patterns(s) : Absolute(x) /\ ~IsGlob(x)}}
    /\ s.pathGlobs = {p \in Patterns(s) : Absolute(p) /\ IsGlob(p)}
    /\ s.nameGlobs = {p \in Patterns(s) : ~Absolute(p)}
    /\ \A p \in Patterns(s) : Accepted(s, p)

\* What addOne does with a pattern that it compiles.
LEMMA AddOneCompiles ==
    ASSUME NEW s \in ExclusionSet, NEW p \in Paths,
           ~CoversRoot(s, p), ~(IsGlob(p) /\ Malformed(p))
    PROVE  LET t == AddOne(s, p)
           IN  /\ t.ok = s.ok /\ t.root = s.root
               /\ t.patterns = Append(s.patterns, p)
               /\ Patterns(t) = Patterns(s) \cup {p}
               /\ t.nameGlobs = s.nameGlobs \cup (IF ~Absolute(p) THEN {p} ELSE {})
               /\ t.pathGlobs = s.pathGlobs \cup (IF Absolute(p) /\ IsGlob(p) THEN {p} ELSE {})
               /\ t.prefixes = s.prefixes \cup (IF Absolute(p) /\ ~IsGlob(p) THEN {Clean(p)} ELSE {})
<1> DEFINE t == AddOne(s, p)
<1>1. /\ t.ok = s.ok /\ t.root = s.root
      /\ t.patterns = Append(s.patterns, p)
      /\ t.nameGlobs = s.nameGlobs \cup (IF ~Absolute(p) THEN {p} ELSE {})
      /\ t.pathGlobs = s.pathGlobs \cup (IF Absolute(p) /\ IsGlob(p) THEN {p} ELSE {})
      /\ t.prefixes = s.prefixes \cup (IF Absolute(p) /\ ~IsGlob(p) THEN {Clean(p)} ELSE {})
  BY DEF AddOne, ExclusionSet
<1> HIDE DEF t
<1>2. Patterns(t) = Patterns(s) \cup {p}
  <2>1. s.patterns \in Seq(Paths) /\ Len(s.patterns) \in Nat
    BY DEF ExclusionSet
  <2>2. /\ Len(t.patterns) = Len(s.patterns) + 1
        /\ t.patterns[Len(s.patterns) + 1] = p
        /\ \A i \in 1 .. Len(s.patterns) : t.patterns[i] = s.patterns[i]
    BY <1>1, <2>1
  <2> QED BY <2>1, <2>2 DEF Patterns
<1> QED BY <1>1, <1>2 DEF t

\* addOne keeps the set what the patterns say.
LEMMA AddOneKeepsCompiled ==
    ASSUME NEW s \in ExclusionSet, Compiled(s),
           NEW p \in Paths, Trim(p) = p, p # <<>>, p[1] # HashSign
    PROVE  Compiled(AddOne(s, p))
<1> DEFINE t == AddOne(s, p)
<1>1. CASE CoversRoot(s, p) \/ (IsGlob(p) /\ Malformed(p))
  <2>1. /\ t.root = s.root /\ t.patterns = s.patterns
        /\ t.nameGlobs = s.nameGlobs /\ t.pathGlobs = s.pathGlobs /\ t.prefixes = s.prefixes
    BY <1>1 DEF AddOne, ExclusionSet
  <2> HIDE DEF t
  <2> QED BY <2>1 DEF Compiled, Patterns, Accepted, CoversRoot, t
<1>2. CASE ~CoversRoot(s, p) /\ ~(IsGlob(p) /\ Malformed(p))
  <2>1. /\ t.root = s.root
        /\ Patterns(t) = Patterns(s) \cup {p}
        /\ t.nameGlobs = s.nameGlobs \cup (IF ~Absolute(p) THEN {p} ELSE {})
        /\ t.pathGlobs = s.pathGlobs \cup (IF Absolute(p) /\ IsGlob(p) THEN {p} ELSE {})
        /\ t.prefixes = s.prefixes \cup (IF Absolute(p) /\ ~IsGlob(p) THEN {Clean(p)} ELSE {})
    BY <1>2, AddOneCompiles
  <2> HIDE DEF t
  <2>2. \A x \in Patterns(t) : Accepted(t, x)
    <3>1. \A x : Accepted(s, x) => Accepted(t, x)
      BY <2>1 DEF Accepted, CoversRoot
    <3>2. Accepted(s, p)
      BY <1>2 DEF Accepted
    <3> QED BY <2>1, <3>1, <3>2 DEF Compiled
  <2>3. t.prefixes = {Clean(q) : q \in {x \in Patterns(t) : Absolute(x) /\ ~IsGlob(x)}}
    BY <2>1 DEF Compiled
  <2>4. /\ t.pathGlobs = {q \in Patterns(t) : Absolute(q) /\ IsGlob(q)}
        /\ t.nameGlobs = {q \in Patterns(t) : ~Absolute(q)}
    BY <2>1 DEF Compiled
  <2> QED BY <2>2, <2>3, <2>4 DEF Compiled, t
<1> QED BY <1>1, <1>2

\* New, before any pattern.
Empty(r) ==
    [root |-> r, prefixes |-> {}, pathGlobs |-> {}, nameGlobs |-> {},
     patterns |-> <<>>, dropped |-> <<>>, ok |-> TRUE]

LEMMA EmptyCompiled ==
    ASSUME NEW r \in Paths
    PROVE  Empty(r) \in ExclusionSet /\ Compiled(Empty(r)) /\ Empty(r).root = r /\ Empty(r).ok
<1>1. <<>> \in Seq(Paths) /\ Len(<<>>) = 0
  OBVIOUS
<1>2. Empty(r) \in ExclusionSet
  BY <1>1 DEF Empty, ExclusionSet
<1>3. Patterns(Empty(r)) = {}
  BY <1>1 DEF Empty, Patterns
<1>4. Compiled(Empty(r))
  BY <1>3 DEF Compiled, Empty
<1> QED BY <1>2, <1>4 DEF Empty

\* The listed patterns.
LEMMA AddListedCompiled ==
    ASSUME NEW r \in Paths, NEW list \in Seq(Paths)
    PROVE  LET s == AddListed(Empty(r), list)
           IN  s \in ExclusionSet /\ Compiled(s) /\ s.root = r
<1>1. PICK f \in [0 .. Len(list) -> ExclusionSet] :
         /\ AddListed(Empty(r), list) = f[Len(list)]
         /\ f[0] = Empty(r)
         /\ \A k \in 1 .. Len(list) : f[k] = AddListedOne(f[k - 1], list[k])
  BY EmptyCompiled, AddListedSteps
<1> DEFINE S == {k \in 0 .. Len(list) : Compiled(f[k]) /\ f[k].root = r}
<1>2. 0 \in S
  BY <1>1, EmptyCompiled
<1>3. ASSUME NEW k \in 1 .. Len(list), k - 1 \in S PROVE k \in S
  <2> DEFINE t == f[k - 1]
             p == Trim(list[k])
  <2>1. /\ t \in ExclusionSet /\ Compiled(t) /\ t.root = r
        /\ f[k] = AddListedOne(t, list[k])
        /\ p \in Paths /\ Trim(p) = p
    BY <1>1, <1>3, TrimOnce
  <2>2. CASE ~t.ok \/ p = <<>> \/ p[1] = HashSign
    BY <2>1, <2>2 DEF AddListedOne
  <2>3. CASE t.ok /\ p # <<>> /\ p[1] # HashSign
    <3>1. f[k] = AddOne(t, p)
      BY <2>1, <2>3 DEF AddListedOne
    <3> HIDE DEF t, p
    <3>2. Compiled(AddOne(t, p)) /\ AddOne(t, p).root = t.root
      BY <2>1, <2>3, AddOneKeepsCompiled, AddOneTyped
    <3> QED BY <2>1, <3>1, <3>2
  <2> QED BY <2>2, <2>3
<1>4. Len(list) \in S
  <2> HIDE DEF S
  <2>1. Climbs(S, Len(list))
    BY <1>2, <1>3 DEF Climbs
  <2> QED BY <2>1, Climb
<1> QED BY <1>1, <1>4

\* The recorded patterns compile to the set they come from.
LEMMA CompiledAgain ==
    ASSUME NEW s \in ExclusionSet, Compiled(s)
    PROVE  LET t == AddListed(Empty(s.root), s.patterns)
           IN  /\ t \in ExclusionSet /\ Compiled(t) /\ t.ok /\ t.root = s.root
               /\ t.prefixes = s.prefixes /\ t.pathGlobs = s.pathGlobs /\ t.nameGlobs = s.nameGlobs
<1> DEFINE list == s.patterns
           n    == Len(list)
<1>1. s.root \in Paths /\ list \in Seq(Paths) /\ n \in Nat
  BY DEF ExclusionSet
<1>2. PICK f \in [0 .. n -> ExclusionSet] :
         /\ AddListed(Empty(s.root), list) = f[n]
         /\ f[0] = Empty(s.root)
         /\ \A k \in 1 .. n : f[k] = AddListedOne(f[k - 1], list[k])
  BY <1>1, EmptyCompiled, AddListedSteps
<1> DEFINE S == {k \in 0 .. n : /\ f[k].ok /\ f[k].root = s.root
                                /\ Len(f[k].patterns) = k
                                /\ \A j \in 1 .. k : f[k].patterns[j] = list[j]}
<1>3. 0 \in S
  BY <1>1, <1>2 DEF Empty
<1>4. ASSUME NEW k \in 1 .. n, k - 1 \in S PROVE k \in S
  <2> DEFINE t == f[k - 1]
             p == list[k]
  <2>1. /\ t \in ExclusionSet /\ t.ok /\ t.root = s.root
        /\ f[k] = AddListedOne(t, p)
        /\ Len(t.patterns) = k - 1 /\ \A j \in 1 .. k - 1 : t.patterns[j] = list[j]
    BY <1>1, <1>2, <1>4
  <2>2. p \in Paths /\ Accepted(s, p)
    BY <1>1 DEF Compiled, Patterns
  <2>3. Accepted(t, p)
    BY <2>1, <2>2 DEF Accepted, CoversRoot
  <2>4. f[k] = AddOne(t, p)
    BY <2>1, <2>3 DEF AddListedOne, Accepted
  <2> HIDE DEF t, p
  <2>5. f[k].ok = t.ok /\ f[k].root = t.root /\ f[k].patterns = Append(t.patterns, p)
    <3>1. t \in ExclusionSet /\ p \in Paths /\ ~CoversRoot(t, p) /\ ~(IsGlob(p) /\ Malformed(p))
      BY <2>1, <2>2, <2>3 DEF Accepted
    <3>2. /\ AddOne(t, p).ok = t.ok /\ AddOne(t, p).root = t.root
          /\ AddOne(t, p).patterns = Append(t.patterns, p)
      BY <3>1, AddOneCompiles
    <3> QED BY <2>4, <3>2
  <2>6. /\ Len(f[k].patterns) = k /\ f[k].patterns[k] = p
        /\ \A j \in 1 .. k - 1 : f[k].patterns[j] = t.patterns[j]
    <3>1. t.patterns \in Seq(Paths)
      BY <2>1 DEF ExclusionSet
    <3> QED BY <2>1, <2>2, <2>5, <3>1
  <2>7. \A j \in 1 .. k : f[k].patterns[j] = list[j]
    BY <2>1, <2>6 DEF p
  <2>8. k \in 0 .. n /\ f[k].ok /\ f[k].root = s.root
    BY <1>1, <2>1, <2>5
  <2> QED BY <2>6, <2>7, <2>8
<1>5. n \in S
  <2> HIDE DEF S, n
  <2>1. Climbs(S, n)
    BY <1>3, <1>4 DEF Climbs
  <2> QED BY <1>1, <2>1, Climb
<1> DEFINE t == AddListed(Empty(s.root), list)
<1>6. t \in ExclusionSet /\ Compiled(t) /\ t.root = s.root
  BY <1>1, AddListedCompiled
<1>7. t.ok /\ Patterns(t) = Patterns(s)
  BY <1>1, <1>2, <1>5 DEF Patterns
<1> HIDE DEF t
<1>8. t.prefixes = s.prefixes /\ t.pathGlobs = s.pathGlobs /\ t.nameGlobs = s.nameGlobs
  BY <1>6, <1>7 DEF Compiled
<1> QED BY <1>6, <1>7, <1>8 DEF t

\* What addOne records is its pattern, if it records any.
LEMMA AddOneRecords ==
    ASSUME NEW s \in ExclusionSet, NEW p \in Paths
    PROVE  Patterns(AddOne(s, p)) \subseteq Patterns(s) \cup {p}
<1>1. CASE CoversRoot(s, p) \/ (IsGlob(p) /\ Malformed(p))
  <2>1. AddOne(s, p).patterns = s.patterns
    BY <1>1 DEF AddOne, ExclusionSet
  <2> QED BY <2>1 DEF Patterns
<1>2. CASE ~CoversRoot(s, p) /\ ~(IsGlob(p) /\ Malformed(p))
  BY <1>2, AddOneCompiles
<1> QED BY <1>1, <1>2

\* Every recorded pattern is a listed one or an automatic one, trimmed.
LEMMA NewRecords ==
    ASSUME NEW r \in Paths, NEW list \in Seq(Paths), NEW auto \in Seq(Paths), NEW A,
           \A i \in 1 .. Len(list) : Trim(list[i]) \in A,
           \A i \in 1 .. Len(auto) : Trim(auto[i]) \in A
    PROVE  Patterns(New(r, list, auto)) \subseteq A
<1> DEFINE e == Empty(Clean(r))
           s == AddListed(e, list)
<1>1. e \in ExclusionSet /\ Patterns(e) = {}
  <2>1. e \in ExclusionSet
    BY CleanTyped, EmptyCompiled
  <2>2. Len(<<>>) = 0 /\ e.patterns = <<>>
    BY DEF Empty
  <2> QED BY <2>1, <2>2 DEF Patterns
<1>2. New(r, list, auto) = AddAuto(s, auto)
  BY DEF New, Empty
<1>3. s \in ExclusionSet
  BY CleanTyped, AddListedCompiled
<1> HIDE DEF e
<1>4. PICK f \in [0 .. Len(list) -> ExclusionSet] :
         /\ s = f[Len(list)]
         /\ f[0] = e
         /\ \A k \in 1 .. Len(list) : f[k] = AddListedOne(f[k - 1], list[k])
  BY <1>1, AddListedSteps
<1> HIDE DEF s
<1>5. Patterns(s) \subseteq A
  <2> DEFINE S == {k \in 0 .. Len(list) : Patterns(f[k]) \subseteq A}
  <2>1. 0 \in S
    BY <1>1, <1>4
  <2>2. ASSUME NEW k \in 1 .. Len(list), k - 1 \in S PROVE k \in S
    <3>1. f[k - 1] \in ExclusionSet /\ Trim(list[k]) \in Paths
      BY <1>4, TrimOnce
    <3>2. f[k] = f[k - 1] \/ f[k] = AddOne(f[k - 1], Trim(list[k]))
      BY <1>4 DEF AddListedOne
    <3>3. Patterns(AddOne(f[k - 1], Trim(list[k]))) \subseteq A
      BY <2>2, <3>1, AddOneRecords
    <3> QED BY <2>2, <3>2, <3>3
  <2>3. Len(list) \in S
    <3> HIDE DEF S
    <3>1. Climbs(S, Len(list))
      BY <2>1, <2>2 DEF Climbs
    <3> QED BY <3>1, Climb
  <2> QED BY <1>4, <2>3
<1>6. PICK g \in [0 .. Len(auto) -> ExclusionSet] :
         /\ AddAuto(s, auto) = g[Len(auto)]
         /\ g[0] = s
         /\ \A k \in 1 .. Len(auto) : g[k] = AddAutoOne(g[k - 1], auto[k])
  BY <1>3, AddAutoSteps
<1> DEFINE S == {k \in 0 .. Len(auto) : Patterns(g[k]) \subseteq A}
<1>7. 0 \in S
  BY <1>5, <1>6
<1>8. ASSUME NEW k \in 1 .. Len(auto), k - 1 \in S PROVE k \in S
  <2>1. g[k - 1] \in ExclusionSet /\ Trim(auto[k]) \in Paths
    BY <1>6, TrimOnce
  <2>2. g[k] = g[k - 1] \/ g[k] = AddOne(g[k - 1], Trim(auto[k]))
    BY <1>6 DEF AddAutoOne
  <2>3. Patterns(AddOne(g[k - 1], Trim(auto[k]))) \subseteq A
    BY <1>8, <2>1, AddOneRecords
  <2> QED BY <1>8, <2>2, <2>3
<1>9. Len(auto) \in S
  <2> HIDE DEF S
  <2>1. Climbs(S, Len(auto))
    BY <1>7, <1>8 DEF Climbs
  <2> QED BY <2>1, Climb
<1> QED BY <1>2, <1>6, <1>9

-----------------------------------------------------------------------------
(* The files of the run itself.                                            *)

\* t is s with some of the prefixes of O as well.
Widens(s, t, O) ==
    /\ s.prefixes \subseteq t.prefixes /\ t.prefixes \subseteq s.prefixes \cup O
    /\ t.pathGlobs = s.pathGlobs /\ t.nameGlobs = s.nameGlobs

\* Such a set matches what is under these as well, and nothing else.
LEMMA WidensMatch ==
    ASSUME NEW s, NEW t, NEW O, Widens(s, t, O), NEW x
    PROVE  /\ Match(s, x) => Match(t, x)
           /\ Match(t, x) => Match(s, x) \/ \E o \in O : Under(x, o)
BY DEF Match, Widens

LEMMA WidensTwice ==
    ASSUME NEW s, NEW t, NEW u, NEW O, NEW P, Widens(s, t, O), Widens(t, u, P)
    PROVE  Widens(s, u, O \cup P)
BY DEF Widens

\* After addAuto, a file of the run is matched.
LEMMA AddAutoOneMatches ==
    ASSUME NEW s \in ExclusionSet, s.ok, NEW o \in Paths, Plain(o), ~Under(s.root, o)
    PROVE  LET t == AddAutoOne(s, o)
           IN  /\ t \in ExclusionSet /\ t.ok /\ t.root = s.root
               /\ Widens(s, t, {o})
               /\ Match(t, o)
               /\ Match(s, o) => t = s
               /\ Compiled(s) => Compiled(t)
<1>1. o # <<>> /\ o[1] = Slash /\ Trim(o) = o /\ Clean(o) = o /\ ~IsGlob(o) /\ Absolute(o)
  BY DEF Plain, Absolute
<1>2. CASE Match(s, o)
  BY <1>1, <1>2 DEF AddAutoOne, Widens
<1>3. CASE ~Match(s, o)
  <2> DEFINE t == AddOne(s, o)
  <2>1. AddAutoOne(s, o) = t
    BY <1>1, <1>3 DEF AddAutoOne
  <2>2. ~CoversRoot(s, o)
    BY <1>1 DEF CoversRoot
  <2>3. /\ t.ok = s.ok /\ t.root = s.root
        /\ t.nameGlobs = s.nameGlobs \cup (IF ~Absolute(o) THEN {o} ELSE {})
        /\ t.pathGlobs = s.pathGlobs \cup (IF Absolute(o) /\ IsGlob(o) THEN {o} ELSE {})
        /\ t.prefixes = s.prefixes \cup (IF Absolute(o) /\ ~IsGlob(o) THEN {Clean(o)} ELSE {})
    BY <1>1, <2>2, AddOneCompiles
  <2>4. t \in ExclusionSet
    BY AddOneTyped
  <2>5. Compiled(s) => Compiled(t)
    <3>1. o[1] # HashSign
      BY <1>1, ExcludeAssumption
    <3> QED BY <1>1, <3>1, AddOneKeepsCompiled
  <2> HIDE DEF t
  <2>6. Widens(s, t, {o}) /\ o \in t.prefixes
    BY <1>1, <2>3 DEF Widens
  <2>7. Under(o, o)
    <3>1. Len(o) \in Nat
      BY DEF Paths
    <3> QED BY <3>1 DEF Under, Prefix
  <2>8. Match(t, o)
    BY <2>6, <2>7 DEF Match
  <2> QED BY <1>3, <2>1, <2>3, <2>4, <2>5, <2>6, <2>8
<1> QED BY <1>2, <1>3

\* An exclusion set for the scans of a root.
SetFor(s, r) == s \in ExclusionSet /\ s.root = r

\* Three files of the run, none of them a pattern that covers the root.
PlainAuto(r, a, b, c) == \A o \in {a, b, c} : Plain(o) /\ ~Under(Clean(r), o)

\* What New makes of the listed patterns and of these.
LEMMA NewMatchesAuto ==
    ASSUME NEW r \in Paths, NEW list \in Seq(Paths),
           NEW a \in Paths, NEW b \in Paths, NEW c \in Paths,
           PlainAuto(r, a, b, c)
    PROVE  LET s == AddListed(Empty(Clean(r)), list)
               t == New(r, list, <<a, b, c>>)
           IN  /\ SetFor(t, Clean(r))
               /\ t.ok <=> s.ok
               /\ t.ok => /\ Compiled(t)
                          /\ Widens(s, t, {a, b, c})
                          /\ Match(s, a) => Widens(s, t, {b, c})
                          /\ \A o \in {a, b, c} : Match(t, o)
<1> DEFINE s    == AddListed(Empty(Clean(r)), list)
           t    == New(r, list, <<a, b, c>>)
           auto == <<a, b, c>>
<1>1. s \in ExclusionSet /\ Compiled(s) /\ s.root = Clean(r)
  BY CleanTyped, AddListedCompiled
<1>2. t = AddAuto(s, auto)
  BY DEF New, Empty
<1>3. auto \in Seq(Paths) /\ Len(auto) = 3 /\ auto[1] = a /\ auto[2] = b /\ auto[3] = c
  OBVIOUS
<1> HIDE DEF s, t, auto
<1>4. PICK f \in [0 .. 3 -> ExclusionSet] :
         t = f[3] /\ f[0] = s /\ \A k \in 1 .. 3 : f[k] = AddAutoOne(f[k - 1], auto[k])
  <2>1. PICK f \in [0 .. Len(auto) -> ExclusionSet] :
           /\ AddAuto(s, auto) = f[Len(auto)]
           /\ f[0] = s
           /\ \A k \in 1 .. Len(auto) : f[k] = AddAutoOne(f[k - 1], auto[k])
    BY <1>1, <1>3, AddAutoSteps
  <2> QED BY <1>2, <1>3, <2>1
<1>5. /\ f[1] = AddAutoOne(s, a) /\ f[2] = AddAutoOne(f[1], b) /\ t = AddAutoOne(f[2], c)
      /\ f[1] \in ExclusionSet /\ f[2] \in ExclusionSet /\ t \in ExclusionSet
  <2>1. f[1] = AddAutoOne(f[1 - 1], auto[1]) /\ f[2] = AddAutoOne(f[2 - 1], auto[2])
        /\ f[3] = AddAutoOne(f[3 - 1], auto[3])
    BY <1>4
  <2> QED BY <1>3, <1>4, <2>1
<1>6. CASE ~s.ok
  <2>1. f[1] = s /\ f[2] = s /\ t = s
    BY <1>5, <1>6 DEF AddAutoOne
  <2> QED BY <1>1, <1>6, <2>1 DEF SetFor, s, t, auto
<1>7. CASE s.ok
  <2>1. /\ f[1].ok /\ f[1].root = Clean(r) /\ Widens(s, f[1], {a}) /\ Match(f[1], a)
        /\ Match(s, a) => f[1] = s
        /\ Compiled(f[1])
    <3>1. Plain(a) /\ ~Under(s.root, a)
      BY <1>1 DEF PlainAuto
    <3> DEFINE u == AddAutoOne(s, a)
    <3>2. /\ u.ok /\ u.root = s.root /\ Widens(s, u, {a}) /\ Match(u, a)
          /\ Match(s, a) => u = s
          /\ Compiled(s) => Compiled(u)
      BY <1>1, <1>7, <3>1, AddAutoOneMatches
    <3> QED BY <1>1, <1>5, <3>2
  <2>2. /\ f[2].ok /\ f[2].root = Clean(r) /\ Widens(f[1], f[2], {b}) /\ Match(f[2], b)
        /\ Compiled(f[2])
    BY <1>5, <2>1, AddAutoOneMatches DEF PlainAuto
  <2>3. /\ t.ok /\ t.root = Clean(r) /\ Widens(f[2], t, {c}) /\ Match(t, c)
        /\ Compiled(t)
    BY <1>5, <2>2, AddAutoOneMatches DEF PlainAuto
  <2>4. Widens(f[1], t, {b, c})
    <3>1. {b} \cup {c} = {b, c}
      OBVIOUS
    <3> QED BY <2>2, <2>3, <3>1, WidensTwice
  <2>5. Widens(s, t, {a, b, c})
    <3>1. {a} \cup {b, c} = {a, b, c}
      OBVIOUS
    <3> QED BY <2>1, <2>4, <3>1, WidensTwice
  <2>6. Match(t, a) /\ Match(t, b)
    BY <2>1, <2>2, <2>3, <2>4, WidensMatch
  <2>7. Match(s, a) => Widens(s, t, {b, c})
    BY <2>1, <2>4
  <2> QED BY <1>5, <1>7, <2>3, <2>5, <2>6, <2>7 DEF SetFor, s, t, auto
<1> QED BY <1>6, <1>7

-----------------------------------------------------------------------------
(* What a walk emits.                                                      *)

\* The walk is a list of paths, one for each it meets.
LEMMA WalkOrderTyped ==
    ASSUME NEW s, NEW r \in Roots, NEW P \in SUBSET Paths, IsFiniteSet(P)
    PROVE  LET met == Walked(s, r, P)
           IN  /\ met \in SUBSET Paths /\ IsFiniteSet(met)
               /\ WalkOrder(s, r, P) \in Seq(Paths)
               /\ Len(WalkOrder(s, r, P)) = Len(InWalkOrder(met))
               /\ \A i \in 1 .. Len(InWalkOrder(met)) :
                     WalkOrder(s, r, P)[i] = PathAs(r, InWalkOrder(met)[i])
<1> DEFINE met == Walked(s, r, P)
           o   == InWalkOrder(met)
<1>1. met \in SUBSET Paths /\ met \subseteq P
  BY DEF Walked
<1>2. IsFiniteSet(met)
  BY <1>1, FS_Subset
<1>3. o \in Seq(met)
  BY <1>1, <1>2, WalkOrderLists
<1>4. WalkOrder(s, r, P) = [i \in 1 .. Len(o) |-> PathAs(r, o[i])]
  BY DEF WalkOrder, InWalkOrder
<1> HIDE DEF met, o
<1>5. Len(o) \in Nat /\ \A i \in 1 .. Len(o) : PathAs(r, o[i]) \in Paths
  <2>1. r \in [given: Paths, real: Paths]
    BY BaselineAssumption
  <2>2. \A i \in 1 .. Len(o) : o[i] \in Paths
    BY <1>1, <1>3
  <2> QED BY <1>3, <2>1, <2>2, PathAsTyped
<1>6. WalkOrder(s, r, P) \in Seq(Paths) /\ Len(WalkOrder(s, r, P)) = Len(o)
  <2>1. WalkOrder(s, r, P) \in [1 .. Len(o) -> Paths]
    BY <1>4, <1>5
  <2> HIDE DEF WalkOrder
  <2> QED BY <1>5, <2>1
<1> QED BY <1>1, <1>2, <1>4, <1>6 DEF met, o

\* The run's own files, and what there is when the walk comes by.
LEMMA OwnTyped ==
    ASSUME NEW t \in Targets
    PROVE  /\ t.real \in Paths /\ t.given \in Paths
           /\ t.real \o TmpSuffix \in Paths /\ t.given \o TmpSuffix \in Paths
<1>1. t.real \in Seq(Byte) /\ t.given \in Seq(Byte) /\ TmpSuffix \in Seq(Byte)
  BY BaselineAssumption DEF Paths
<1> QED BY <1>1, ConcatProperties DEF Paths

ArgumentsOK ==
    /\ tree \in Trees /\ root \in Roots /\ target \in Targets /\ listed \in Listed
    /\ force \in BOOLEAN
    /\ intended = Intended

LEMMA TreeTyped ==
    ASSUME ArgumentsOK
    PROVE  /\ tree \in SUBSET Paths /\ IsFiniteSet(tree)
           /\ Present \in SUBSET Paths /\ IsFiniteSet(Present)
<1>1. tree \in SUBSET Paths /\ IsFiniteSet(tree)
  BY BaselineAssumption DEF ArgumentsOK
<1>2. target.real \in Paths /\ target.real \o TmpSuffix \in Paths
  BY OwnTyped DEF ArgumentsOK
<1>3. IsFiniteSet(Present)
  <2> DEFINE A == IF tmp THEN {target.real \o TmpSuffix} ELSE {}
             B == IF out = "none" THEN {} ELSE {target.real}
  <2>1. IsFiniteSet(A) /\ IsFiniteSet(B)
    BY FS_Singleton, FS_EmptySet
  <2>2. Present = tree \cup A \cup B
    BY DEF Present
  <2> HIDE DEF A, B
  <2> QED BY <1>1, <2>1, <2>2, FS_Union
<1> QED BY <1>1, <1>2, <1>3 DEF Present

LEMMA IntendedTyped == ASSUME ArgumentsOK PROVE intended \in Seq(Paths)
<1> DEFINE P == tree \ ToSet(Own(target.real))
<1>1. P \in SUBSET Paths /\ IsFiniteSet(P)
  BY TreeTyped, FS_Subset
<1> HIDE DEF P
<1>2. WalkOrder(New(root.given, listed, AutoPatterns), root, P) \in Seq(Paths)
  BY <1>1, WalkOrderTyped DEF ArgumentsOK
<1> QED BY <1>2 DEF ArgumentsOK, Intended, P

-----------------------------------------------------------------------------
(* The types of a run's state, whatever the names.                         *)

EntryOf == [path: Paths, value: {"entry"}]

TypeInv ==
    /\ ArgumentsOK
    /\ TypeOK
    /\ plan \in Seq(Paths) /\ added \in Seq(EntryOf)
    /\ phase \in {"start", "refused", "created"} => fed = 0 /\ plan = <<>> /\ entries = 0
    /\ phase = "walking" => entries = fed

LEMMA TypeInvInit == Init => TypeInv
<1> SUFFICES ASSUME Init PROVE TypeInv
  OBVIOUS
<1>1. added = <<>> /\ entries = 0 /\ plan = <<>> /\ fed = 0
  BY DEF Init, W!Init
<1>2. ArgumentsOK
  BY DEF Init, ArgumentsOK
<1>3. <<>> \in Seq(Paths) /\ <<>> \in Seq(EntryOf) /\ Len(<<>>) = 0
  OBVIOUS
<1>4. /\ phase = "start" /\ exit = "running" /\ out \in {"none", "earlier"}
      /\ tmp = FALSE /\ cancelled = FALSE /\ fault = FALSE
  BY DEF Init
<1>5. TypeOK
  <2>1. fed \in 0 .. Len(plan) /\ entries = Len(added) /\ entries \in {fed, fed - 1}
    BY <1>1, <1>3
  <2>2. tmp <=> phase \in {"created", "walking", "committing"}
    BY <1>4
  <2>3. cancelled \in BOOLEAN /\ fault \in BOOLEAN
    BY <1>4
  <2> QED BY <1>4, <2>1, <2>2, <2>3 DEF TypeOK
<1> QED BY <1>1, <1>2, <1>3, <1>4, <1>5 DEF TypeInv

LEMMA ArgumentsKept == ASSUME ArgumentsOK, UNCHANGED arguments PROVE ArgumentsOK'
BY DEF ArgumentsOK, arguments, Intended, AutoPatterns

LEMMA TypeInvKept == ASSUME TypeInv, [Next]_vars PROVE TypeInv'
<1>1. UNCHANGED arguments
  BY DEF Next, vars, Refuse, Create, CreateFails, Compile, Emit, WalkCut, CloseWriter, Commit,
         Interrupt, Over
<1>2. ArgumentsOK'
  BY <1>1, ArgumentsKept DEF TypeInv
<1> USE DEF TypeInv, TypeOK
<1>3. CASE Refuse \/ Create \/ CreateFails
  <2>1. CASE Refuse
    BY <1>2, <2>1 DEF Refuse, written
  <2>2. CASE Create
    BY <1>2, <2>2 DEF Create, written
  <2>3. CASE CreateFails
    BY <1>2, <2>3 DEF CreateFails, Return, written
  <2> QED BY <1>3, <2>1, <2>2, <2>3
<1>4. CASE Compile
  <2>1. UNCHANGED <<out, fed, written>> /\ cancelled' = cancelled /\ phase = "created"
    BY <1>4 DEF Compile
  <2> DEFINE s == New(root.given, listed, AutoPatterns)
  <2>2. CASE s.ok
    <3>1. phase' = "walking" /\ plan' = WalkOrder(s, root, Present) /\ UNCHANGED <<fault, tmp, exit>>
      BY <1>4, <2>2 DEF Compile
    <3>2. plan' \in Seq(Paths)
      <4> HIDE DEF s
      <4>1. root \in Roots
        BY DEF ArgumentsOK
      <4> QED BY <3>1, <4>1, TreeTyped, WalkOrderTyped
    <3>3. Len(plan') \in Nat
      BY <3>2
    <3> HIDE DEF s
    <3> QED BY <1>2, <2>1, <3>1, <3>2, <3>3 DEF written
  <2>3. CASE ~s.ok
    <3>1. fault' = TRUE /\ exit' = "error" /\ phase' = "over" /\ tmp' = FALSE /\ UNCHANGED plan
      BY <1>4, <2>3 DEF Compile, Return
    <3> HIDE DEF s
    <3> QED BY <1>2, <2>1, <3>1 DEF written
  <2> QED BY <2>2, <2>3
<1>5. CASE Emit
  <2> DEFINE e == [path |-> plan[fed + 1], value |-> "entry"]
  <2>1. /\ phase = "walking" /\ fed < Len(plan) /\ fed' = fed + 1
        /\ UNCHANGED <<cancelled, out, plan>>
    BY <1>5 DEF Emit
  <2>2. fed + 1 \in 1 .. Len(plan) /\ e \in EntryOf /\ fed' \in 0 .. Len(plan)
    BY <2>1 DEF EntryOf
  <2>3. \/ /\ entries' = entries + 1 /\ added' = Append(added, e)
           /\ \/ UNCHANGED <<phase, fault, tmp, exit>>
              \/ fault' = TRUE /\ Return(WalkCode)
        \/ Return(WalkCode) /\ UNCHANGED <<fault, entries, added>>
    BY <1>5 DEF Emit, W!Add, written
  <2>4. Return(WalkCode) => phase' = "over" /\ tmp' = FALSE /\ exit' \in {"interrupted", "error"}
    BY DEF Return, WalkCode
  <2> HIDE DEF e
  <2>5. added' = Append(added, e) => added' \in Seq(EntryOf) /\ Len(added') = Len(added) + 1
    <3>1. added \in Seq(EntryOf)
      BY DEF TypeInv
    <3>2. Append(added, e) \in Seq(EntryOf) /\ Len(Append(added, e)) = Len(added) + 1
      BY <2>2, <3>1, AppendProperties
    <3> QED BY <3>2
  <2>6. CASE entries' = entries + 1 /\ added' = Append(added, e)
    <3>1. added' \in Seq(EntryOf) /\ entries' = Len(added') /\ entries' \in {fed', fed' - 1}
      <4>1. added' \in Seq(EntryOf) /\ Len(added') = Len(added) + 1
        BY <2>5, <2>6
      <4>2. entries = Len(added) /\ entries \in {fed, fed - 1} /\ fed \in Nat
        BY DEF TypeInv, TypeOK
      <4> QED BY <2>1, <2>6, <4>1, <4>2
    <3>2. \/ UNCHANGED <<phase, fault, tmp, exit>>
          \/ /\ fault' = TRUE /\ phase' = "over" /\ tmp' = FALSE
             /\ exit' \in {"interrupted", "error"}
      BY <2>2, <2>3, <2>4, <2>6
    <3>3. CASE UNCHANGED <<phase, fault, tmp, exit>>
      BY <1>2, <2>1, <2>2, <2>6, <3>1, <3>3
    <3>4. CASE fault' = TRUE /\ phase' = "over" /\ tmp' = FALSE /\ exit' \in {"interrupted", "error"}
      BY <1>2, <2>1, <2>2, <3>1, <3>4
    <3> QED BY <3>2, <3>3, <3>4
  <2>7. CASE Return(WalkCode) /\ UNCHANGED <<fault, entries, added>>
    BY <1>2, <2>1, <2>2, <2>4, <2>7
  <2> QED BY <2>3, <2>6, <2>7
<1>6. CASE WalkCut
  BY <1>2, <1>6 DEF WalkCut, Return, WalkCode, written
<1>7. CASE CloseWriter
  <2>1. UNCHANGED <<entries, added>>
    BY <1>7 DEF CloseWriter, W!Close
  <2> QED BY <1>2, <1>7, <2>1 DEF CloseWriter, Return
<1>8. CASE Commit
  BY <1>2, <1>8 DEF Commit, Return, written
<1>9. CASE Interrupt \/ Over \/ UNCHANGED vars
  <2>1. CASE Interrupt
    BY <1>2, <2>1 DEF Interrupt, written
  <2>2. CASE UNCHANGED vars
    BY <1>2, <2>2 DEF vars, command, written
  <2> QED BY <1>9, <2>1, <2>2 DEF Over
<1> QED BY <1>3, <1>4, <1>5, <1>6, <1>7, <1>8, <1>9 DEF Next

LEMMA TypeInvariant == Spec => []TypeInv
BY TypeInvInit, TypeInvKept, PTL DEF Spec

\* The state of a run has its types, and as many entries are written as the walk has
\* emitted, or one less if the writer refused the last (runBaseline, Writer.Add).
THEOREM BaselineTypeOK == Spec => []TypeOK
<1>1. TypeInv => TypeOK
  BY DEF TypeInv
<1> QED BY <1>1, TypeInvariant, PTL

-----------------------------------------------------------------------------
(* Plain names.                                                            *)

\* What is in a pair.
LEMMA PairSet == ASSUME NEW x, NEW y PROVE ToSet(<<x, y>>) = {x, y}
<1>1. DOMAIN <<x, y>> = {1, 2}
  OBVIOUS
<1>2. ToSet(<<x, y>>) = {<<x, y>>[i] : i \in {1, 2}}
  BY <1>1 DEF ToSet
<1> QED BY <1>2

\* The files of two names, one after the other.
LEMMA OwnOfBoth ==
    ASSUME NEW p \in Paths, NEW q \in Paths
    PROVE  ToSet(Own(p) \o Own(q)) = ToSet(Own(p)) \cup ToSet(Own(q))
<1> DEFINE a == p \o TmpSuffix
           b == q \o TmpSuffix
           l == <<p, a>> \o <<q, b>>
<1>1. a \in Paths /\ b \in Paths
  BY BaselineAssumption DEF Paths
<1>2. Own(p) = <<p, a>> /\ Own(q) = <<q, b>>
  BY DEF Own
<1> HIDE DEF a, b
<1>3. Len(l) = 4 /\ l \in Seq(Paths) /\ l[1] = p /\ l[2] = a /\ l[3] = q /\ l[4] = b
  BY <1>1
<1>4. Own(p) \o Own(q) = l
  BY <1>2
<1> HIDE DEF l
<1>5. ToSet(l) = {p, a, q, b}
  <2>1. DOMAIN l = 1 .. 4
    BY <1>3
  <2>2. \A i \in 1 .. 4 : i = 1 \/ i = 2 \/ i = 3 \/ i = 4
    OBVIOUS
  <2> QED BY <1>3, <2>1, <2>2 DEF ToSet
<1>6. ToSet(Own(p)) = {p, a} /\ ToSet(Own(q)) = {q, b}
  BY <1>2, PairSet
<1> QED BY <1>4, <1>5, <1>6

\* The two files of a target.
LEMMA OwnPair ==
    ASSUME NEW t \in Targets
    PROVE  /\ ToSet(Own(t.real)) = {t.real, t.real \o TmpSuffix}
           /\ ToSet(Own(t.real)) \subseteq OwnFiles
           /\ ToSet(Own(t.real)) \subseteq Paths
<1>1. Own(t.real) = <<t.real, t.real \o TmpSuffix>>
  BY DEF Own
<1>2. ToSet(<<t.real, t.real \o TmpSuffix>>) = {t.real, t.real \o TmpSuffix}
  BY PairSet
<1>3. ToSet(Own(t.real)) \subseteq OwnFiles
  BY DEF OwnFiles
<1> QED BY <1>1, <1>2, <1>3, OwnTyped

LEMMA OwnFilesTyped == OwnFiles \subseteq Paths
BY OwnPair, BaselineAssumption DEF OwnFiles

\* What is under a path is this path or below it.
LEMMA UnderIsBelow ==
    ASSUME NEW p \in Paths, Absolute(p), NEW o \in Paths, Under(p, o)
    PROVE  p = o \/ Below(p, o)
<1>1. Len(p) \in Nat \ {0} /\ Len(o) \in Nat /\ p[1] = Slash
  BY DEF Paths, Absolute
<1>2. CASE o = <<Slash>>
  <2>1. Prefix(o, p)
    BY <1>1, <1>2 DEF Prefix
  <2>2. Len(p) = 1 => p = o
    BY <1>1, <1>2 DEF Paths
  <2>3. Len(o) = 1
    BY <1>2
  <2>4. Len(p) = 1 \/ Len(p) > Len(o)
    BY <1>1, <2>3
  <2>5. Len(p) > Len(o) => Below(p, o)
    BY <1>1, <1>2, <2>1, <2>3 DEF Below
  <2> QED BY <2>2, <2>4, <2>5
<1>3. CASE o # <<Slash>>
  <2>1. Prefix(o, p) /\ (Len(p) = Len(o) \/ p[Len(o) + 1] = Slash)
    BY <1>3 DEF Under
  <2>2. Len(p) = Len(o) => p = o
    BY <1>1, <2>1 DEF Prefix, Paths
  <2> QED BY <1>1, <2>1, <2>2 DEF Below, Prefix
<1> QED BY <1>2, <1>3

\* No root is under a file of the run, and each root is clean.
LEMMA RootsArePlain ==
    ASSUME ArgumentsOK, PlainNames
    PROVE  /\ root.given = root.real /\ root.real \in Paths /\ Absolute(root.real)
           /\ root \in [given: Paths, real: Paths]
           /\ root.real \in tree /\ Clean(root.given) = root.real
           /\ \A o \in OwnFiles : Plain(o) /\ ~Under(root.real, o) /\ o # root.real
<1>1. /\ root.given = root.real /\ root.real \in Paths /\ Absolute(root.real)
      /\ root \in [given: Paths, real: Paths]
      /\ root.real \in tree /\ Clean(root.given) = root.real
  BY BaselineAssumption DEF ArgumentsOK, PlainNames
<1>2. ASSUME NEW o \in OwnFiles PROVE Plain(o) /\ ~Under(root.real, o) /\ o # root.real
  <2>1. Plain(o) /\ o # root.real /\ ~Below(root.real, o)
    BY <1>1 DEF PlainNames, ArgumentsOK
  <2> QED BY <1>1, <2>1, OwnFilesTyped, UnderIsBelow
<1> QED BY <1>1, <1>2

\* The walk comes to every path of the tree, and of the run, by its own name.
LEMMA WalkedByName ==
    ASSUME ArgumentsOK, PlainNames, NEW p \in tree \cup OwnFiles,
           p = root.real \/ Below(p, root.real)
    PROVE  PathAs(root, p) = p /\ Absolute(p)
<1>1. p \in Paths /\ Clean(p) = p
  <2>1. CASE p \in tree
    BY <2>1, BaselineAssumption DEF ArgumentsOK
  <2>2. CASE p \in OwnFiles
    BY <2>2, RootsArePlain, OwnFilesTyped DEF Plain
  <2> QED BY <2>1, <2>2
<1>2. PathAs(root, p) = p
  BY <1>1, RootsArePlain, PathAsItself
<1>3. Absolute(p)
  <2>1. CASE p = root.real
    BY <2>1, RootsArePlain
  <2>2. CASE Below(p, root.real)
    <3>1. root.real \in Paths /\ Absolute(root.real)
      BY RootsArePlain
    <3>2. Len(root.real) \in Nat \ {0} /\ root.real[1] = Slash
      BY <3>1 DEF Absolute, Paths
    <3>3. p[1] = Slash /\ p # <<>>
      BY <1>1, <2>2, <3>2 DEF Below, Prefix, Paths
    <3> QED BY <3>3 DEF Absolute
  <2> QED BY <2>1, <2>2
<1> QED BY <1>2, <1>3

\* The files a command leaves out, which cover no root.
LEMMA OwnThree ==
    ASSUME ArgumentsOK, PlainNames, NEW t \in Targets
    PROVE  LET a == Binary
               b == t.real
               c == t.real \o TmpSuffix
           IN  /\ a \in Paths /\ b \in Paths /\ c \in Paths
               /\ {a, b, c} = {Binary} \cup ToSet(Own(t.real))
               /\ <<Binary>> \o Own(t.given) = <<a, b, c>>
               /\ PlainAuto(root.given, a, b, c)
<1> DEFINE a == Binary
           b == t.real
           c == t.real \o TmpSuffix
<1>1. a \in Paths /\ b \in Paths /\ c \in Paths
  BY BaselineAssumption, OwnTyped
<1>2. {a, b, c} \subseteq OwnFiles /\ {a, b, c} = {Binary} \cup ToSet(Own(t.real))
  BY OwnPair DEF OwnFiles
<1>3. <<Binary>> \o Own(t.given) = <<a, b, c>>
  <2>1. t.given = t.real
    BY DEF PlainNames
  <2>2. \A x, y, z \in Paths : <<x>> \o <<y, z>> = <<x, y, z>>
    <3> TAKE x, y, z \in Paths
    <3> DEFINE l == <<x>> \o <<y, z>>
    <3>1. l \in Seq(Paths) /\ Len(l) = 3 /\ l[1] = x /\ l[2] = y /\ l[3] = z
      OBVIOUS
    <3> HIDE DEF l
    <3>2. l = <<x, y, z>>
      BY <3>1
    <3> QED BY <3>2 DEF l
  <2>3. <<Binary>> \o Own(t.given) = <<a>> \o <<b, c>>
    BY <2>1 DEF Own
  <2> HIDE DEF a, b, c
  <2> QED BY <1>1, <2>2, <2>3
<1>4. PlainAuto(root.given, a, b, c)
  BY <1>2, RootsArePlain DEF PlainAuto
<1> QED BY <1>1, <1>2, <1>3, <1>4

\* The exclusion set of the run.
LEMMA PerimeterCompiled ==
    ASSUME ArgumentsOK, PlainNames
    PROVE  LET s == New(root.given, listed, AutoPatterns)
           IN  /\ s \in ExclusionSet /\ s.root = root.real
               /\ s.ok => /\ Compiled(s)
                          /\ \A o \in {Binary} \cup ToSet(Own(target.real)) : Match(s, o)
<1> DEFINE a == Binary
           b == target.real
           c == target.real \o TmpSuffix
<1>1. a \in Paths /\ b \in Paths /\ c \in Paths
  BY OwnThree DEF ArgumentsOK
<1>2. {a, b, c} = {Binary} \cup ToSet(Own(target.real))
  BY OwnThree DEF ArgumentsOK
<1>3. AutoPatterns = <<a, b, c>>
  BY OwnThree DEF ArgumentsOK, AutoPatterns
<1>4. root.given \in Paths /\ listed \in Seq(Paths) /\ Clean(root.given) = root.real
  BY RootsArePlain, BaselineAssumption DEF ArgumentsOK
<1>5. PlainAuto(root.given, a, b, c)
  BY OwnThree DEF ArgumentsOK
<1> HIDE DEF a, b, c
<1> DEFINE s == New(root.given, listed, <<a, b, c>>)
<1>6. /\ s \in ExclusionSet /\ s.root = Clean(root.given)
      /\ s.ok => Compiled(s) /\ \A o \in {a, b, c} : Match(s, o)
  <2>1. SetFor(s, Clean(root.given))
    BY <1>1, <1>4, <1>5, NewMatchesAuto
  <2>2. s.ok => Compiled(s)
    BY <1>1, <1>4, <1>5, NewMatchesAuto
  <2>3. s.ok => \A o \in {a, b, c} : Match(s, o)
    BY <1>1, <1>4, <1>5, NewMatchesAuto
  <2> QED BY <2>1, <2>2, <2>3 DEF SetFor
<1> HIDE DEF s
<1>7. New(root.given, listed, AutoPatterns) = s
  BY <1>3 DEF s
<1> QED BY <1>2, <1>4, <1>6, <1>7

-----------------------------------------------------------------------------
(* The plan of the walk is what the run should record.                     *)

\* A walk meets the same paths without the files of O, if it leaves them out anyway and
\* there is nothing below them.
LEMMA WalkedWithout ==
    ASSUME NEW s, NEW r, NEW P, NEW O,
           \A o \in O : o # r.real /\ (Below(o, r.real) => Match(s, PathAs(r, o))),
           \A p \in P, o \in O : ~Below(p, o)
    PROVE  Walked(s, r, P) = Walked(s, r, P \ O)
BY DEF Walked

\* Sets that agree on what is outside of O meet the same paths there.
LEMMA WalkedOutside ==
    ASSUME NEW s, NEW t, NEW r, NEW P, NEW Q, NEW O,
           P \ O = Q \ O,
           \A p \in P \cup Q, o \in O : ~Below(p, o),
           \A p \in P \ O : Below(p, r.real) => (Match(s, PathAs(r, p)) <=> Match(t, PathAs(r, p)))
    PROVE  Walked(s, r, P) \ O = Walked(t, r, Q) \ O
<1>1. ASSUME NEW p \in Walked(s, r, P) \ O PROVE p \in Walked(t, r, Q)
  <2>1. p \in P /\ p \in Q
    BY DEF Walked
  <2>2. CASE p = r.real
    BY <2>1, <2>2 DEF Walked
  <2>3. CASE p # r.real
    <3>1. /\ Below(p, r.real)
          /\ \A q \in P : (q = p \/ Below(p, q)) /\ Below(q, r.real) => ~Match(s, PathAs(r, q))
      BY <2>3 DEF Walked
    <3>2. ASSUME NEW q \in Q, q = p \/ Below(p, q), Below(q, r.real) PROVE ~Match(t, PathAs(r, q))
      <4>1. q \in P \ O
        BY <2>1, <3>2
      <4> QED BY <3>1, <3>2, <4>1
    <3> QED BY <2>1, <3>1, <3>2 DEF Walked
  <2> QED BY <2>2, <2>3
<1>2. ASSUME NEW p \in Walked(t, r, Q) \ O PROVE p \in Walked(s, r, P)
  <2>1. p \in P /\ p \in Q
    BY DEF Walked
  <2>2. CASE p = r.real
    BY <2>1, <2>2 DEF Walked
  <2>3. CASE p # r.real
    <3>1. /\ Below(p, r.real)
          /\ \A q \in Q : (q = p \/ Below(p, q)) /\ Below(q, r.real) => ~Match(t, PathAs(r, q))
      BY <2>3 DEF Walked
    <3>2. ASSUME NEW q \in P, q = p \/ Below(p, q), Below(q, r.real) PROVE ~Match(s, PathAs(r, q))
      <4>1. q \in P \ O /\ q \in Q
        BY <2>1, <3>2
      <4> QED BY <3>1, <3>2, <4>1
    <3> QED BY <2>1, <3>1, <3>2 DEF Walked
  <2> QED BY <2>2, <2>3
<1> QED BY <1>1, <1>2

\* Nothing is below a file of the run.
LEMMA NothingBelowOwn ==
    ASSUME ArgumentsOK, PlainNames, NEW o \in OwnFiles, NEW p \in tree \cup OwnFiles
    PROVE  ~Below(p, o)
BY DEF ArgumentsOK, PlainNames

\* What the walk comes by are paths of the tree and of the run.
LEMMA PresentIsTree ==
    ASSUME ArgumentsOK
    PROVE  /\ Present \subseteq tree \cup OwnFiles
           /\ Present \ ToSet(Own(target.real)) = tree \ ToSet(Own(target.real))
<1>1. /\ ToSet(Own(target.real)) = {target.real, target.real \o TmpSuffix}
      /\ ToSet(Own(target.real)) \subseteq OwnFiles
  BY OwnPair DEF ArgumentsOK
<1>2. \A x \in Present : x \in tree \/ x \in ToSet(Own(target.real))
  BY <1>1 DEF Present
<1>3. tree \subseteq Present
  BY DEF Present
<1> QED BY <1>1, <1>2, <1>3

\* The paths the run should record: those the walk meets, each by its own name, in the
\* order the writer requires.
Perimeter == Walked(New(root.given, listed, AutoPatterns), root, tree \ ToSet(Own(target.real)))

LEMMA PerimeterByName ==
    ASSUME ArgumentsOK, PlainNames, NEW s, NEW p \in Walked(s, root, tree \cup OwnFiles)
    PROVE  PathAs(root, p) = p /\ Absolute(p)
<1>1. p \in tree \cup OwnFiles /\ (p = root.real \/ Below(p, root.real))
  BY DEF Walked
<1> QED BY <1>1, WalkedByName

LEMMA IntendedInOrder ==
    ASSUME ArgumentsOK, PlainNames
    PROVE  /\ \A i \in 1 .. Len(intended) : intended[i] \in Perimeter /\ intended[i] # <<>>
           /\ \A p \in Perimeter : \E i \in 1 .. Len(intended) : intended[i] = p
           /\ \A i, j \in 1 .. Len(intended) : i < j => Less(intended[i], intended[j])
<1> DEFINE P == tree \ ToSet(Own(target.real))
           s == New(root.given, listed, AutoPatterns)
           o == InWalkOrder(Perimeter)
<1>1. P \in SUBSET Paths /\ IsFiniteSet(P)
  BY TreeTyped, FS_Subset
<1>2. intended = WalkOrder(s, root, P) /\ Perimeter = Walked(s, root, P)
  BY DEF ArgumentsOK, Intended, Perimeter
<1>3. \A p \in Perimeter : PathAs(root, p) = p /\ p # <<>>
  <2>1. \A p \in Perimeter : p \in tree /\ (p = root.real \/ Below(p, root.real))
    BY DEF Perimeter, Walked
  <2> QED BY <2>1, WalkedByName DEF Absolute
<1> HIDE DEF P, s
<1>4. /\ Perimeter \in SUBSET Paths /\ IsFiniteSet(Perimeter)
      /\ Len(intended) = Len(o)
      /\ \A i \in 1 .. Len(o) : intended[i] = PathAs(root, o[i])
  <2> DEFINE met == Walked(s, root, P)
             all == WalkOrder(s, root, P)
  <2>1. root \in Roots
    BY DEF ArgumentsOK
  <2>2. /\ met \in SUBSET Paths /\ IsFiniteSet(met)
        /\ Len(all) = Len(InWalkOrder(met))
        /\ \A i \in 1 .. Len(InWalkOrder(met)) : all[i] = PathAs(root, InWalkOrder(met)[i])
    BY <1>1, <2>1, WalkOrderTyped
  <2> QED BY <1>2, <2>2
<1>5. /\ o \in Seq(Perimeter)
      /\ \A i, j \in 1 .. Len(o) : i < j => Less(o[i], o[j])
      /\ \A p \in Perimeter : \E i \in 1 .. Len(o) : o[i] = p
  BY <1>4, WalkOrderLists
<1> HIDE DEF o
<1>6. \A i \in 1 .. Len(o) : o[i] \in Perimeter /\ intended[i] = o[i]
  BY <1>3, <1>4, <1>5
<1> QED BY <1>3, <1>4, <1>5, <1>6

\* The files the run has put there do not change what the walk emits.
LEMMA PlanIsIntended ==
    ASSUME ArgumentsOK, PlainNames, New(root.given, listed, AutoPatterns).ok
    PROVE  WalkOrder(New(root.given, listed, AutoPatterns), root, Present) = intended
<1> DEFINE O == ToSet(Own(target.real))
           s == New(root.given, listed, AutoPatterns)
           f == WalkOrder(s, root, Present)
           o == InWalkOrder(Walked(s, root, Present))
<1>1. O \subseteq OwnFiles
  BY OwnPair DEF ArgumentsOK
<1>2. \A x \in O : x # root.real /\ (Below(x, root.real) => Match(s, PathAs(root, x)))
  <2>1. \A x \in O : Match(s, x)
    BY PerimeterCompiled
  <2>2. \A x \in O : x # root.real
    BY <1>1, RootsArePlain
  <2>3. \A x \in O : Below(x, root.real) => PathAs(root, x) = x
    BY <1>1, WalkedByName
  <2> QED BY <2>1, <2>2, <2>3
<1>3. \A p \in Present, x \in O : ~Below(p, x)
  BY <1>1, PresentIsTree, NothingBelowOwn
<1> HIDE DEF s
<1>4. Walked(s, root, Present) = Walked(s, root, Present \ O)
  <2> HIDE DEF O
  <2> QED BY <1>2, <1>3, WalkedWithout
<1>5. Present \ O = tree \ O
  BY PresentIsTree
<1>6. /\ intended \in Seq(Paths) /\ Len(intended) = Len(o)
      /\ \A i \in 1 .. Len(o) : intended[i] = PathAs(root, o[i])
  <2>1. tree \ O \in SUBSET Paths /\ IsFiniteSet(tree \ O)
    BY TreeTyped, FS_Subset
  <2>2. intended = WalkOrder(s, root, tree \ O)
    BY DEF ArgumentsOK, Intended, s
  <2> DEFINE met == Walked(s, root, tree \ O)
             all == WalkOrder(s, root, tree \ O)
  <2>3. root \in Roots
    BY DEF ArgumentsOK
  <2>4. /\ all \in Seq(Paths) /\ Len(all) = Len(InWalkOrder(met))
        /\ \A i \in 1 .. Len(InWalkOrder(met)) : all[i] = PathAs(root, InWalkOrder(met)[i])
    <3> HIDE DEF O
    <3> QED BY <2>1, <2>3, WalkOrderTyped
  <2>5. met = Walked(s, root, Present)
    BY <1>4, <1>5
  <2> HIDE DEF all, met
  <2> QED BY <2>2, <2>4, <2>5 DEF all
<1>7. /\ f \in Seq(Paths) /\ Len(f) = Len(o)
      /\ \A i \in 1 .. Len(o) : f[i] = PathAs(root, o[i])
  BY TreeTyped, WalkOrderTyped DEF ArgumentsOK
<1> HIDE DEF f, o
<1>8. f = intended
  BY <1>6, <1>7
<1> QED BY <1>8 DEF f, s

-----------------------------------------------------------------------------
(* A run whose names are plain.                                            *)

\* Until the walk nothing is written, and the name has what it had; while it lasts, what
\* is written is the beginning of the plan; a new file has the whole of it.
RunInv ==
    /\ TypeInv
    /\ phase # "over" => out # "new" /\ exit # "ok"
    /\ phase \in {"start", "created"} => wphase = "writing" /\ added = <<>> /\ lastKey = <<>>
    /\ phase \in {"walking", "committing"} =>
          set = New(root.given, listed, AutoPatterns) /\ set.ok /\ plan = intended
    /\ phase = "walking" =>
          /\ wphase = "writing"
          /\ \A i \in 1 .. Len(added) : added[i].path = plan[i]
          /\ lastKey = IF fed = 0 THEN <<>> ELSE plan[fed]
    /\ phase = "committing" \/ out = "new" =>
          /\ wphase = "sealed" /\ Recorded = intended
          /\ set = New(root.given, listed, AutoPatterns) /\ set.ok
    /\ exit = "ok" => out = "new"

LEMMA RunInvInit == Init => RunInv
<1> SUFFICES ASSUME Init PROVE RunInv
  OBVIOUS
<1>1. TypeInv
  BY TypeInvInit
<1>2. /\ wphase = "writing" /\ added = <<>> /\ lastKey = <<>>
      /\ phase = "start" /\ exit = "running" /\ out # "new"
  BY DEF Init, W!Init
<1> QED BY <1>1, <1>2 DEF RunInv

\* The writer takes what the walk emits.
LEMMA NeverRefused ==
    ASSUME PlainNames, RunInv, phase = "walking", fed < Len(plan)
    PROVE  ~W!Refuses([path |-> plan[fed + 1], value |-> "entry"])
<1>1. /\ ArgumentsOK /\ plan = intended /\ fed \in Nat /\ Len(plan) \in Nat
      /\ lastKey = IF fed = 0 THEN <<>> ELSE plan[fed]
  BY DEF RunInv, TypeInv, TypeOK
<1>2. fed + 1 \in 1 .. Len(intended) /\ (fed # 0 => fed \in 1 .. Len(intended))
  BY <1>1
<1>3. plan[fed + 1] # <<>> /\ (fed # 0 => Less(plan[fed], plan[fed + 1]))
  BY <1>1, <1>2, IntendedInOrder
<1> QED BY <1>1, <1>3 DEF W!Refuses, W!OutOfOrder, W!Less, W!ByteBelow, W!DifferAt,
                          W!ShorterFirst, W!Prefix, Less, ByteBelow, DifferAt, ShorterFirst, Prefix

LEMMA RunInvKept == ASSUME PlainNames, RunInv, [Next]_vars PROVE RunInv'
<1>1. TypeInv' /\ UNCHANGED arguments
  <2>1. TypeInv'
    BY TypeInvKept DEF RunInv
  <2>2. UNCHANGED arguments
    BY DEF Next, vars, Refuse, Create, CreateFails, Compile, Emit, WalkCut, CloseWriter, Commit,
           Interrupt, Over
  <2> QED BY <2>1, <2>2
<1>2. /\ ArgumentsOK /\ TypeOK /\ plan \in Seq(Paths) /\ added \in Seq(EntryOf)
      /\ intended \in Seq(Paths)
      /\ phase \in {"start", "refused", "created"} => fed = 0
      /\ phase = "walking" => entries = fed
  BY IntendedTyped DEF RunInv, TypeInv
<1> DEFINE s == New(root.given, listed, AutoPatterns)
<1>3. s' = s /\ intended' = intended
  BY <1>1 DEF arguments, AutoPatterns
<1>4. Recorded' = Recorded \/ ~UNCHANGED added
  BY DEF Recorded
<1> HIDE DEF s
<1>5. CASE Refuse
  BY <1>1, <1>2, <1>3, <1>4, <1>5 DEF Refuse, RunInv, written, s
<1>6. CASE Create
  BY <1>1, <1>2, <1>3, <1>4, <1>6 DEF Create, RunInv, written, s
<1>7. CASE CreateFails
  BY <1>1, <1>2, <1>3, <1>4, <1>7 DEF CreateFails, Return, RunInv, written, s
<1>8. CASE Compile
  <2>1. /\ phase = "created" /\ set' = s /\ UNCHANGED <<out, fed, written>>
        /\ added = <<>> /\ lastKey = <<>> /\ wphase = "writing" /\ fed = 0 /\ out # "new"
    BY <1>2, <1>8 DEF Compile, RunInv, s
  <2>2. CASE s.ok
    <3>1. phase' = "walking" /\ plan' = WalkOrder(s, root, Present) /\ UNCHANGED exit
      BY <1>8, <2>2 DEF Compile, s
    <3>2. plan' = intended
      BY <1>2, <2>2, <3>1, PlanIsIntended DEF s
    <3>3. /\ added' = <<>> /\ lastKey' = <<>> /\ wphase' = "writing" /\ fed' = 0 /\ out' # "new"
          /\ exit' = exit /\ Len(added') = 0
      BY <2>1, <3>1 DEF written
    <3>4. exit # "ok"
      BY <2>1 DEF RunInv
    <3> QED BY <1>1, <1>3, <2>1, <2>2, <3>1, <3>2, <3>3, <3>4 DEF RunInv, s
  <2>3. CASE ~s.ok
    <3>1. phase' = "over" /\ exit' = "error" /\ out' # "new"
      BY <1>8, <2>1, <2>3 DEF Compile, Return, s
    <3> QED BY <1>1, <3>1 DEF RunInv
  <2> QED BY <2>2, <2>3
<1>9. CASE Emit
  <2> DEFINE e == [path |-> plan[fed + 1], value |-> "entry"]
  <2>1. /\ phase = "walking" /\ fed < Len(plan) /\ fed' = fed + 1
        /\ UNCHANGED <<cancelled, out, set, plan>> /\ out # "new"
    BY <1>9 DEF Emit, RunInv
  <2>2. ~W!Refuses(e)
    BY <2>1, NeverRefused
  <2>3. \/ W!Add(e) /\ wphase' = "writing" /\ UNCHANGED <<phase, fault, tmp, exit>>
        \/ Return(WalkCode)
    <3> HIDE DEF e
    <3>1. W!Refuses(e) => FALSE
      BY <2>2
    <3> QED BY <1>9, <3>1 DEF Emit, e
  <2>4. CASE W!Add(e) /\ wphase' = "writing" /\ UNCHANGED <<phase, fault, tmp, exit>>
    <3>1. added' = Append(added, e) /\ lastKey' = plan[fed + 1]
      BY <2>4 DEF W!Add
    <3>2. Len(added) = fed /\ fed \in Nat /\ \A i \in 1 .. Len(added) : added[i].path = plan[i]
      BY <1>2, <2>1 DEF RunInv, TypeOK
    <3>3. e \in EntryOf /\ e.path = plan[fed + 1]
      BY <1>2, <2>1, <3>2 DEF EntryOf
    <3> HIDE DEF e
    <3>4. \A i \in 1 .. Len(added') : added'[i].path = plan[i]
      <4>1. /\ Len(added') = fed + 1 /\ added'[fed + 1] = e
            /\ \A i \in 1 .. fed : added'[i] = added[i]
        BY <1>2, <3>1, <3>2, <3>3
      <4> QED BY <3>2, <3>3, <4>1
    <3>5. fed' # 0 /\ lastKey' = plan'[fed']
      BY <2>1, <3>1, <3>2
    <3>6. set = s /\ s.ok /\ plan = intended /\ exit # "ok"
      BY <2>1 DEF RunInv, s
    <3> QED BY <1>1, <1>3, <2>1, <2>4, <3>4, <3>5, <3>6 DEF RunInv, s
  <2>5. CASE Return(WalkCode)
    BY <1>1, <2>1, <2>5 DEF Return, WalkCode, RunInv
  <2> QED BY <2>3, <2>4, <2>5
<1>10. CASE WalkCut
  BY <1>1, <1>10 DEF WalkCut, Return, WalkCode, RunInv
<1>11. CASE CloseWriter
  <2>1. /\ phase = "walking" /\ fed = Len(plan) /\ UNCHANGED <<cancelled, out, set, plan, fed>>
        /\ added' = added
    BY <1>11 DEF CloseWriter, W!Close
  <2>2. \/ wphase' = "sealed" /\ phase' = "committing" /\ UNCHANGED exit
        \/ phase' = "over" /\ exit' = "error"
    BY <1>11 DEF CloseWriter, Return
  <2>3. /\ set = s /\ s.ok /\ plan = intended /\ exit # "ok" /\ out # "new"
        /\ \A i \in 1 .. Len(added) : added[i].path = plan[i]
        /\ Len(added) = Len(plan)
    BY <1>2, <2>1 DEF RunInv, TypeOK, s
  <2>4. Recorded = intended
    <3>1. Recorded = [i \in 1 .. Len(intended) |-> intended[i]]
      BY <2>3 DEF Recorded
    <3> QED BY <1>2, <3>1
  <2>5. Recorded' = intended
    BY <1>4, <2>1, <2>4
  <2> QED BY <1>1, <1>3, <2>1, <2>2, <2>3, <2>5 DEF RunInv, s
<1>12. CASE Commit
  <2>1. /\ phase = "committing" /\ phase' = "over" /\ out' \in {out, "new"} /\ out # "new"
        /\ exit' = "ok" => out' = "new"
        /\ UNCHANGED <<set, written>>
    BY <1>12 DEF Commit, Return, RunInv
  <2>2. set = s /\ s.ok /\ wphase = "sealed" /\ Recorded = intended
    BY <2>1 DEF RunInv, s
  <2>3. wphase' = "sealed" /\ Recorded' = intended
    BY <1>4, <2>1, <2>2 DEF written
  <2> QED BY <1>1, <1>3, <2>1, <2>2, <2>3 DEF RunInv, s
<1>13. CASE Interrupt \/ UNCHANGED vars
  <2>1. UNCHANGED <<phase, out, set, plan, fed, exit, written>>
    BY <1>13 DEF Interrupt, vars, command
  <2>2. Recorded' = Recorded
    BY <1>4, <2>1 DEF written
  <2> QED BY <1>1, <1>3, <2>1, <2>2 DEF RunInv, written, s
<1> QED BY <1>5, <1>6, <1>7, <1>8, <1>9, <1>10, <1>11, <1>12, <1>13 DEF Next, Over

\* Under plain names, what is written is the beginning of what the run should record.
THEOREM RunInvariant == ASSUME PlainNames PROVE Spec => []RunInv
<1>1. Init => RunInv
  BY RunInvInit
<1>2. RunInv /\ [Next]_vars => RunInv'
  BY RunInvKept
<1> QED BY <1>1, <1>2, PTL DEF Spec

-----------------------------------------------------------------------------
(* The promise of Fingerprint.                                             *)

\* Only Commit changes what the reader sees under the name.
LEMMA ThereIsKept == ASSUME out # "new", out' = out PROVE There' = There
BY DEF There

Begun == phase \notin {"start", "refused"}

\* The run ends without a file of its own, for a fault or for the signal.
Stops ==
    /\ phase \in {"created", "walking", "committing"} /\ phase' = "over"
    /\ UNCHANGED <<out, cancelled>>
    /\ (exit' = "error" /\ fault' = TRUE) \/ (cancelled /\ exit' = "interrupted")

\* It goes on, and nothing of it is seen.
GoesOn ==
    /\ phase \in {"created", "walking"} /\ phase' \in {"created", "walking", "committing"}
    /\ UNCHANGED <<out, cancelled, fault, exit>>

\* Each step of a run is one of the promise, or is not seen.
LEMMA PromiseStep ==
    ASSUME PlainNames, RunInv, RunInv', [Next]_vars
    PROVE  [Promise!Next]_(Promise!fingerprintVars)
<1>1. UNCHANGED <<intended, force>>
  BY DEF Next, vars, Refuse, Create, CreateFails, Compile, Emit, WalkCut, CloseWriter, Commit,
         Interrupt, Over, arguments
<1>2. /\ exit = "running" <=> phase \notin {"refused", "over"}
      /\ cancelled \in BOOLEAN /\ fault \in BOOLEAN /\ fault' \in BOOLEAN
      /\ phase # "over" => out # "new"
  BY DEF RunInv, TypeInv, TypeOK
<1>3. SUFFICES \/ UNCHANGED <<intended, force, There, Begun, fault, cancelled, exit>>
               \/ Promise!Begin \/ Promise!Refuse \/ Promise!Signal \/ Promise!Interrupted
               \/ Promise!Succeed \/ Promise!Fail
  BY DEF Promise!Next, Promise!fingerprintVars, Begun
<1>4. CASE Refuse
  <2>1. /\ phase = "start" /\ phase' = "refused" /\ exit' \in {"error", "privilege"}
        /\ UNCHANGED <<cancelled, fault, out>>
    BY <1>4 DEF Refuse
  <2>2. There' = There
    BY <1>2, <2>1, ThereIsKept
  <2> QED BY <1>1, <1>2, <2>1, <2>2 DEF Promise!Refuse
<1>5. CASE Create
  <2>1. /\ phase = "start" /\ phase' = "created" /\ (force \/ out = "none")
        /\ UNCHANGED <<cancelled, fault, out, exit>>
    BY <1>5 DEF Create
  <2>2. There' = There /\ (out = "none" => There = <<>>)
    BY <1>2, <2>1, ThereIsKept DEF There
  <2> QED BY <1>1, <1>2, <2>1, <2>2 DEF Promise!Begin
<1>6. ASSUME Stops PROVE Promise!Interrupted \/ Promise!Fail
  <2>1. There' = There
    BY <1>2, <1>6, ThereIsKept DEF Stops
  <2>2. CASE exit' = "error" /\ fault' = TRUE
    BY <1>1, <1>2, <1>6, <2>1, <2>2 DEF Promise!Fail, Stops
  <2>3. CASE cancelled /\ exit' = "interrupted"
    BY <1>1, <1>2, <1>6, <2>1, <2>3 DEF Promise!Interrupted, Stops
  <2> QED BY <1>6, <2>2, <2>3 DEF Stops
<1>7. ASSUME GoesOn PROVE UNCHANGED <<intended, force, There, Begun, fault, cancelled, exit>>
  <2>1. There' = There
    BY <1>2, <1>7, ThereIsKept DEF GoesOn
  <2> QED BY <1>1, <1>7, <2>1 DEF Begun, GoesOn
<1>8. CASE CreateFails
  <2>1. Stops
    BY <1>8 DEF CreateFails, Return, Stops
  <2> QED BY <1>6, <2>1
<1>9. CASE Compile
  <2>1. CASE New(root.given, listed, AutoPatterns).ok
    <3>1. GoesOn
      BY <1>9, <2>1 DEF Compile, GoesOn
    <3> QED BY <1>7, <3>1
  <2>2. CASE ~New(root.given, listed, AutoPatterns).ok
    <3>1. Stops
      BY <1>9, <2>2 DEF Compile, Return, Stops
    <3> QED BY <1>6, <3>1
  <2> QED BY <2>1, <2>2
<1>10. CASE Emit
  <2> DEFINE e == [path |-> plan[fed + 1], value |-> "entry"]
  <2>1. phase = "walking" /\ fed < Len(plan) /\ UNCHANGED <<cancelled, out>>
    BY <1>10 DEF Emit
  <2>2. ~W!Refuses(e)
    BY <2>1, NeverRefused
  <2>3. \/ UNCHANGED <<phase, fault, tmp, exit>>
        \/ fault' = TRUE /\ Return(WalkCode)
    BY <1>10, <2>2 DEF Emit
  <2>4. CASE UNCHANGED <<phase, fault, tmp, exit>>
    <3>1. GoesOn
      BY <2>1, <2>4 DEF GoesOn
    <3> QED BY <1>7, <3>1
  <2>5. CASE fault' = TRUE /\ Return(WalkCode)
    <3>1. Stops
      BY <1>2, <2>1, <2>5 DEF Return, WalkCode, Stops
    <3> QED BY <1>6, <3>1
  <2> QED BY <2>3, <2>4, <2>5
<1>11. CASE WalkCut
  <2>1. Stops
    BY <1>2, <1>11 DEF WalkCut, Return, WalkCode, Stops
  <2> QED BY <1>6, <2>1
<1>12. CASE CloseWriter
  <2>1. phase = "walking" /\ UNCHANGED <<cancelled, out>>
    BY <1>12 DEF CloseWriter
  <2>2. CASE wphase' = "sealed"
    <3>1. GoesOn
      BY <1>12, <2>1, <2>2 DEF CloseWriter, GoesOn
    <3> QED BY <1>7, <3>1
  <2>3. CASE wphase' # "sealed"
    <3>1. Stops
      BY <1>12, <2>1, <2>3 DEF CloseWriter, Return, Stops
    <3> QED BY <1>6, <3>1
  <2> QED BY <2>2, <2>3
<1>13. CASE Commit
  <2>1. phase = "committing" /\ phase' = "over" /\ cancelled' = cancelled
    BY <1>13 DEF Commit, Return
  <2>2. \/ out' = "new" /\ exit' = "ok" /\ fault' = fault
        \/ out' \in {out, "new"} /\ fault' = TRUE /\ exit' = "error"
    BY <1>13 DEF Commit, Return
  <2>3. out' = "new" => There' = intended
    <3>1. ASSUME out' = "new" PROVE There' = intended'
      BY <3>1 DEF RunInv, There
    <3> QED BY <1>1, <3>1
  <2>4. CASE out' = "new" /\ exit' = "ok" /\ fault' = fault
    BY <1>1, <1>2, <2>1, <2>3, <2>4 DEF Promise!Succeed
  <2>5. CASE out' = "new" /\ fault' = TRUE /\ exit' = "error"
    BY <1>1, <1>2, <2>1, <2>3, <2>5 DEF Promise!Fail
  <2>6. CASE out' = out /\ fault' = TRUE /\ exit' = "error"
    <3>1. Stops
      BY <2>1, <2>6 DEF Stops
    <3> QED BY <1>6, <3>1
  <2> QED BY <2>2, <2>4, <2>5, <2>6
<1>14. CASE Interrupt
  <2>1. /\ exit = "running" /\ cancelled' = TRUE
        /\ UNCHANGED <<phase, fault, out, exit>>
    BY <1>14 DEF Interrupt
  <2>2. There' = There
    BY <1>2, <2>1, ThereIsKept
  <2> QED BY <1>1, <2>1, <2>2 DEF Promise!Signal
<1>15. CASE UNCHANGED vars
  <2>1. There' = There
    BY <1>15 DEF vars, command, written, There, Recorded
  <2> QED BY <1>1, <1>15, <2>1 DEF vars, command, Begun
<1> QED BY <1>4, <1>5, <1>8, <1>9, <1>10, <1>11, <1>12, <1>13, <1>14, <1>15 DEF Next, Over

\* Under the final name there is what was there before or every path of the perimeter in
\* the canonical order; only an interrupt or a failure outside of the command ends a run
\* that began without it (runBaseline, main).
THEOREM BaselineImplementsFingerprint ==
    ASSUME PlainNames PROVE Spec => ImplementsFingerprint
<1>1. Init => Promise!Init
  <2> SUFFICES ASSUME Init PROVE Promise!Init
    OBVIOUS
  <2>1. ArgumentsOK
    BY DEF Init, ArgumentsOK
  <2>2. intended \in Seq(Paths)
    BY <2>1, IntendedTyped
  <2> QED BY <2>2 DEF Init, Promise!Init, There
<1>2. RunInv /\ RunInv' /\ [Next]_vars => [Promise!Next]_(Promise!fingerprintVars)
  BY PromiseStep
<1> QED BY <1>1, <1>2, RunInvariant, PTL DEF Spec, ImplementsFingerprint, Promise!Spec

-----------------------------------------------------------------------------
(* The recorded patterns select the perimeter again.                       *)

\* The value of f at a place depends on that at one further on.
Forward(skip, n) == skip \in [1 .. n -> 1 .. n + 1] /\ \A i \in 1 .. n : skip[i] > i
Precedes(f, n, T, last, skip, join) ==
    /\ f \in [1 .. n + 1 -> T]
    /\ f[n + 1] = last
    /\ \A i \in 1 .. n : f[i] = join[<<i, f[skip[i]]>>]

\* There is one, if no step leaves T.
LEMMA LookAhead ==
    ASSUME NEW n \in Nat, NEW T, NEW last \in T, NEW skip, Forward(skip, n),
           NEW join \in [(1 .. n) \X T -> T]
    PROVE  \E f : Precedes(f, n, T, last, skip, join)
<1> DEFINE Solves(f, m) ==
              /\ f \in [1 .. n + 1 -> T] /\ f[n + 1] = last
              /\ \A i \in n + 1 - m .. n : f[i] = join[<<i, f[skip[i]]>>]
           S == {m \in 0 .. n : \E f : Solves(f, m)}
<1> USE DEF Forward
<1>1. 0 \in S
  <2>1. Solves([i \in 1 .. n + 1 |-> last], 0)
    OBVIOUS
  <2> HIDE DEF Solves
  <2> QED BY <2>1
<1>2. ASSUME NEW m \in 1 .. n, m - 1 \in S PROVE m \in S
  <2>1. PICK f : Solves(f, m - 1)
    BY <1>2
  <2> DEFINE here == n + 1 - m
             v == join[<<here, f[skip[here]]>>]
             g == [f EXCEPT ![here] = v]
  <2>2. here \in 1 .. n /\ skip[here] \in here + 1 .. n + 1
    OBVIOUS
  <2>3. v \in T
    BY <2>1, <2>2
  <2>4. /\ g \in [1 .. n + 1 -> T] /\ g[here] = v
        /\ \A i \in here + 1 .. n + 1 : g[i] = f[i]
    <3> HIDE DEF v
    <3> QED BY <2>1, <2>2, <2>3
  <2>5. g[n + 1] = last
    <3> HIDE DEF g, v
    <3> QED BY <2>1, <2>2, <2>4
  <2>6. ASSUME NEW i \in here .. n PROVE g[i] = join[<<i, g[skip[i]]>>]
    <3>1. skip[i] \in here + 1 .. n + 1
      BY <2>2, <2>6
    <3>2. g[skip[i]] = f[skip[i]]
      <4> HIDE DEF g
      <4> QED BY <2>4, <3>1
    <3>3. i # here => g[i] = f[i] /\ f[i] = join[<<i, f[skip[i]]>>]
      <4> HIDE DEF g, v
      <4> QED BY <2>1, <2>2, <2>4, <2>6
    <3> HIDE DEF g
    <3> QED BY <2>4, <3>2, <3>3
  <2>7. Solves(g, m)
    <3> HIDE DEF g
    <3> QED BY <2>4, <2>5, <2>6
  <2> HIDE DEF Solves, g
  <2> QED BY <2>7
<1>3. n \in S
  <2> HIDE DEF S
  <2>1. Climbs(S, n)
    BY <1>1, <1>2 DEF Climbs
  <2> QED BY <2>1, Climb
<1> QED BY <1>3 DEF Precedes

\* The character that json.Marshal writes for what begins at i, and where it goes on.
CharactersAt(p, i) == {c \in Character : Prefix(c, SubSeq(p, i, Len(p)))}
Written(p, i) ==
    IF CharactersAt(p, i) = {} THEN Replacement ELSE CHOOSE c \in CharactersAt(p, i) : TRUE
After(p, i) == IF CharactersAt(p, i) = {} THEN i + 1 ELSE i + Len(Written(p, i))

\* A character is no longer than what it begins.
LEMMA CharactersFit ==
    ASSUME NEW p \in Paths, NEW i \in 1 .. Len(p), NEW c \in CharactersAt(p, i)
    PROVE  /\ c \in Paths /\ Len(c) \in 1 .. Len(p) + 1 - i
           /\ \A j \in 1 .. Len(c) : c[j] = p[i + j - 1]
<1> DEFINE rest == SubSeq(p, i, Len(p))
<1>1. p \in Seq(Byte) /\ c \in Seq(Byte) /\ c # <<>> /\ Prefix(c, rest)
  BY BaselineAssumption DEF CharactersAt, Paths
<1>2. Len(rest) = Len(p) + 1 - i /\ \A j \in 1 .. Len(p) + 1 - i : rest[j] = p[i + j - 1]
  BY <1>1, SubSeqProperties
<1>3. Len(c) \in Nat \ {0}
  BY <1>1, EmptySeq
<1> HIDE DEF rest
<1> QED BY <1>1, <1>2, <1>3 DEF Prefix, Paths

\* What Json reads, from each place on.
LEMMA JsonReads ==
    ASSUME NEW p \in Paths
    PROVE  \E f :
              /\ Json(p) = f[1]
              /\ f[Len(p) + 1] = <<>>
              /\ \A i \in 1 .. Len(p) : f[i] = Written(p, i) \o f[After(p, i)]
<1> DEFINE n == Len(p)
           Rec(f) == f = [i \in 1 .. n + 1 |->
                            IF i > n THEN <<>> ELSE Written(p, i) \o f[After(p, i)]]
           skip == [i \in 1 .. n |-> After(p, i)]
           join == [x \in (1 .. n) \X Paths |-> Written(p, x[1]) \o x[2]]
           g == CHOOSE f : Rec(f)
<1>1. n \in Nat /\ <<>> \in Paths
  BY DEF Paths
<1>2. ASSUME NEW i \in 1 .. n
      PROVE  Written(p, i) \in Paths /\ After(p, i) \in i + 1 .. n + 1
  <2>1. CASE CharactersAt(p, i) = {}
    BY <1>1, <2>1, BaselineAssumption DEF Written, After
  <2>2. CASE CharactersAt(p, i) # {}
    <3>1. Written(p, i) \in CharactersAt(p, i) /\ After(p, i) = i + Len(Written(p, i))
      BY <2>2 DEF Written, After
    <3>2. Written(p, i) \in Paths /\ Len(Written(p, i)) \in 1 .. n + 1 - i
      BY <3>1, CharactersFit
    <3> HIDE DEF n
    <3> QED BY <1>1, <3>1, <3>2
  <2> QED BY <2>1, <2>2
<1>3. Forward(skip, n)
  <2> HIDE DEF n
  <2> QED BY <1>1, <1>2 DEF Forward
<1>4. join \in [(1 .. n) \X Paths -> Paths]
  BY <1>2, ConcatProperties DEF Paths
<1>5. PICK f : Precedes(f, n, Paths, <<>>, skip, join)
  <2> HIDE DEF n, skip, join
  <2> QED BY <1>1, <1>3, <1>4, LookAhead
<1>6. \A i \in 1 .. n : f[i] = Written(p, i) \o f[After(p, i)]
  <2> TAKE i \in 1 .. n
  <2>1. skip[i] = After(p, i) /\ After(p, i) \in 1 .. n + 1 /\ f[After(p, i)] \in Paths
    <3> HIDE DEF n
    <3> QED BY <1>1, <1>2, <1>5 DEF Precedes
  <2>2. join[<<i, f[After(p, i)]>>] = Written(p, i) \o f[After(p, i)]
    BY <2>1
  <2> QED BY <1>5, <2>1, <2>2 DEF Precedes
<1>7. Rec(f)
  <2>1. \A i \in 1 .. n + 1 : f[i] = IF i > n THEN <<>> ELSE Written(p, i) \o f[After(p, i)]
    <3> HIDE DEF n
    <3> QED BY <1>1, <1>5, <1>6 DEF Precedes
  <2>2. f = [i \in 1 .. n + 1 |-> f[i]]
    BY <1>5 DEF Precedes
  <2> HIDE DEF n
  <2> QED BY <2>1, <2>2
<1>8. Rec(g)
  <2> HIDE DEF Rec
  <2> QED BY <1>7
<1>9. Json(p) = g[1]
  BY DEF Json, Written, After, CharactersAt
<1> HIDE DEF g
<1>10. g[n + 1] = <<>> /\ \A i \in 1 .. n : g[i] = Written(p, i) \o g[After(p, i)]
  <2>1. \A i \in 1 .. n + 1 : g[i] = IF i > n THEN <<>> ELSE Written(p, i) \o g[After(p, i)]
    BY <1>8
  <2> HIDE DEF n, Rec
  <2>2. n + 1 \in 1 .. n + 1 /\ n + 1 > n /\ \A i \in 1 .. n : i \in 1 .. n + 1 /\ ~(i > n)
    BY <1>1
  <2> QED BY <2>1, <2>2
<1> QED BY <1>9, <1>10

\* Text comes back as it was: each character is the one written for it.
LEMMA JsonOfText ==
    ASSUME NEW p \in Paths, Text(p)
    PROVE  Json(p) = p
<1> DEFINE n == Len(p)
           Rest(i) == SubSeq(p, i, n)
<1>1. PICK B \in SUBSET (1 .. n + 1) : Divides(B, p)
  BY DEF Text
<1>2. PICK f :
          /\ Json(p) = f[1]
          /\ f[n + 1] = <<>>
          /\ \A i \in 1 .. n : f[i] = Written(p, i) \o f[After(p, i)]
  BY JsonReads
<1>3. n \in Nat /\ p \in Seq(Byte)
  BY DEF Paths
<1>4. \A i \in 1 .. n + 1 :
         /\ Rest(i) \in Seq(Byte) /\ Len(Rest(i)) = n + 1 - i
         /\ \A j \in 1 .. n + 1 - i : Rest(i)[j] = p[i + j - 1]
  BY <1>3, SubSeqProperties
<1> HIDE DEF Rest
<1>5. ASSUME NEW i \in B \cap (1 .. n)
      PROVE  /\ Written(p, i) \o Rest(After(p, i)) = Rest(i)
             /\ After(p, i) \in B /\ After(p, i) > i
  <2>1. PICK c \in CharactersAt(p, i) : i + Len(c) \in B
    BY <1>1 DEF Divides, CharactersAt
  <2>2. ASSUME NEW d \in CharactersAt(p, i) PROVE d = c
    <3>1. /\ Len(c) \in Nat /\ Len(d) \in Nat /\ c \in Character /\ d \in Character
          /\ \A j \in 1 .. Len(c) : c[j] = p[i + j - 1]
          /\ \A j \in 1 .. Len(d) : d[j] = p[i + j - 1]
      BY <2>1, <2>2, CharactersFit DEF CharactersAt
    <3>2. \A j \in Nat : j <= Len(c) /\ j <= Len(d) /\ j >= 1 => c[j] = d[j]
      BY <3>1
    <3>3. CASE Len(c) <= Len(d)
      <4>1. Prefix(c, d)
        BY <3>1, <3>2, <3>3 DEF Prefix
      <4> QED BY <3>1, <4>1, BaselineAssumption
    <3>4. CASE Len(d) <= Len(c)
      <4>1. Prefix(d, c)
        BY <3>1, <3>2, <3>4 DEF Prefix
      <4> QED BY <3>1, <4>1, BaselineAssumption
    <3> QED BY <3>1, <3>3, <3>4
  <2>3. Written(p, i) = c /\ After(p, i) = i + Len(c)
    BY <2>1, <2>2 DEF Written, After
  <2>4. /\ c \in Seq(Byte) /\ Len(c) \in 1 .. n + 1 - i
        /\ \A j \in 1 .. Len(c) : c[j] = p[i + j - 1]
    BY <2>1, CharactersFit DEF Paths
  <2>5. c \o Rest(i + Len(c)) = Rest(i)
    <3> DEFINE k == i + Len(c)
               s == c \o Rest(k)
    <3>1. k \in 1 .. n + 1 /\ k \in Nat
      BY <1>3, <2>4
    <3>2. /\ Rest(k) \in Seq(Byte) /\ Len(Rest(k)) = n + 1 - k
          /\ \A j \in 1 .. n + 1 - k : Rest(k)[j] = p[k + j - 1]
      BY <1>4, <3>1
    <3>3. /\ s \in Seq(Byte) /\ Len(s) = n + 1 - i
          /\ \A j \in 1 .. n + 1 - i : s[j] = IF j <= Len(c) THEN c[j] ELSE Rest(k)[j - Len(c)]
      <4>1. Len(c) + Len(Rest(k)) = n + 1 - i
        BY <1>3, <2>4, <3>2
      <4> QED BY <2>4, <3>2, <4>1, ConcatProperties
    <3> HIDE DEF s
    <3>4. ASSUME NEW j \in 1 .. n + 1 - i PROVE s[j] = p[i + j - 1]
      <4>1. CASE j <= Len(c)
        BY <2>4, <3>3, <4>1
      <4>2. CASE j > Len(c)
        <5>1. j - Len(c) \in 1 .. n + 1 - k /\ k + (j - Len(c)) - 1 = i + j - 1
          BY <1>3, <2>4, <4>2
        <5>2. s[j] = Rest(k)[j - Len(c)]
          BY <2>4, <3>3, <4>2
        <5>3. Rest(k)[j - Len(c)] = p[k + (j - Len(c)) - 1]
          <6> HIDE DEF k
          <6> QED BY <3>2, <5>1
        <5> QED BY <5>1, <5>2, <5>3
      <4> QED BY <2>4, <4>1, <4>2
    <3>5. s = Rest(i)
      BY <1>3, <1>4, <3>3, <3>4, SeqEqual
    <3> QED BY <3>5 DEF s
  <2> QED BY <1>3, <2>1, <2>3, <2>4, <2>5
<1> DEFINE S == {m \in 0 .. n : \A i \in B : i >= n + 1 - m => f[i] = Rest(i)}
<1>6. 0 \in S
  <2>1. Rest(n + 1) = <<>>
    <3>1. Len(Rest(n + 1)) = 0 /\ Rest(n + 1) \in Seq(Byte)
      BY <1>3, <1>4
    <3> QED BY <3>1, EmptySeq
  <2> QED BY <1>2, <1>3, <2>1
<1>7. ASSUME NEW m \in 1 .. n, m - 1 \in S PROVE m \in S
  <2>1. ASSUME NEW i \in B, i = n + 1 - m PROVE f[i] = Rest(i)
    <3>1. i \in B \cap (1 .. n)
      BY <1>3, <2>1
    <3>2. After(p, i) \in B /\ After(p, i) >= n + 1 - (m - 1)
      <4>1. After(p, i) \in B /\ After(p, i) > i /\ After(p, i) \in Nat
        <5>1. After(p, i) \in B /\ After(p, i) > i
          BY <1>5, <3>1
        <5> HIDE DEF n
        <5>2. \A k \in B : k \in Nat
          BY <1>1, <1>3
        <5> QED BY <5>1, <5>2
      <4> HIDE DEF n
      <4> QED BY <1>3, <2>1, <4>1
    <3>3. f[After(p, i)] = Rest(After(p, i))
      BY <1>7, <3>2
    <3> QED BY <1>2, <1>5, <3>1, <3>3
  <2> QED BY <1>3, <1>7, <2>1
<1>8. n \in S
  <2> HIDE DEF S, n
  <2>1. Climbs(S, n)
    BY <1>6, <1>7 DEF Climbs
  <2> QED BY <1>3, <2>1, Climb
<1>9. f[1] = Rest(1)
  BY <1>1, <1>3, <1>8 DEF Divides
<1>10. Rest(1) = p
  BY <1>3, <1>4, SeqEqual
<1> QED BY <1>2, <1>9, <1>10

\* The header holds UTF-8.
LEMMA HeaderIsText ==
    ASSUME ArgumentsOK, PlainNames, set = New(root.given, listed, AutoPatterns), set.ok
    PROVE  ReadPatterns = set.patterns /\ ReadRoot = root
<1>1. /\ root.given = root.real /\ Clean(root.given) = root.real
      /\ root \in [given: Paths, real: Paths]
  BY RootsArePlain
<1>2. ReadRoot = root
  <2>1. Text(root.real) /\ root.real \in Paths
    BY <1>1 DEF ArgumentsOK, PlainNames
  <2>2. Json(root.real) = root.real
    BY <2>1, JsonOfText
  <2>3. ReadRoot = [given |-> root.given, real |-> root.real]
    BY <1>1, <2>2 DEF ReadRoot
  <2> QED BY <1>1, <2>3
<1>3. listed \in Seq(Paths) /\ root.given \in Paths
  BY <1>1, BaselineAssumption DEF ArgumentsOK
<1> DEFINE a == Binary
           b == target.real
           c == target.real \o TmpSuffix
           auto == <<a, b, c>>
<1>4. AutoPatterns = auto
  BY OwnThree DEF ArgumentsOK, AutoPatterns
<1>5. a \in Paths /\ b \in Paths /\ c \in Paths /\ {a, b, c} \subseteq OwnFiles
  BY OwnThree, OwnPair DEF ArgumentsOK, OwnFiles
<1>6. \A o \in {a, b, c} : Text(Trim(o))
  BY <1>5, RootsArePlain DEF PlainNames, Plain
<1> HIDE DEF a, b, c
<1>7. auto \in Seq(Paths) /\ \A i \in 1 .. Len(auto) : Text(Trim(auto[i]))
  <2>1. /\ auto \in Seq(Paths) /\ Len(auto) = 3 /\ auto[1] = a /\ auto[2] = b /\ auto[3] = c
    BY <1>5
  <2> HIDE DEF auto
  <2>2. \A i \in 1 .. Len(auto) : auto[i] \in {a, b, c}
    BY <2>1
  <2> QED BY <1>6, <2>1, <2>2
<1> DEFINE A == {p \in Paths : Text(p)}
<1>8. \A i \in 1 .. Len(auto) : Trim(auto[i]) \in A
  <2> HIDE DEF auto
  <2> QED BY <1>7, TrimOnce
<1>9. \A i \in 1 .. Len(listed) : Trim(listed[i]) \in A
  BY <1>3, TrimOnce DEF PlainNames, ArgumentsOK
<1> HIDE DEF A, auto
<1>10. Patterns(set) \subseteq A
  BY <1>3, <1>4, <1>7, <1>8, <1>9, NewRecords
<1>11. set.patterns \in Seq(Paths)
  BY PerimeterCompiled DEF ExclusionSet
<1>12. \A i \in 1 .. Len(set.patterns) : Json(set.patterns[i]) = set.patterns[i]
  BY <1>10, JsonOfText DEF Patterns, A
<1>13. ReadPatterns = set.patterns
  <2>1. ReadPatterns = [i \in 1 .. Len(set.patterns) |-> set.patterns[i]]
    BY <1>12 DEF ReadPatterns
  <2> QED BY <1>11, <2>1
<1> QED BY <1>2, <1>13

\* It is the set of the run, with the report's files.
LEMMA AgainWidens ==
    ASSUME ArgumentsOK, PlainNames, set = New(root.given, listed, AutoPatterns), set.ok,
           NEW t \in Targets
    PROVE  Again(t).ok /\ Widens(set, Again(t), {t.real, t.real \o TmpSuffix})
<1> DEFINE a == Binary
           b == t.real
           c == t.real \o TmpSuffix
<1>1. a \in Paths /\ b \in Paths /\ c \in Paths
  BY OwnThree
<1>2. <<Binary>> \o Own(t.given) = <<a, b, c>>
  BY OwnThree
<1>3. /\ Clean(root.given) = root.real /\ root.given = root.real /\ root.real \in Paths
      /\ Clean(root.real) = root.real
  BY RootsArePlain
<1>4. PlainAuto(root.real, a, b, c)
  BY <1>3, OwnThree
<1>5. set \in ExclusionSet /\ set.root = root.real /\ Compiled(set) /\ Match(set, a)
  BY PerimeterCompiled
<1> DEFINE s == AddListed(Empty(root.real), set.patterns)
           u == New(root.real, set.patterns, <<a, b, c>>)
<1>6. /\ s.ok /\ s.prefixes = set.prefixes
      /\ s.pathGlobs = set.pathGlobs /\ s.nameGlobs = set.nameGlobs
  BY <1>5, CompiledAgain
<1>7. Match(s, a)
  <2> HIDE DEF s, a
  <2> QED BY <1>5, <1>6 DEF Match
<1>8. u.ok /\ Widens(s, u, {b, c})
  <2>1. set.patterns \in Seq(Paths)
    BY <1>5 DEF ExclusionSet
  <2>2. u.ok <=> s.ok
    <3>1. u.ok <=> AddListed(Empty(Clean(root.real)), set.patterns).ok
      <4> HIDE DEF a, b, c
      <4> QED BY <1>1, <1>3, <1>4, <2>1, NewMatchesAuto
    <3> HIDE DEF u
    <3> QED BY <1>3, <3>1
  <2>3. u.ok => (Match(s, a) => Widens(s, u, {b, c}))
    <3> HIDE DEF a, b, c
    <3> QED BY <1>1, <1>3, <1>4, <2>1, NewMatchesAuto
  <2> QED BY <1>6, <1>7, <2>2, <2>3
<1>9. Again(t) = u
  BY <1>2, <1>3, HeaderIsText DEF Again
<1> HIDE DEF s, u
<1>10. Widens(set, u, {b, c})
  BY <1>6, <1>8 DEF Widens
<1> QED BY <1>8, <1>9, <1>10

\* The same paths are met again, but for the files of the run and of the report.
LEMMA WalkedAgain ==
    ASSUME ArgumentsOK, PlainNames, set = New(root.given, listed, AutoPatterns), set.ok,
           NEW t \in Targets
    PROVE  LET own == ToSet(Own(t.real)) \cup ToSet(Own(target.real))
           IN  Walked(Again(t), root, tree \cup {target.real}) \ own = Perimeter \ own
<1> DEFINE mine == ToSet(Own(target.real))
           own  == ToSet(Own(t.real)) \cup mine
           P    == tree \cup {target.real}
           Q    == tree \ mine
<1>1. own \subseteq OwnFiles /\ target.real \in mine /\ ToSet(Own(t.real)) = {t.real, t.real \o TmpSuffix}
  BY OwnPair DEF ArgumentsOK
<1>2. P \subseteq tree \cup OwnFiles /\ Q \subseteq tree \cup OwnFiles
  BY <1>1
<1>3. P \ own = Q \ own
  BY <1>1
<1>4. \A p \in P \cup Q, o \in own : ~Below(p, o)
  BY <1>1, <1>2, NothingBelowOwn
<1>5. ASSUME NEW p \in P \ own, Below(p, root.real)
      PROVE  Match(Again(t), PathAs(root, p)) <=> Match(set, PathAs(root, p))
  <2>1. PathAs(root, p) = p /\ Absolute(p)
    BY <1>2, <1>5, WalkedByName
  <2>2. p \in Paths
    BY <1>2, TreeTyped, OwnFilesTyped
  <2>3. \A o \in {t.real, t.real \o TmpSuffix} : ~Under(p, o)
    <3> TAKE o \in {t.real, t.real \o TmpSuffix}
    <3>1. o \in own /\ o \in Paths
      BY <1>1, OwnFilesTyped
    <3>2. p # o /\ ~Below(p, o)
      BY <1>4, <1>5, <3>1
    <3> QED BY <2>1, <2>2, <3>1, <3>2, UnderIsBelow
  <2>4. Widens(set, Again(t), {t.real, t.real \o TmpSuffix})
    BY AgainWidens
  <2> DEFINE O == {t.real, t.real \o TmpSuffix}
             u == Again(t)
  <2> HIDE DEF O, u
  <2>5. Match(u, p) <=> Match(set, p)
    <3>1. Widens(set, u, O) /\ \A o \in O : ~Under(p, o)
      BY <2>3, <2>4 DEF O, u
    <3>2. Match(set, p) => Match(u, p)
      BY <3>1, WidensMatch
    <3>3. Match(u, p) => Match(set, p) \/ \E o \in O : Under(p, o)
      BY <3>1, WidensMatch
    <3> QED BY <3>1, <3>2, <3>3
  <2> QED BY <2>1, <2>5 DEF u
<1> HIDE DEF own, P, Q
<1>6. Walked(Again(t), root, P) \ own = Walked(set, root, Q) \ own
  BY <1>3, <1>4, <1>5, WalkedOutside
<1> QED BY <1>6 DEF own, P, Q, Perimeter

\* "A comparison can be run on exactly the same perimeter months later": what a new
\* fingerprint records, the patterns recorded in it select again in an unchanged tree,
\* whatever the report is called, if the JSON of the header can hold them (New, addAuto,
\* Patterns, NewWriter, NewReader).
THEOREM BaselinePerimeterIsKept ==
    ASSUME PlainNames PROVE Spec => []PerimeterIsKept
<1>1. ASSUME RunInv PROVE PerimeterIsKept
  <2> SUFFICES ASSUME exit = "ok", NEW t \in Targets
               PROVE  LET paths == tree \cup {target.real}
                          own   == ToSet(Own(t.real) \o Own(target.real))
                      IN  /\ Again(t).ok
                          /\ {PathAs(ReadRoot, p) : p \in Walked(Again(t), ReadRoot, paths) \ own} =
                                {added[i].path : i \in 1 .. Len(added)}
                                   \ {PathAs(root, p) : p \in Reached(own)}
    BY DEF PerimeterIsKept
  <2> DEFINE own   == ToSet(Own(t.real)) \cup ToSet(Own(target.real))
             met   == Walked(Again(t), root, tree \cup {target.real})
  <2>1. /\ ArgumentsOK /\ Recorded = intended
        /\ set = New(root.given, listed, AutoPatterns) /\ set.ok
    BY <1>1 DEF RunInv, TypeInv
  <2> ReadRoot = root
    BY <2>1, HeaderIsText
  <2>2. ToSet(Own(t.real) \o Own(target.real)) = own
    <3>1. target \in Targets
      BY <2>1 DEF ArgumentsOK
    <3> QED BY <3>1, OwnTyped, OwnOfBoth
  <2>3. Again(t).ok /\ met \ own = Perimeter \ own
    BY <2>1, AgainWidens, WalkedAgain
  <2>4. own \subseteq OwnFiles /\ \A o \in own : o # root.real
    BY <2>1, OwnPair, RootsArePlain DEF ArgumentsOK
  <2>5. /\ \A p \in Walked(Again(t), root, tree \cup OwnFiles) : PathAs(root, p) = p
        /\ \A p \in met : PathAs(root, p) = p
    <3>1. \A p \in met : p \in tree \cup OwnFiles /\ (p = root.real \/ Below(p, root.real))
      BY <2>1, OwnPair DEF Walked, ArgumentsOK
    <3> QED BY <2>1, <3>1, WalkedByName, PerimeterByName
  <2>6. {PathAs(root, p) : p \in met \ own} = met \ own
    BY <2>5
  <2>7. {PathAs(root, p) : p \in Reached(own)} = Reached(own)
    BY <2>1, <2>4, WalkedByName DEF Reached
  <2>8. {added[i].path : i \in 1 .. Len(added)} = Perimeter
    <3>1. Len(intended) = Len(added) /\ \A i \in 1 .. Len(added) : intended[i] = added[i].path
      BY <1>1, <2>1 DEF Recorded, RunInv, TypeInv
    <3> QED BY <2>1, <3>1, IntendedInOrder
  <2>9. Perimeter \ own = Perimeter \ Reached(own)
    <3>1. \A p \in Perimeter : p = root.real \/ Below(p, root.real)
      BY DEF Perimeter, Walked
    <3> QED BY <2>4, <3>1 DEF Reached
  <2> HIDE DEF own, met
  <2>10. {PathAs(root, p) : p \in met \ own} =
            {added[i].path : i \in 1 .. Len(added)} \ {PathAs(root, p) : p \in Reached(own)}
    BY <2>3, <2>6, <2>7, <2>8, <2>9
  <2> QED BY <2>2, <2>3, <2>10 DEF met
<1> QED BY <1>1, RunInvariant, PTL
=============================================================================
