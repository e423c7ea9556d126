---------------------------- MODULE JoinerProofs ----------------------------
(***************************************************************************)
(* The merge join reports the right changes, in order, and all of them     *)
(* when it ends, for every pair of streams, every set of ignore rules and  *)
(* every --show.                                                           *)
(*                                                                         *)
(* The argument is a frontier.  The entries the join has passed, those of  *)
(* the fingerprint before `at' and those of the scan up to `Handled', are  *)
(* all below the others; what was reported is what is visible of them, and *)
(* each counter is the number of those that went its way.                  *)
(***************************************************************************)
EXTENDS Joiner, FiniteSetTheorems, TLAPS

\* The entries of the scan that are dealt with: not the one in Feed's hands.
Handled == IF status = "feeding" THEN fed - 1 ELSE fed

PassedBase == {base[i].path : i \in 1 .. at - 1}
PassedLive == {live[k].path : k \in 1 .. Handled}
Settled    == PassedBase \cup PassedLive
AllPaths   == Paths(base) \cup Paths(live)
Reported   == {changes[i].path : i \in 1 .. Len(changes)}

Ascending ==
    /\ Canonical(base) /\ Canonical(live)

Frontier ==
    /\ \A i \in 1 .. Len(base), k \in 1 .. Len(live) :
          /\ i < at /\ k > Handled => base[i].path < live[k].path
          /\ i >= at /\ k <= Handled => live[k].path < base[i].path
    /\ status = "new" => at = 0 /\ fed = 0
    /\ status \notin {"new", "failed"} => at >= 1
    /\ status = "feeding" => fed >= 1
    /\ status \in {"finishing", "done"} => fed = Len(live)
    /\ status = "done" => Exhausted
    /\ corrupt = 0 \/ corrupt > at

\* The differences at the paths of S that end up in f: "ignored", "hidden" or "shown".
With(f, S) == {p \in Different \cap S : Filter(DiffOp(p), p) = f}

InBoth == Paths(base) \cap Paths(live)

\* i, h and n are how many differences at S were ignored, hidden and shown.
Counted(S, i, h, n) ==
    /\ i = Cardinality(With("ignored", S))
    /\ h = Cardinality(With("hidden", S))
    /\ n = Cardinality(With("shown", S))

CountsSettled ==
    /\ IsFiniteSet(Settled)
    /\ Counted(Settled, ignored, hidden, Len(changes))
    /\ compared = Cardinality(InBoth \cap Settled)

Joined ==
    /\ TypeOK
    /\ Ascending
    /\ ReportIsPrefix
    /\ status # "failed" => Frontier /\ Reported = Visible \cap Settled /\ CountsSettled

\* The changes of one category, by their places in the report.
Of(op) == {i \in 1 .. Len(changes) : changes[i].op = op}

CountsChanges == \A op \in Op : counts[op] = Cardinality(Of(op))

JInv == Joined /\ CountsChanges

-----------------------------------------------------------------------------
(* Facts about a stream.                                                   *)

\* The paths of entries are numbers, and each entry is that of its path.
LEMMA EntryOfPath ==
    ASSUME NEW s \in Seq(Entry), Canonical(s), NEW i \in 1 .. Len(s)
    PROVE  /\ s[i] \in Entry
           /\ s[i].path \in Path
           /\ s[i].path \in Int
           /\ s[i].path \in Paths(s)
           /\ EntryAt(s, s[i].path) = s[i]
<1>1. \A j \in 1 .. Len(s) : s[j] \in Entry /\ s[j].path \in Path /\ s[j].path \in Int
  <2>1. \A j \in 1 .. Len(s) : s[j] \in Entry
    OBVIOUS
  <2>2. \A e \in Entry : e.path \in Path
    BY DEF Entry
  <2> QED BY <2>1, <2>2, ClassifyAssumption
<1>2. ASSUME NEW j \in 1 .. Len(s), s[j].path = s[i].path PROVE j = i
  <2>1. s[j].path \in Int /\ s[i].path \in Int
    BY <1>1
  <2>2. j < i => s[j].path < s[i].path
    BY DEF Canonical
  <2>3. i < j => s[i].path < s[j].path
    BY DEF Canonical
  <2> QED BY <1>2, <2>1, <2>2, <2>3
<1>3. (CHOOSE j \in 1 .. Len(s) : s[j].path = s[i].path) = i
  BY <1>2
<1> QED BY <1>1, <1>3 DEF EntryAt, Paths

\* Every path of the join is a number.
LEMMA PathsAreNumbers ==
    ASSUME TypeOK, Ascending
    PROVE  AllPaths \subseteq Path /\ AllPaths \subseteq Int
<1>1. \A i \in 1 .. Len(base) : base[i].path \in Path /\ base[i].path \in Int
  BY EntryOfPath DEF TypeOK, Ascending
<1>2. \A k \in 1 .. Len(live) : live[k].path \in Path /\ live[k].path \in Int
  BY EntryOfPath DEF TypeOK, Ascending
<1> QED BY <1>1, <1>2 DEF AllPaths, Paths

\* The settled paths are paths, and are below the first entry not passed.
LEMMA SettledBelowBase ==
    ASSUME TypeOK, Ascending, Frontier, NEW i \in 1 .. Len(base), i >= at
    PROVE  \A p \in Settled : p < base[i].path
<1>1. \A j \in 1 .. at - 1 : j \in 1 .. Len(base) /\ base[j].path < base[i].path
  BY DEF TypeOK, Ascending, Canonical
<1>2. \A k \in 1 .. Handled : k \in 1 .. Len(live) /\ live[k].path < base[i].path
  BY DEF TypeOK, Frontier, Handled
<1> QED BY <1>1, <1>2 DEF Settled, PassedBase, PassedLive

LEMMA SettledBelowLive ==
    ASSUME TypeOK, Ascending, Frontier, NEW k \in 1 .. Len(live), k > Handled
    PROVE  \A p \in Settled : p < live[k].path
<1>1. \A j \in 1 .. at - 1 : j \in 1 .. Len(base) /\ base[j].path < live[k].path
  BY DEF TypeOK, Frontier
<1>2. \A j \in 1 .. Handled : j \in 1 .. Len(live) /\ live[j].path < live[k].path
  BY DEF TypeOK, Ascending, Canonical, Handled
<1> QED BY <1>1, <1>2 DEF Settled, PassedBase, PassedLive

-----------------------------------------------------------------------------
(* Counting the settled differences.                                       *)

\* The differences depend on the two streams alone.
LEMMA SameStreams ==
    ASSUME UNCHANGED <<base, live>>
    PROVE  /\ Visible' = Visible /\ Different' = Different /\ InBoth' = InBoth
           /\ \A q : DiffOp(q)' = DiffOp(q)
           /\ \A f, S : With(f, S)' = With(f, S)
           /\ \A S, i, h, n : Counted(S, i, h, n)' <=> Counted(S, i, h, n)
<1>1. \A q : DiffOp(q)' = DiffOp(q)
  BY DEF DiffOp
<1>2. Visible' = Visible /\ Different' = Different /\ InBoth' = InBoth
  BY <1>1 DEF Visible, Different, InBoth, Filter
<1>3. \A f, S : With(f, S)' = With(f, S)
  BY <1>1, <1>2 DEF With, Filter
<1> QED BY <1>1, <1>2, <1>3 DEF Counted

\* One more path is a difference of one kind, or none at all.
LEMMA WithOneMore ==
    ASSUME NEW S, IsFiniteSet(S), NEW p, p \notin S, NEW f
    PROVE  /\ Cardinality(With(f, S)) \in Nat
           /\ Cardinality(With(f, S \cup {p})) =
                 IF p \in Different /\ Filter(DiffOp(p), p) = f THEN Cardinality(With(f, S)) + 1
                 ELSE Cardinality(With(f, S))
<1>1. IsFiniteSet(With(f, S)) /\ p \notin With(f, S)
  BY FS_Subset DEF With
<1>2. CASE p \in Different /\ Filter(DiffOp(p), p) = f
  <2>1. With(f, S \cup {p}) = With(f, S) \cup {p}
    BY <1>2 DEF With
  <2> QED BY <1>1, <1>2, <2>1, FS_AddElement, FS_CardinalityType
<1>3. CASE ~(p \in Different /\ Filter(DiffOp(p), p) = f)
  <2>1. With(f, S \cup {p}) = With(f, S)
    BY <1>3 DEF With
  <2> QED BY <1>1, <1>3, <2>1, FS_CardinalityType
<1> QED BY <1>2, <1>3

\* A path that is in both streams, or not.
LEMMA BothOneMore ==
    ASSUME NEW S, IsFiniteSet(S), NEW p, p \notin S
    PROVE  /\ IsFiniteSet(S \cup {p})
           /\ Cardinality(InBoth \cap (S \cup {p})) =
                 IF p \in InBoth THEN Cardinality(InBoth \cap S) + 1
                 ELSE Cardinality(InBoth \cap S)
<1>1. IsFiniteSet(InBoth \cap S) /\ p \notin InBoth \cap S
  BY FS_Subset
<1>2. CASE p \in InBoth
  <2>1. InBoth \cap (S \cup {p}) = (InBoth \cap S) \cup {p}
    BY <1>2
  <2> QED BY <1>1, <1>2, <2>1, FS_AddElement
<1>3. CASE p \notin InBoth
  <2>1. InBoth \cap (S \cup {p}) = InBoth \cap S
    BY <1>3
  <2> QED BY <1>3, <2>1, FS_AddElement
<1> QED BY <1>2, <1>3

-----------------------------------------------------------------------------
(* A change at the first path that is not settled.                         *)

\* p is the first path the join has not dealt with, and op is what it finds there.
NextIs(p, op) ==
    /\ p \in AllPaths
    /\ op = DiffOp(p)
    /\ \A q \in Settled : q < p
    /\ \A q \in AllPaths : q < p => q \in Settled

\* reportRemoved finds the category of its path: no entry of the scan has it.
LEMMA NextRemoved ==
    ASSUME TypeOK, Ascending, Frontier, ~Exhausted,
           \/ status = "feeding" /\ Old.path < Fresh.path
           \/ status = "finishing"
    PROVE  /\ NextIs(Old.path, OpForMissing(Old, FALSE))
           /\ Old.path \in Int /\ Old.path \notin Paths(live)
           /\ at \in 1 .. Len(base)
           /\ \A k \in 1 .. Len(live) : k > Handled => Old.path < live[k].path
<1> DEFINE p == Old.path
<1>1. at \in 1 .. Len(base)
  BY DEF TypeOK, Frontier, Exhausted
<1>2. /\ p \in Paths(base) /\ EntryAt(base, p) = Old /\ p \in Int
  BY <1>1, EntryOfPath DEF Old, TypeOK, Ascending
<1>3. \A k \in 1 .. Len(live) : live[k].path \in Int
  BY EntryOfPath DEF TypeOK, Ascending
<1>4. \A k \in 1 .. Len(live) : k > Handled => p < live[k].path
  <2>1. CASE status = "feeding" /\ Old.path < Fresh.path
    <3>1. fed \in 1 .. Len(live) /\ Handled = fed - 1
      BY <2>1 DEF TypeOK, Frontier, Handled
    <3>2. \A k \in 1 .. Len(live) : k > fed => live[fed].path < live[k].path
      BY <3>1 DEF Ascending, Canonical
    <3> QED BY <1>2, <1>3, <2>1, <3>1, <3>2 DEF Fresh
  <2>2. CASE status = "finishing"
    BY <2>2 DEF TypeOK, Frontier, Handled
  <2> QED BY <2>1, <2>2
<1>5. \A k \in 1 .. Handled : k \in 1 .. Len(live) /\ live[k].path < p
  BY <1>1 DEF TypeOK, Frontier, Handled, Old
<1>6. p \notin Paths(live)
  <2>1. ASSUME NEW k \in 1 .. Len(live) PROVE live[k].path # p
    <3>1. CASE k <= Handled
      <4>1. k \in 1 .. Handled
        BY <3>1 DEF Handled, TypeOK
      <4> QED BY <1>2, <1>3, <1>5, <4>1
    <3>2. CASE k > Handled
      BY <1>2, <1>3, <1>4, <3>2
    <3>3. k <= Handled \/ k > Handled
      BY DEF Handled, TypeOK
    <3> QED BY <3>1, <3>2, <3>3
  <2> QED BY <2>1 DEF Paths
<1>7. DiffOp(p) = OpForMissing(Old, FALSE)
  BY <1>2, <1>6 DEF DiffOp
<1>8. \A q \in Settled : q < p
  BY <1>1, SettledBelowBase DEF Old, TypeOK
<1>9. ASSUME NEW q \in AllPaths, q < p PROVE q \in Settled
  <2>1. CASE q \in Paths(base)
    <3>1. PICK j \in 1 .. Len(base) : q = base[j].path
      BY <2>1 DEF Paths
    <3>2. base[j].path \in Int
      BY <3>1, EntryOfPath DEF TypeOK, Ascending
    <3>3. at < j => base[at].path < base[j].path
      BY <1>1, <3>1 DEF Ascending, Canonical
    <3>4. j < at
      BY <1>1, <1>2, <1>9, <3>1, <3>2, <3>3 DEF Old
    <3> QED BY <1>1, <3>1, <3>4 DEF Settled, PassedBase
  <2>2. CASE q \in Paths(live)
    <3>1. PICK k \in 1 .. Len(live) : q = live[k].path
      BY <2>2 DEF Paths
    <3>2. k \in Int /\ Handled \in Int
      BY <3>1 DEF Handled, TypeOK
    <3>3. k <= Handled
      <4> HIDE DEF p
      <4> QED BY <1>2, <1>3, <1>4, <1>9, <3>1, <3>2
    <3> QED BY <3>1, <3>2, <3>3 DEF Settled, PassedLive
  <2> QED BY <2>1, <2>2 DEF AllPaths
<1> QED BY <1>1, <1>2, <1>4, <1>6, <1>7, <1>8, <1>9 DEF NextIs, AllPaths

\* The path in Feed's hands is the next one once everything below it is passed.
LEMMA NextFed ==
    ASSUME TypeOK, Ascending, Frontier, status = "feeding",
           ~Exhausted => Old.path >= Fresh.path
    PROVE  /\ fed \in 1 .. Len(live) /\ Handled = fed - 1
           /\ Fresh.path \in Paths(live) /\ EntryAt(live, Fresh.path) = Fresh
           /\ \A q \in Settled : q < Fresh.path
           /\ \A q \in AllPaths : q < Fresh.path => q \in Settled
           /\ \A i \in 1 .. Len(base) : i >= at => base[i].path >= Fresh.path
           /\ \A i \in 1 .. Len(base) : i > at => base[i].path > Fresh.path
<1> DEFINE p == Fresh.path
<1>1. fed \in 1 .. Len(live) /\ Handled = fed - 1 /\ at \in 1 .. Len(base) + 1
  BY DEF TypeOK, Frontier, Handled
<1>2. /\ p \in Paths(live) /\ EntryAt(live, p) = Fresh /\ p \in Int
  BY <1>1, EntryOfPath DEF Fresh, TypeOK, Ascending
<1>3. \A q \in Settled : q < p
  BY <1>1, SettledBelowLive DEF Fresh
<1>4. \A i \in 1 .. Len(base) : base[i].path \in Int
  BY EntryOfPath DEF TypeOK, Ascending
<1>5. \A i \in 1 .. Len(base) : i > at => base[i].path > p
  BY <1>1, <1>2, <1>4 DEF Exhausted, Old, Ascending, Canonical, TypeOK
<1>6. \A i \in 1 .. Len(base) : i >= at => base[i].path >= p
  BY <1>1, <1>2, <1>4, <1>5 DEF Exhausted, Old, TypeOK
<1>7. ASSUME NEW q \in AllPaths, q < p PROVE q \in Settled
  <2>1. CASE q \in Paths(base)
    <3>1. PICK j \in 1 .. Len(base) : q = base[j].path
      BY <2>1 DEF Paths
    <3>2. j < at
      BY <1>1, <1>2, <1>4, <1>6, <1>7, <3>1
    <3> QED BY <1>1, <3>1, <3>2 DEF Settled, PassedBase
  <2>2. CASE q \in Paths(live)
    <3>1. PICK k \in 1 .. Len(live) : q = live[k].path
      BY <2>2 DEF Paths
    <3>2. live[k].path \in Int
      BY <3>1, EntryOfPath DEF TypeOK, Ascending
    <3>3. k < fed
      BY <1>1, <1>2, <1>7, <3>1, <3>2 DEF Ascending, Canonical, Fresh, TypeOK
    <3> QED BY <1>1, <3>1, <3>3 DEF Settled, PassedLive
  <2> QED BY <2>1, <2>2 DEF AllPaths
<1> QED BY <1>1, <1>2, <1>3, <1>5, <1>6, <1>7
\* The callback gets the change at the next path, or one of the filters keeps it:
\* the report stays right, and it then covers that path too.
LEMMA ReportStep ==
    ASSUME Joined, status # "failed", UNCHANGED <<base, live>>,
           NEW p, NEW op, NextIs(p, op), op # "=", op \in Op, Report(op, p)
    PROVE  /\ changes' \in Seq([op: Op \ {"="}, path: Path])
           /\ counts' \in [Op -> Nat] /\ ignored' \in Nat /\ hidden' \in Nat
           /\ ReportIsPrefix'
           /\ Reported' = Visible \cap (Settled \cup {p})
           /\ Counted(Settled \cup {p}, ignored', hidden', Len(changes'))
<1> DEFINE c == [op |-> op, path |-> p]
<1>1. p \in Path /\ p \in Int
  BY PathsAreNumbers DEF NextIs, Joined
<1>2. Reported = Visible \cap Settled /\ ReportIsPrefix /\ TypeOK
  BY DEF Joined
<1>3. Visible' = Visible /\ (\A q : DiffOp(q)' = DiffOp(q))
  BY SameStreams
<1>4. Different = {q \in AllPaths : DiffOp(q) # "="}
  BY DEF Different, AllPaths
<1>5. Visible \subseteq AllPaths
  BY <1>4 DEF Visible
<1>6. counts' \in [Op -> Nat] /\ ignored' \in Nat /\ hidden' \in Nat
  BY <1>2 DEF Report, TypeOK
<1>7. Counted(Settled \cup {p}, ignored', hidden', Len(changes'))
  <2>1. CountsSettled /\ p \notin Settled
    BY <1>1 DEF Joined, NextIs
  <2>2. p \in Different /\ DiffOp(p) = op
    BY <1>4 DEF NextIs
  <2>3. \A f : /\ Cardinality(With(f, Settled)) \in Nat
               /\ Cardinality(With(f, Settled \cup {p})) =
                     IF Filter(op, p) = f THEN Cardinality(With(f, Settled)) + 1
                     ELSE Cardinality(With(f, Settled))
    BY <2>1, <2>2, WithOneMore DEF CountsSettled
  <2>4. Len(changes') = IF Filter(op, p) = "shown" THEN Len(changes) + 1 ELSE Len(changes)
    BY <1>1, <1>2 DEF Report, TypeOK
  <2> QED BY <2>1, <2>3, <2>4 DEF Report, Counted, CountsSettled
<1>8. CASE Filter(op, p) = "shown"
  <2>1. c \in [op: Op \ {"="}, path: Path] /\ changes \in Seq([op: Op \ {"="}, path: Path])
    BY <1>1, <1>2 DEF TypeOK
  <2>2. changes' = Append(changes, c)
    BY <1>8 DEF Report
  <2>3. /\ changes' \in Seq([op: Op \ {"="}, path: Path])
        /\ Len(changes') = Len(changes) + 1
        /\ changes'[Len(changes) + 1] = c
        /\ \A i \in 1 .. Len(changes) : changes'[i] = changes[i]
    BY <2>1, <2>2
  <2>4. p \in Visible /\ op = DiffOp(p)
    BY <1>4, <1>8 DEF Visible, NextIs
  <2>5. Reported' = Reported \cup {p}
    <3>1. Reported' = {changes'[i].path : i \in 1 .. Len(changes) + 1}
      BY <2>3 DEF Reported
    <3>2. \A i \in 1 .. Len(changes) + 1 : i = Len(changes) + 1 \/ i \in 1 .. Len(changes)
      BY <2>1
    <3>3. c.path = p /\ Len(changes) + 1 \in 1 .. Len(changes) + 1
      BY <2>1
    <3>4. \A i \in 1 .. Len(changes) : i \in 1 .. Len(changes) + 1
      BY <2>1
    <3> QED BY <2>3, <3>1, <3>2, <3>3, <3>4 DEF Reported
  <2>6. Reported' = Visible \cap (Settled \cup {p})
    BY <1>2, <2>4, <2>5
  <2>7. \A i \in 1 .. Len(changes) : changes[i].path \in Settled /\ changes[i].path < p
    BY <1>2 DEF Reported, NextIs
  <2>8. \A q \in Visible : q < p => \E j \in 1 .. Len(changes) : changes[j].path = q
    BY <1>2, <1>5 DEF NextIs, Reported
  <2>9. /\ \A i \in 1 .. Len(changes') :
              /\ changes'[i].path \in Visible
              /\ changes'[i].op = DiffOp(changes'[i].path)
              /\ \A q \in Visible : q < changes'[i].path
                                     => \E j \in 1 .. i - 1 : changes'[j].path = q
    <3> SUFFICES ASSUME NEW i \in 1 .. Len(changes')
                 PROVE  /\ changes'[i].path \in Visible
                        /\ changes'[i].op = DiffOp(changes'[i].path)
                        /\ \A q \in Visible : q < changes'[i].path
                                     => \E j \in 1 .. i - 1 : changes'[j].path = q
      OBVIOUS
    <3>1. CASE i \in 1 .. Len(changes)
      <4>1. \A j \in 1 .. i - 1 : changes'[j] = changes[j]
        BY <2>1, <2>3, <3>1
      <4> QED BY <1>2, <2>3, <3>1, <4>1 DEF ReportIsPrefix
    <3>2. CASE i = Len(changes) + 1
      <4>1. i - 1 = Len(changes)
        BY <2>1, <3>2
      <4> QED BY <2>3, <2>4, <2>8, <3>2, <4>1
    <3> QED BY <2>1, <2>3, <3>1, <3>2
  <2>10. \A i, j \in 1 .. Len(changes') : i < j => changes'[i].path < changes'[j].path
    <3> SUFFICES ASSUME NEW i \in 1 .. Len(changes'), NEW j \in 1 .. Len(changes'), i < j
                 PROVE  changes'[i].path < changes'[j].path
      OBVIOUS
    <3>1. i \in 1 .. Len(changes)
      BY <2>1, <2>3
    <3>2. CASE j \in 1 .. Len(changes)
      BY <1>2, <2>3, <3>1, <3>2 DEF ReportIsPrefix
    <3>3. CASE j = Len(changes) + 1
      BY <2>3, <2>7, <3>1, <3>3
    <3> QED BY <2>1, <2>3, <3>2, <3>3
  <2>11. ReportIsPrefix'
    BY <1>3, <2>9, <2>10 DEF ReportIsPrefix
  <2> QED BY <1>6, <1>7, <2>3, <2>6, <2>11
<1>9. CASE Filter(op, p) # "shown"
  <2>1. changes' = changes
    BY <1>9 DEF Report
  <2>2. p \notin Visible
    BY <1>9 DEF Visible, NextIs
  <2>3. ReportIsPrefix'
    BY <1>2, <1>3, <2>1 DEF ReportIsPrefix
  <2> QED BY <1>2, <1>6, <1>7, <2>1, <2>2, <2>3 DEF Reported, TypeOK
<1> QED BY <1>8, <1>9

\* A path at which the comparison finds nothing needs no report.
LEMMA NothingToReport ==
    ASSUME Joined, status # "failed", UNCHANGED <<base, live, changes>>,
           NEW p, p \in Int, NextIs(p, "=")
    PROVE  /\ ReportIsPrefix' /\ Reported' = Visible \cap (Settled \cup {p})
           /\ Counted(Settled \cup {p}, ignored, hidden, Len(changes))
<1>1. Visible' = Visible /\ (\A q : DiffOp(q)' = DiffOp(q))
  BY SameStreams
<1>2. p \notin Visible
  BY DEF Visible, Different, NextIs
<1>3. ReportIsPrefix'
  BY <1>1 DEF ReportIsPrefix, Joined
<1>4. Counted(Settled \cup {p}, ignored, hidden, Len(changes))
  <2>1. CountsSettled /\ p \notin Settled /\ p \notin Different
    BY DEF Joined, NextIs, Different
  <2>2. \A f : Cardinality(With(f, Settled \cup {p})) = Cardinality(With(f, Settled))
    BY <2>1, WithOneMore DEF CountsSettled
  <2> QED BY <2>1, <2>2 DEF Counted, CountsSettled
<1> QED BY <1>2, <1>3, <1>4 DEF Joined, Reported

\* The counters once the path p is settled as well.
LEMMA CountOneMore ==
    ASSUME CountsSettled, UNCHANGED <<base, live>>, NEW p, p \notin Settled,
           Settled' = Settled \cup {p},
           Counted(Settled \cup {p}, ignored', hidden', Len(changes')),
           compared' = IF p \in InBoth THEN compared + 1 ELSE compared
    PROVE  CountsSettled'
<1>1. InBoth' = InBoth /\ \A S, i, h, n : Counted(S, i, h, n)' <=> Counted(S, i, h, n)
  BY SameStreams
<1>2. Counted(Settled, ignored, hidden, Len(changes))'
  BY <1>1, SameStreams DEF Counted
<1>3. IsFiniteSet(Settled') /\ compared' = Cardinality(InBoth \cap Settled')
  BY BothOneMore DEF CountsSettled
<1> QED BY <1>1, <1>2, <1>3 DEF CountsSettled

\* A step that settles no path and reports nothing leaves the counters right.
LEMMA CountNoMore ==
    ASSUME CountsSettled, UNCHANGED <<base, live, changes, ignored, hidden, compared>>,
           Settled' = Settled
    PROVE  CountsSettled'
<1>1. Counted(Settled, ignored, hidden, Len(changes))'
  BY SameStreams DEF Counted, CountsSettled
<1> QED BY <1>1, SameStreams DEF CountsSettled

\* advance moves to the next entry, which can be read, or the calls end.
LEMMA AdvanceStep ==
    ASSUME TypeOK, UNCHANGED inputs, corrupt = 0 \/ corrupt > at, ~Exhausted,
           NEW next, next # "failed", Advance(next)
    PROVE  /\ at' \in 0 .. Len(base) + 1
           /\ \/ status' = "failed"
              \/ status' = next /\ at' = at + 1 /\ (corrupt' = 0 \/ corrupt' > at')
BY DEF TypeOK, inputs, Exhausted, Advance

-----------------------------------------------------------------------------
(* The steps.                                                              *)

LEMMA InitJoined == ASSUME Init PROVE Joined
<1>1. TypeOK
  BY JoinerAssumption DEF Init, TypeOK
<1>2. Ascending
  BY JoinerAssumption DEF Init, Ascending
<1>3. ReportIsPrefix
  BY DEF Init, ReportIsPrefix
<1>4. Frontier
  BY DEF Init, Frontier, Handled
<1>5. Settled = {} /\ Reported = {}
  BY DEF Init, Settled, PassedBase, PassedLive, Handled, Reported
<1>6. CountsSettled
  <2>1. (\A f : With(f, Settled) = {}) /\ InBoth \cap Settled = {} /\ Len(changes) = 0
    BY <1>5 DEF With, Init
  <2> QED BY <1>5, <2>1, FS_EmptySet DEF CountsSettled, Counted, Init
<1> QED BY <1>1, <1>2, <1>3, <1>4, <1>5, <1>6 DEF Joined

\* What a step that reports nothing leaves as it is.
LEMMA QuietStep ==
    ASSUME Joined, UNCHANGED <<inputs, changes>>
    PROVE  Ascending' /\ ReportIsPrefix' /\ Reported' = Reported /\ Visible' = Visible
<1>1. UNCHANGED <<base, live, changes>>
  BY DEF inputs
<1>2. Visible' = Visible /\ (\A q : DiffOp(q)' = DiffOp(q))
  BY <1>1 DEF Visible, Different, DiffOp, Filter
<1>3. ReportIsPrefix'
  BY <1>1, <1>2 DEF Joined, ReportIsPrefix
<1> QED BY <1>1, <1>2, <1>3 DEF Joined, Ascending, Reported

LEMMA NewStep == ASSUME Joined, New PROVE Joined'
<1>1. TypeOK /\ Frontier /\ Reported = Visible \cap Settled /\ CountsSettled
  BY DEF Joined, New
<1>2. TypeOK'
  <2>1. at = 0
    BY <1>1 DEF New, Frontier
  <2>2. at' \in 0 .. Len(base) + 1 /\ status' \in {"ready", "failed"}
    BY <1>1, <2>1 DEF New, Advance, TypeOK
  <2> QED BY <1>1, <2>2 DEF New, TypeOK, inputs, counters, Over
<1>3. Ascending' /\ ReportIsPrefix' /\ Reported' = Reported /\ Visible' = Visible
  BY QuietStep DEF New
<1>4. CASE status' = "failed"
  BY <1>2, <1>3, <1>4 DEF Joined
<1>5. CASE status' = "ready"
  <2>1. at = 0 /\ at' = 1 /\ fed = 0 /\ fed' = 0 /\ (corrupt' = 0 \/ corrupt' > at')
    BY <1>1, <1>5 DEF New, Advance, Frontier, TypeOK, inputs
  <2>2. Handled = 0 /\ Handled' = 0
    BY <1>5, <2>1 DEF New, Handled
  <2>3. Settled = {} /\ Settled' = {}
    BY <2>1, <2>2 DEF Settled, PassedBase, PassedLive
  <2>4. Frontier'
    BY <1>1, <1>5, <2>1, <2>2 DEF New, Frontier, inputs, TypeOK
  <2>5. CountsSettled'
    BY <1>1, <2>3, CountNoMore DEF New, inputs, counters
  <2> QED BY <1>1, <1>2, <1>3, <2>3, <2>4, <2>5 DEF Joined
<1> QED BY <1>4, <1>5 DEF New, Advance

LEMMA FeedStep == ASSUME Joined, Feed PROVE Joined'
<1>1. TypeOK /\ Frontier /\ Reported = Visible \cap Settled /\ CountsSettled
  BY DEF Joined, Feed
<1>2. TypeOK'
  BY <1>1 DEF Feed, TypeOK, inputs, counters, Over
<1>3. Ascending' /\ ReportIsPrefix' /\ Reported' = Reported /\ Visible' = Visible
  BY QuietStep DEF Feed
<1>4. CASE status' = "feeding"
  <2>1. Handled' = Handled
    BY <1>1, <1>4 DEF Feed, Handled, TypeOK
  <2>2. Settled' = Settled
    BY <2>1 DEF Settled, PassedBase, PassedLive, Feed, inputs
  <2>3. Frontier'
    BY <1>1, <1>4, <2>1 DEF Feed, Frontier, inputs, TypeOK
  <2>4. CountsSettled'
    BY <1>1, <2>2, CountNoMore DEF Feed, inputs, counters
  <2> QED BY <1>1, <1>2, <1>3, <2>2, <2>3, <2>4 DEF Joined
<1> QED BY <1>2, <1>3, <1>4 DEF Joined, Feed

\* Finish, its end and the end of the scan move no entry.
LEMMA EndStep == ASSUME Joined, Finish \/ Finished \/ Cut PROVE Joined'
<1>1. TypeOK /\ Frontier /\ Reported = Visible \cap Settled /\ CountsSettled
  BY DEF Joined, Finish, Finished, Cut
<1>2. UNCHANGED <<inputs, at, fed, changes, counters>>
  BY DEF Finish, Finished, Cut
<1>3. TypeOK'
  BY <1>1, <1>2 DEF Finish, Finished, Cut, TypeOK, inputs, counters, Over
<1>4. Ascending' /\ ReportIsPrefix' /\ Reported' = Reported /\ Visible' = Visible
  BY <1>2, QuietStep
<1>5. Handled' = Handled
  BY <1>2 DEF Finish, Finished, Cut, Handled
<1>6. Settled' = Settled
  BY <1>2, <1>5 DEF Settled, PassedBase, PassedLive, inputs
<1>7. Frontier'
  BY <1>1, <1>2, <1>5 DEF Finish, Finished, Cut, Frontier, inputs, TypeOK, Exhausted
<1>8. CountsSettled'
  BY <1>1, <1>2, <1>6, CountNoMore DEF inputs, counters
<1> QED BY <1>1, <1>3, <1>4, <1>6, <1>7, <1>8 DEF Joined

\* Every category of the table is one of the report's.
LEMMA Categories ==
    /\ \A e, f : Classify(e, f) \in Op
    /\ \A e : OpForMissing(e, TRUE) \in Op \ {"="} /\ OpForMissing(e, FALSE) \in Op \ {"="}
BY DEF Classify, OpForMissing, Op

LEMMA RemovedStep == ASSUME Joined, Removed PROVE Joined'
<1> DEFINE p == Old.path
           op == OpForMissing(Old, FALSE)
<1>1. TypeOK /\ Ascending /\ Frontier /\ status # "failed" /\ CountsSettled
  BY DEF Joined, Removed
<1>2. /\ NextIs(p, op) /\ at \in 1 .. Len(base) /\ p \in Int /\ p \notin Paths(live)
      /\ \A k \in 1 .. Len(live) : k > Handled => p < live[k].path
  BY <1>1, NextRemoved DEF Removed
<1>3. op \in Op /\ op # "="
  BY Categories
<1>4. UNCHANGED <<inputs, fed, compared>> /\ Report(op, p) /\ Ascending'
  BY <1>1 DEF Removed, ReportFails, inputs, Ascending
<1>5. /\ changes' \in Seq([op: Op \ {"="}, path: Path])
      /\ counts' \in [Op -> Nat] /\ ignored' \in Nat /\ hidden' \in Nat
      /\ ReportIsPrefix'
      /\ Reported' = Visible \cap (Settled \cup {p})
      /\ Counted(Settled \cup {p}, ignored', hidden', Len(changes'))
  <2> HIDE DEF p, op
  <2> QED BY <1>1, <1>2, <1>3, <1>4, ReportStep DEF inputs
<1>6. Visible' = Visible
  BY <1>4, SameStreams DEF inputs
<1>7. \/ status' = "failed" /\ at' \in 0 .. Len(base) + 1
      \/ status' = status /\ at' = at + 1 /\ (corrupt' = 0 \/ corrupt' > at')
  <2>1. CASE Advance(status)
    <3>1. UNCHANGED inputs /\ (corrupt = 0 \/ corrupt > at) /\ ~Exhausted
      BY <1>1, <1>4 DEF Frontier, Removed
    <3> QED BY <1>1, <2>1, <3>1, AdvanceStep
  <2>2. CASE status' = "failed" /\ UNCHANGED at
    BY <1>2, <2>2
  <2> QED BY <2>1, <2>2 DEF Removed, ReportFails
<1>8. TypeOK'
  BY <1>1, <1>2, <1>4, <1>5, <1>7 DEF TypeOK, inputs, Over
<1>9. CASE status' = "failed"
  BY <1>4, <1>5, <1>8, <1>9 DEF Joined
<1>10. CASE status' = status /\ at' = at + 1 /\ (corrupt' = 0 \/ corrupt' > at')
  <2>1. Handled' = Handled
    BY <1>4, <1>10 DEF Handled
  <2>2. PassedLive' = PassedLive
    BY <1>4, <2>1 DEF PassedLive, inputs
  <2>3. PassedBase' = PassedBase \cup {p}
    <3>1. 1 .. at' - 1 = (1 .. at - 1) \cup {at}
      BY <1>2, <1>10
    <3> QED BY <1>4, <3>1 DEF PassedBase, Old, inputs
  <2>4. Settled' = Settled \cup {p}
    BY <2>2, <2>3 DEF Settled
  <2>5. Frontier'
    <3>1. \A i \in 1 .. Len(base), k \in 1 .. Len(live) :
            /\ i < at + 1 /\ k > Handled => base[i].path < live[k].path
            /\ i >= at + 1 /\ k <= Handled => live[k].path < base[i].path
      <4> SUFFICES ASSUME NEW i \in 1 .. Len(base), NEW k \in 1 .. Len(live)
                   PROVE  /\ i < at + 1 /\ k > Handled => base[i].path < live[k].path
                          /\ i >= at + 1 /\ k <= Handled => live[k].path < base[i].path
        OBVIOUS
      <4>1. CASE i = at
        BY <1>2, <4>1 DEF Old
      <4>2. CASE i # at
        BY <1>1, <1>2, <4>2 DEF Frontier
      <4> QED BY <4>1, <4>2
    <3>2. status \in {"feeding", "finishing"}
      BY DEF Removed
    <3> QED BY <1>1, <1>4, <1>10, <2>1, <3>1, <3>2 DEF Frontier, inputs, TypeOK
  <2>6. CountsSettled'
    <3>1. p \notin Settled /\ p \notin InBoth
      BY <1>2 DEF NextIs, InBoth
    <3> HIDE DEF p
    <3> QED BY <1>1, <1>4, <1>5, <2>4, <3>1, CountOneMore DEF inputs
  <2> QED BY <1>4, <1>5, <1>6, <1>8, <2>4, <2>5, <2>6 DEF Joined
<1> QED BY <1>7, <1>9, <1>10

LEMMA BothStep == ASSUME Joined, Both PROVE Joined'
<1> DEFINE p == Fresh.path
           op == Classify(Old, Fresh)
<1>1. TypeOK /\ Ascending /\ Frontier /\ CountsSettled /\ status = "feeding" /\ ~Exhausted /\ Old.path = p
  BY DEF Joined, Both
<1>2. at \in 1 .. Len(base) /\ p \in Int
  BY <1>1, EntryOfPath DEF TypeOK, Frontier, Exhausted, Fresh, Ascending
<1>3. /\ fed \in 1 .. Len(live) /\ Handled = fed - 1
      /\ p \in Paths(live) /\ EntryAt(live, p) = Fresh
      /\ \A q \in Settled : q < p
      /\ \A q \in AllPaths : q < p => q \in Settled
      /\ \A i \in 1 .. Len(base) : i > at => base[i].path > p
  BY <1>1, <1>2, NextFed
<1>4. p \in Paths(base) /\ EntryAt(base, p) = Old
  BY <1>1, <1>2, EntryOfPath DEF Old, TypeOK, Ascending
<1>5. NextIs(p, op)
  BY <1>3, <1>4 DEF NextIs, DiffOp, AllPaths
<1>6. op \in Op
  BY Categories
<1>7. UNCHANGED <<inputs, fed>> /\ compared' = compared + 1 /\ Ascending'
  BY <1>1 DEF Both, inputs, Ascending
<1>8. /\ changes' \in Seq([op: Op \ {"="}, path: Path])
      /\ counts' \in [Op -> Nat] /\ ignored' \in Nat /\ hidden' \in Nat
      /\ ReportIsPrefix'
      /\ Reported' = Visible \cap (Settled \cup {p})
      /\ Counted(Settled \cup {p}, ignored', hidden', Len(changes'))
  <2>1. CASE op = "="
    <3>1. UNCHANGED <<base, live, changes, counts, ignored, hidden>>
      BY <1>7, <2>1 DEF Both, IsChange, inputs
    <3>2. NextIs(p, "=")
      BY <1>5, <2>1
    <3> HIDE DEF p, op
    <3> QED BY <1>1, <1>2, <3>1, <3>2, NothingToReport DEF TypeOK
  <2>2. CASE op # "="
    <3>1. Report(op, p)
      BY <2>2 DEF Both, IsChange, ReportFails
    <3> HIDE DEF p, op
    <3> QED BY <1>1, <1>5, <1>6, <1>7, <2>2, <3>1, ReportStep DEF inputs
  <2> QED BY <2>1, <2>2
<1>9. Visible' = Visible
  BY <1>7, SameStreams DEF inputs
<1>10. \/ status' = "failed" /\ at' \in 0 .. Len(base) + 1
       \/ status' = "ready" /\ at' = at + 1 /\ (corrupt' = 0 \/ corrupt' > at')
  <2>1. CASE Advance("ready")
    <3>1. UNCHANGED inputs /\ (corrupt = 0 \/ corrupt > at)
      BY <1>1, <1>7 DEF Frontier
    <3> QED BY <1>1, <2>1, <3>1, AdvanceStep
  <2>2. CASE status' = "failed" /\ UNCHANGED at
    BY <1>2, <2>2
  <2> QED BY <2>1, <2>2 DEF Both, ReportFails
<1>11. TypeOK'
  BY <1>1, <1>2, <1>7, <1>8, <1>10 DEF TypeOK, inputs, Over
<1>12. CASE status' = "failed"
  BY <1>7, <1>8, <1>11, <1>12 DEF Joined
<1>13. CASE status' = "ready" /\ at' = at + 1 /\ (corrupt' = 0 \/ corrupt' > at')
  <2>1. Handled' = fed
    BY <1>7, <1>13 DEF Handled
  <2>2. PassedBase' = PassedBase \cup {p}
    <3>1. 1 .. at' - 1 = (1 .. at - 1) \cup {at}
      BY <1>2, <1>13
    <3> QED BY <1>1, <1>7, <3>1 DEF PassedBase, Old, inputs
  <2>3. PassedLive' = PassedLive \cup {p}
    <3>1. 1 .. Handled' = (1 .. Handled) \cup {fed}
      BY <1>3, <2>1
    <3> QED BY <1>7, <3>1 DEF PassedLive, Fresh, inputs
  <2>4. Settled' = Settled \cup {p}
    BY <2>2, <2>3 DEF Settled
  <2>5. Frontier'
    <3>1. \A k \in 1 .. Len(live) : k > fed => p < live[k].path
      BY <1>1, <1>3 DEF Ascending, Canonical, Fresh
    <3>2. ASSUME NEW i \in 1 .. Len(base), NEW k \in 1 .. Len(live)
          PROVE  /\ i < at + 1 /\ k > fed => base[i].path < live[k].path
                 /\ i >= at + 1 /\ k <= fed => live[k].path < base[i].path
      <4>1. CASE i = at
        BY <1>1, <3>1, <4>1 DEF Old
      <4>2. CASE k = fed
        BY <1>2, <1>3, <4>2 DEF Fresh
      <4>3. CASE i # at /\ k # fed
        BY <1>1, <1>2, <1>3, <4>3 DEF Frontier
      <4> QED BY <4>1, <4>2, <4>3
    <3> QED BY <1>2, <1>7, <1>13, <2>1, <3>2 DEF Frontier, inputs, TypeOK
  <2>6. CountsSettled'
    <3>1. p \notin Settled /\ p \in InBoth
      BY <1>2, <1>3, <1>4 DEF InBoth
    <3> HIDE DEF p
    <3> QED BY <1>1, <1>7, <1>8, <2>4, <3>1, CountOneMore DEF inputs
  <2> QED BY <1>7, <1>8, <1>9, <1>11, <2>4, <2>5, <2>6 DEF Joined
<1> QED BY <1>10, <1>12, <1>13
LEMMA AddedStep == ASSUME Joined, Added PROVE Joined'
<1> DEFINE p == Fresh.path
           op == OpForMissing(Fresh, TRUE)
<1>1. TypeOK /\ Ascending /\ Frontier /\ CountsSettled /\ status = "feeding" /\ (~Exhausted => Old.path > p)
  BY DEF Joined, Added, Passed
<1>2. fed \in 1 .. Len(live) /\ at \in 1 .. Len(base) + 1
  BY <1>1 DEF TypeOK, Frontier
<1>3. p \in Int /\ \A i \in 1 .. Len(base) : base[i].path \in Int
  BY <1>1, <1>2, EntryOfPath DEF TypeOK, Ascending, Fresh
<1>4. ~Exhausted => Old.path >= p
  BY <1>1, <1>2, <1>3 DEF Exhausted, Old, TypeOK
<1>5. /\ Handled = fed - 1
      /\ p \in Paths(live) /\ EntryAt(live, p) = Fresh
      /\ \A q \in Settled : q < p
      /\ \A q \in AllPaths : q < p => q \in Settled
      /\ \A i \in 1 .. Len(base) : i >= at => base[i].path >= p
      /\ \A i \in 1 .. Len(base) : i > at => base[i].path > p
  BY <1>1, <1>4, NextFed
<1>6. \A i \in 1 .. Len(base) : i >= at => p < base[i].path
  BY <1>1, <1>2, <1>3, <1>5 DEF Exhausted, Old, TypeOK
<1>7. p \notin Paths(base)
  <2>1. ASSUME NEW i \in 1 .. Len(base), i < at PROVE base[i].path < p
    BY <1>1, <1>2, <1>5, <2>1 DEF Frontier, Fresh
  <2>2. \A i \in 1 .. Len(base) : i < at \/ i >= at
    BY <1>2
  <2> QED BY <1>3, <1>6, <2>1, <2>2 DEF Paths
<1>8. NextIs(p, op) /\ op \in Op /\ op # "="
  BY <1>5, <1>7, Categories DEF NextIs, DiffOp, AllPaths
<1>9. UNCHANGED <<inputs, at, fed, compared>> /\ Report(op, p) /\ Ascending'
  BY <1>1 DEF Added, ReportFails, inputs, Ascending
<1>10. /\ changes' \in Seq([op: Op \ {"="}, path: Path])
       /\ counts' \in [Op -> Nat] /\ ignored' \in Nat /\ hidden' \in Nat
       /\ ReportIsPrefix'
       /\ Reported' = Visible \cap (Settled \cup {p})
       /\ Counted(Settled \cup {p}, ignored', hidden', Len(changes'))
  <2> HIDE DEF p, op
  <2> QED BY <1>1, <1>8, <1>9, ReportStep DEF inputs
<1>11. Visible' = Visible
  BY <1>9, SameStreams DEF inputs
<1>12. status' \in {"ready", "failed"}
  BY DEF Added, ReportFails
<1>13. TypeOK'
  BY <1>1, <1>9, <1>10, <1>12 DEF TypeOK, inputs, Over
<1>14. CASE status' = "failed"
  BY <1>9, <1>10, <1>13, <1>14 DEF Joined
<1>15. CASE status' = "ready"
  <2>1. Handled' = fed
    BY <1>9, <1>15 DEF Handled
  <2>2. PassedLive' = PassedLive \cup {p}
    <3>1. 1 .. Handled' = (1 .. Handled) \cup {fed}
      BY <1>2, <1>5, <2>1
    <3> QED BY <1>9, <3>1 DEF PassedLive, Fresh, inputs
  <2>3. Settled' = Settled \cup {p}
    BY <1>9, <2>2 DEF Settled, PassedBase, inputs
  <2>4. Frontier'
    <3>1. ASSUME NEW i \in 1 .. Len(base), NEW k \in 1 .. Len(live)
          PROVE  /\ i < at /\ k > fed => base[i].path < live[k].path
                 /\ i >= at /\ k <= fed => live[k].path < base[i].path
      <4>1. CASE k = fed
        BY <1>2, <1>6, <4>1 DEF Fresh
      <4>2. CASE k # fed
        BY <1>1, <1>2, <1>5, <4>2 DEF Frontier
      <4> QED BY <4>1, <4>2
    <3> QED BY <1>1, <1>2, <1>9, <1>15, <2>1, <3>1 DEF Frontier, inputs, TypeOK
  <2>5. CountsSettled'
    <3>1. p \notin Settled /\ p \notin InBoth
      BY <1>3, <1>5, <1>7 DEF InBoth
    <3> HIDE DEF p
    <3> QED BY <1>1, <1>9, <1>10, <2>3, <3>1, CountOneMore DEF inputs
  <2> QED BY <1>9, <1>10, <1>11, <1>13, <2>3, <2>4, <2>5 DEF Joined
<1> QED BY <1>12, <1>14, <1>15

LEMMA StayStep == ASSUME Joined, UNCHANGED joinVars PROVE Joined'
<1>1. UNCHANGED <<base, live, corrupt, status, at, fed, changes, counts, ignored, hidden, compared>>
  BY DEF joinVars, inputs, counters
<1>2. Ascending' /\ ReportIsPrefix' /\ Reported' = Reported /\ Visible' = Visible
  BY <1>1, QuietStep DEF inputs
<1>3. TypeOK => TypeOK'
  BY <1>1 DEF TypeOK
<1>4. Handled' = Handled /\ Settled' = Settled
  BY <1>1 DEF Handled, Settled, PassedBase, PassedLive
<1>5. Frontier => Frontier'
  BY <1>1, <1>4 DEF Frontier, Exhausted
<1>6. CountsSettled => CountsSettled'
  BY <1>1, <1>4, CountNoMore
<1> QED BY <1>1, <1>2, <1>3, <1>4, <1>5, <1>6 DEF Joined

-----------------------------------------------------------------------------
(* The counters of the categories.                                         *)

\* A step hands one change to the callback and counts it, or neither.
LEMMA ReportsOrNot ==
    ASSUME [Next]_joinVars
    PROVE  \/ UNCHANGED <<changes, counts>>
           \/ \E op, p : Report(op, p)
<1>1. CASE New \/ Feed \/ Finish \/ Finished \/ Cut
  BY <1>1 DEF New, Feed, Finish, Finished, Cut, counters
<1>2. CASE Removed
  BY <1>2 DEF Removed, ReportFails
<1>3. CASE Both
  BY <1>3 DEF Both, ReportFails
<1>4. CASE Added
  BY <1>4 DEF Added, ReportFails
<1>5. CASE UNCHANGED joinVars
  BY <1>5 DEF joinVars, counters
<1> QED BY <1>1, <1>2, <1>3, <1>4, <1>5 DEF Next, Stay

\* What is appended is an element.
LEMMA AppendsElement ==
    ASSUME NEW S, NEW T, NEW s \in Seq(T), NEW c, NEW t \in Seq(S), t = Append(s, c)
    PROVE  c \in S
<1>1. Len(s) \in Nat /\ Len(t) = Len(s) + 1 /\ t[Len(s) + 1] = c
  OBVIOUS
<1>2. Len(s) + 1 \in 1 .. Len(t)
  BY <1>1
<1>3. \A i \in 1 .. Len(t) : t[i] \in S
  OBVIOUS
<1> QED BY <1>1, <1>2, <1>3

\* A change more is one more of its category.
LEMMA OneMoreOf ==
    ASSUME TypeOK, NEW c \in [op: Op \ {"="}, path: Path], changes' = Append(changes, c),
           NEW op \in Op
    PROVE  Cardinality(Of(op)') = IF op = c.op THEN Cardinality(Of(op)) + 1 ELSE Cardinality(Of(op))
<1> DEFINE n == Len(changes)
<1>1. n \in Nat /\ Len(changes') = n + 1 /\ changes'[n + 1] = c
      /\ \A i \in 1 .. n : changes'[i] = changes[i]
  BY DEF TypeOK
<1>2. IsFiniteSet(Of(op)) /\ Cardinality(Of(op)) \in Nat /\ n + 1 \notin Of(op)
  <2>1. IsFiniteSet(1 .. n)
    <3> HIDE DEF n
    <3> QED BY <1>1, FS_Interval
  <2>2. Of(op) \subseteq 1 .. n /\ n + 1 \notin Of(op)
    BY <1>1 DEF Of
  <2> QED BY <2>1, <2>2, FS_Subset, FS_CardinalityType
<1>3. Of(op)' = IF op = c.op THEN Of(op) \cup {n + 1} ELSE Of(op)
  <2>1. Of(op)' = {i \in 1 .. n + 1 : changes'[i].op = op}
    BY <1>1 DEF Of
  <2>2. 1 .. n + 1 = (1 .. n) \cup {n + 1}
    BY <1>1
  <2> QED BY <1>1, <2>1, <2>2 DEF Of
<1> QED BY <1>2, <1>3, FS_AddElement

LEMMA CountsChangesKept == ASSUME JInv, [Next]_joinVars, TypeOK' PROVE CountsChanges'
<1>1. TypeOK /\ CountsChanges
  BY DEF JInv, Joined
<1>2. ASSUME UNCHANGED <<changes, counts>> PROVE CountsChanges'
  BY <1>1, <1>2 DEF CountsChanges, Of
<1>3. CASE \E op, p : Report(op, p)
  <2>1. PICK o, p : Report(o, p)
    BY <1>3
  <2>2. CASE Filter(o, p) # "shown"
    BY <1>2, <2>1, <2>2 DEF Report
  <2>3. CASE Filter(o, p) = "shown"
    <3> DEFINE c == [op |-> o, path |-> p]
    <3>1. changes' = Append(changes, c) /\ counts' = [counts EXCEPT ![o] = @ + 1]
      BY <2>1, <2>3 DEF Report
    <3>2. c \in [op: Op \ {"="}, path: Path]
      BY <1>1, <3>1, AppendsElement DEF TypeOK
    <3>3. c.op = o /\ o \in Op
      BY <3>2
    <3> HIDE DEF c
    <3>4. \A op \in Op : Cardinality(Of(op)') = IF op = o THEN Cardinality(Of(op)) + 1
                                                ELSE Cardinality(Of(op))
      BY <1>1, <3>1, <3>2, <3>3, OneMoreOf
    <3>5. \A op \in Op : counts'[op] = IF op = o THEN counts[op] + 1 ELSE counts[op]
      BY <1>1, <3>1, <3>3 DEF TypeOK
    <3> QED BY <1>1, <3>4, <3>5 DEF CountsChanges
  <2> QED BY <2>2, <2>3
<1> QED BY <1>2, <1>3, ReportsOrNot

-----------------------------------------------------------------------------
(* The invariant.                                                          *)

LEMMA InitJInv == ASSUME Init PROVE JInv
<1>1. Joined
  BY InitJoined
<1>2. \A op \in Op : Of(op) = {}
  BY DEF Init, Of
<1> QED BY <1>1, <1>2, FS_EmptySet DEF JInv, CountsChanges, Init

LEMMA JInvIsInductive == ASSUME JInv, [Next]_joinVars PROVE JInv'
<1>1. Joined'
  <2>1. Joined
    BY DEF JInv
  <2>2. CASE New
    BY <2>1, <2>2, NewStep
  <2>3. CASE Feed
    BY <2>1, <2>3, FeedStep
  <2>4. CASE Removed
    BY <2>1, <2>4, RemovedStep
  <2>5. CASE Both
    BY <2>1, <2>5, BothStep
  <2>6. CASE Added
    BY <2>1, <2>6, AddedStep
  <2>7. CASE Finish \/ Finished \/ Cut
    BY <2>1, <2>7, EndStep
  <2>8. CASE UNCHANGED joinVars
    BY <2>1, <2>8, StayStep
  <2> QED BY <2>2, <2>3, <2>4, <2>5, <2>6, <2>7, <2>8 DEF Next, Stay
<1>2. CountsChanges'
  BY <1>1, CountsChangesKept DEF Joined
<1> QED BY <1>1, <1>2 DEF JInv

\* The inductive invariant of a join.
THEOREM JInvInvariant == Spec => []JInv
<1>1. Init => JInv
  BY InitJInv
<1>2. JInv /\ [Next]_joinVars => JInv'
  BY JInvIsInductive
<1> QED BY <1>1, <1>2, PTL DEF Spec

-----------------------------------------------------------------------------
(* What the invariant gives.                                               *)

\* Type correctness: no category but those of the report reaches the callback,
\* and the cursors stay within their streams (Joiner).
THEOREM JoinerTypeOK == Spec => []TypeOK
<1>1. JInv => TypeOK
  BY DEF JInv, Joined
<1> QED BY <1>1, JInvInvariant, PTL

\* At any moment the report is the beginning of the right one (Feed, Finish).
THEOREM JoinerReportIsPrefix == Spec => []ReportIsPrefix
<1>1. JInv => ReportIsPrefix
  BY DEF JInv, Joined
<1> QED BY <1>1, JInvInvariant, PTL

\* At the end every path of the two streams is settled.
LEMMA DoneSettlesAll ==
    ASSUME JInv, status = "done"
    PROVE  Settled = AllPaths
<1>1. TypeOK /\ Frontier
  BY DEF JInv, Joined
<1>2. fed = Len(live) /\ Handled = fed /\ at = Len(base) + 1
  BY <1>1 DEF Frontier, Handled, Exhausted, TypeOK
<1>3. PassedBase = Paths(base) /\ PassedLive = Paths(live)
  BY <1>1, <1>2 DEF Paths, PassedBase, PassedLive, TypeOK
<1> QED BY <1>3 DEF Settled, AllPaths

\* A join that ends has reported every visible difference (Finish, advance).
THEOREM JoinerDoneMeansComplete == Spec => []DoneMeansComplete
<1>1. JInv => DoneMeansComplete
  <2> SUFFICES ASSUME JInv, status = "done" PROVE DoneMeansComplete
    BY DEF DoneMeansComplete
  <2>1. TypeOK /\ Frontier /\ Reported = Visible \cap Settled
    BY DEF JInv, Joined
  <2>2. corrupt = 0
    BY <2>1 DEF Frontier, Exhausted, TypeOK
  <2>3. Visible \subseteq Reported
    BY <2>1, DoneSettlesAll DEF Visible, Different, AllPaths
  <2> QED BY <2>2, <2>3 DEF DoneMeansComplete, Reported
<1> QED BY <1>1, JInvInvariant, PTL

\* Two sets that have nothing in common.
LEMMA DisjointUnion ==
    ASSUME NEW S, IsFiniteSet(S), NEW T, IsFiniteSet(T), S \cap T = {}
    PROVE  IsFiniteSet(S \cup T) /\ Cardinality(S \cup T) = Cardinality(S) + Cardinality(T)
<1>1. IsFiniteSet(S \cup T) /\ Cardinality(S \cup T) = Cardinality(S) + Cardinality(T) - Cardinality({})
  BY FS_Union
<1>2. Cardinality({}) = 0 /\ Cardinality(S) \in Nat /\ Cardinality(T) \in Nat
  BY FS_EmptySet, FS_CardinalityType
<1> QED BY <1>1, <1>2

\* A join that has ended has as many changes of a category as there are visible
\* differences of it.
LEMMA DoneCounts ==
    ASSUME JInv, status = "done", NEW op \in Op
    PROVE  counts[op] = Cardinality({p \in Visible : DiffOp(p) = op})
<1> DEFINE S == Of(op)
           T == {p \in Visible : DiffOp(p) = op}
           f == [i \in S |-> changes[i].path]
<1>1. TypeOK /\ ReportIsPrefix /\ Frontier /\ Reported = Visible \cap Settled
  BY DEF JInv, Joined
<1>2. \A p \in Visible : \E i \in 1 .. Len(changes) : changes[i].path = p
  <2>1. Visible \subseteq Settled
    BY DoneSettlesAll DEF Visible, Different, AllPaths
  <2> QED BY <1>1, <2>1 DEF Reported
<1>3. Len(changes) \in Nat /\ S \subseteq 1 .. Len(changes)
  BY <1>1 DEF TypeOK, Of
<1>4. IsFiniteSet(S)
  <2> DEFINE n == Len(changes)
  <2>1. n \in Nat
    BY <1>3
  <2> HIDE DEF n
  <2>2. IsFiniteSet(1 .. n)
    BY <2>1, FS_Interval
  <2> QED BY <1>3, <2>2, FS_Subset DEF n
<1>5. f \in Bijection(S, T)
  <2>1. \A i \in S : f[i] \in T
    BY <1>1 DEF ReportIsPrefix, Of
  <2>2. \A i, j \in S : f[i] = f[j] => i = j
    <3> SUFFICES ASSUME NEW i \in S, NEW j \in S, changes[i].path = changes[j].path, i # j
                 PROVE  FALSE
      OBVIOUS
    <3>1. i < j \/ j < i
      BY <1>3
    <3>2. changes[i].path < changes[j].path \/ changes[j].path < changes[i].path
      BY <1>1, <1>3, <3>1 DEF ReportIsPrefix
    <3>3. changes[i].path \in Int
      <4> DEFINE C == [op: Op \ {"="}, path: Path]
      <4>0. changes \in Seq(C) /\ i \in 1 .. Len(changes)
        BY <1>1, <1>3 DEF TypeOK
      <4>1. changes[i] \in C
        <5> HIDE DEF C, S
        <5> QED BY <4>0
      <4>2. \A c \in [op: Op \ {"="}, path: Path] : c.path \in Int
        BY ClassifyAssumption
      <4> QED BY <4>1, <4>2
    <3> QED BY <3>2, <3>3
  <2>3. \A p \in T : \E i \in S : f[i] = p
    BY <1>1, <1>2 DEF ReportIsPrefix, Of
  <2> HIDE DEF S, T
  <2> QED BY <2>1, <2>2, <2>3 DEF Bijection, Injection, Surjection, IsInjective
<1>6. Cardinality(S) = Cardinality(T)
  <2> HIDE DEF S, T, f
  <2> QED BY <1>4, <1>5, FS_Bijection DEF ExistsBijection
<1> QED BY <1>6 DEF JInv, CountsChanges

\* What a join that has ended has counted.
LEMMA DoneAddsUp ==
    ASSUME JInv, status = "done"
    PROVE  /\ ignored = Cardinality({p \in Different : <<DiffOp(p), p>> \in Ignored})
           /\ hidden = Cardinality({p \in Different : Filter(DiffOp(p), p) = "hidden"})
           /\ Len(changes) + hidden + ignored = Cardinality(Different)
           /\ compared = Cardinality(Paths(base) \cap Paths(live))
<1> DEFINE W(f) == With(f, Different)
<1>1. CountsSettled /\ Different \subseteq Settled /\ InBoth \subseteq Settled
  BY DoneSettlesAll DEF JInv, Joined, Different, AllPaths, InBoth
<1>2. IsFiniteSet(Different)
  BY <1>1, FS_Subset DEF CountsSettled
<1>3. \A f : With(f, Settled) = W(f) /\ W(f) \subseteq Different
  BY <1>1 DEF With
<1>4. \A f : IsFiniteSet(W(f)) /\ Cardinality(W(f)) \in Nat
  BY <1>2, <1>3, FS_Subset, FS_CardinalityType
<1>5. Different = (W("shown") \cup W("hidden")) \cup W("ignored")
  BY DEF With, Filter
<1>6. /\ W("shown") \cap W("hidden") = {}
      /\ (W("shown") \cup W("hidden")) \cap W("ignored") = {}
  BY DEF With
<1>7. /\ IsFiniteSet(W("shown") \cup W("hidden"))
      /\ Cardinality(W("shown") \cup W("hidden"))
            = Cardinality(W("shown")) + Cardinality(W("hidden"))
  BY <1>4, <1>6, DisjointUnion
<1>8. Cardinality(Different) = Cardinality(W("shown") \cup W("hidden")) + Cardinality(W("ignored"))
  BY <1>4, <1>5, <1>6, <1>7, DisjointUnion
<1>9. /\ W("ignored") = {p \in Different : <<DiffOp(p), p>> \in Ignored}
      /\ W("hidden") = {p \in Different : Filter(DiffOp(p), p) = "hidden"}
  BY DEF With, Filter
<1>10. /\ ignored = Cardinality(W("ignored")) /\ hidden = Cardinality(W("hidden"))
       /\ Len(changes) = Cardinality(W("shown"))
       /\ compared = Cardinality(InBoth)
  <2>1. InBoth \cap Settled = InBoth
    BY <1>1
  <2> QED BY <1>1, <1>3, <2>1 DEF CountsSettled, Counted
<1> HIDE DEF W
<1> QED BY <1>4, <1>7, <1>8, <1>9, <1>10 DEF InBoth

\* Every difference is counted once, as ignored, as hidden or in its category, by
\* counters that are kept one by one (report), and Compared counts the paths of both
\* sides (Feed).
THEOREM JoinerCountersAddUp == Spec => []CountersAddUp
<1>1. JInv => CountersAddUp
  BY DoneAddsUp, DoneCounts DEF CountersAddUp
<1> QED BY <1>1, JInvInvariant, PTL
=============================================================================
