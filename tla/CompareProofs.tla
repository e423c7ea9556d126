--------------------------- MODULE CompareProofs ---------------------------
(***************************************************************************)
(* What osfp compare reports and returns, for every pair of trees, every   *)
(* perimeter and every mode.                                               *)
(*                                                                         *)
(* The streams of the two walks are canonical and hold exactly what was    *)
(* scanned, so that the merge join keeps the invariant of JoinerProofs;    *)
(* the rest is which steps of the command go with which of the join's.     *)
(***************************************************************************)
EXTENDS Compare, FiniteSetTheorems, SequenceTheorems, WellFoundedInduction, TLAPS

J == INSTANCE JoinerProofs

-----------------------------------------------------------------------------
(* The streams.                                                            *)

\* How many elements of s are below p.
Rank(s, p) == Cardinality({q \in s : q < p})

LEMMA RankOrder ==
    ASSUME NEW s \in SUBSET Int, IsFiniteSet(s)
    PROVE  /\ \A p \in s : Rank(s, p) \in 0 .. Cardinality(s) - 1
           /\ \A p, q \in s : p < q => Rank(s, p) < Rank(s, q)
<1> DEFINE B(p) == {q \in s : q < p}
<1>1. \A p \in s : /\ IsFiniteSet(B(p)) /\ Cardinality(B(p)) \in Nat
                   /\ Cardinality(B(p)) <= Cardinality(s)
  BY FS_Subset, FS_CardinalityType
<1>2. Cardinality(s) \in Nat
  BY FS_CardinalityType
<1>3. ASSUME NEW p \in s PROVE Cardinality(B(p)) # Cardinality(s)
  <2>1. B(p) # s
    OBVIOUS
  <2> QED BY <2>1, FS_Subset
<1>4. ASSUME NEW p \in s, NEW q \in s, p < q PROVE Cardinality(B(p)) < Cardinality(B(q))
  <2>1. B(p) \subseteq B(q) /\ p \in B(q) /\ p \notin B(p)
    <3>1. p \in Int /\ q \in Int /\ \A x \in s : x \in Int
      OBVIOUS
    <3>2. \A x \in s : x < p => x < q
      BY <1>4, <3>1
    <3>3. p \in B(q)
      BY <1>4
    <3>4. p \notin B(p)
      BY <3>1
    <3> QED BY <3>2, <3>3, <3>4
  <2>2. B(p) # B(q)
    BY <2>1
  <2>3. Cardinality(B(p)) <= Cardinality(B(q)) /\ Cardinality(B(p)) # Cardinality(B(q))
    <3> HIDE DEF B
    <3> QED BY <1>1, <2>1, <2>2, FS_Subset
  <2> QED BY <1>1, <2>3
<1> QED BY <1>1, <1>2, <1>3, <1>4 DEF Rank

\* InOrder lists every element once, from the least to the greatest.
LEMMA InOrderLists ==
    ASSUME NEW s \in SUBSET Int, IsFiniteSet(s)
    PROVE  /\ InOrder(s) \in Seq(s)
           /\ \A i, j \in 1 .. Len(InOrder(s)) : i < j => InOrder(s)[i] < InOrder(s)[j]
           /\ \A p \in s : \E i \in 1 .. Len(InOrder(s)) : InOrder(s)[i] = p
<1> DEFINE n == Cardinality(s)
           f == [p \in s |-> Rank(s, p)]
           o == InOrder(s)
<1>1. n \in Nat
  BY FS_CardinalityType
<1>2. /\ \A p \in s : Rank(s, p) \in 0 .. n - 1
      /\ \A p, q \in s : p < q => Rank(s, p) < Rank(s, q)
  BY RankOrder
<1>3. \A p, q \in s : Rank(s, p) = Rank(s, q) => p = q
  <2> SUFFICES ASSUME NEW p \in s, NEW q \in s, Rank(s, p) = Rank(s, q), p # q PROVE FALSE
    OBVIOUS
  <2>1. p < q \/ q < p
    OBVIOUS
  <2>2. Rank(s, p) \in Int /\ Rank(s, q) \in Int
    BY <1>2
  <2> QED BY <1>2, <2>1, <2>2
<1>4. \A i \in 1 .. n : \E p \in s : Rank(s, p) = i - 1
  <2>1. f \in Injection(s, 0 .. n - 1)
    BY <1>2, <1>3 DEF Injection, IsInjective
  <2>2. IsFiniteSet(0 .. n - 1) /\ Cardinality(0 .. n - 1) = n
    BY <1>1, FS_Interval
  <2>3. f \in Surjection(s, 0 .. n - 1)
    <3> HIDE DEF f
    <3> QED BY <2>1, <2>2, FS_Injection
  <2>4. \A i \in 0 .. n - 1 : \E p \in s : Rank(s, p) = i
    BY <2>3 DEF Surjection
  <2> QED BY <1>1, <2>4
<1>5. o = [i \in 1 .. n |-> CHOOSE p \in s : Rank(s, p) = i - 1]
  BY DEF InOrder, Rank
<1>6. \A i \in 1 .. n : o[i] \in s /\ Rank(s, o[i]) = i - 1
  BY <1>4, <1>5
<1>7. o \in Seq(s) /\ Len(o) = n
  <2>1. o \in [1 .. n -> s]
    BY <1>5, <1>6
  <2> HIDE DEF o
  <2> QED BY <1>1, <2>1
<1> HIDE DEF n, f, o
<1>8. ASSUME NEW i \in 1 .. n, NEW j \in 1 .. n, i < j PROVE o[i] < o[j]
  <2>1. o[i] \in s /\ o[j] \in s /\ Rank(s, o[i]) = i - 1 /\ Rank(s, o[j]) = j - 1
    BY <1>6
  <2>2. o[i] \in Int /\ o[j] \in Int /\ i \in Int /\ j \in Int
    <3>1. s \subseteq Int
      OBVIOUS
    <3>2. i \in Int /\ j \in Int
      BY <1>1
    <3> QED BY <2>1, <3>1, <3>2, Zenon
  <2>3. o[j] < o[i] => Rank(s, o[j]) < Rank(s, o[i])
    BY <1>2, <2>1
  <2>4. i - 1 < j - 1
    BY <1>8, <2>2
  <2>5. ~ (o[j] < o[i])
    BY <2>1, <2>2, <2>3, <2>4
  <2>6. o[i] # o[j]
    BY <2>1, <2>2, <2>4
  <2> QED BY <2>2, <2>5, <2>6
<1>9. ASSUME NEW p \in s PROVE \E i \in 1 .. n : o[i] = p
  <2> DEFINE k == Rank(s, p) + 1
  <2>1. k \in 1 .. n /\ k - 1 = Rank(s, p)
    BY <1>1, <1>2
  <2> HIDE DEF k
  <2>2. o[k] \in s /\ Rank(s, o[k]) = Rank(s, p)
    BY <1>6, <2>1
  <2>3. o[k] = p
    BY <1>3, <2>2
  <2> QED BY <2>1, <2>3
<1> QED BY <1>7, <1>8, <1>9 DEF o

\* s is the stream of what a walk of f scans.
IsStream(s, f, excluded, refused) ==
    /\ s \in Seq(J!Entry)
    /\ J!Canonical(s)
    /\ J!Paths(s) = Scanned(f, excluded, refused)
    /\ \A i \in 1 .. Len(s) : s[i] = EntryAt(f, s[i].path, refused)

\* An entry of a stream is one of the join's.
LEMMA EntryTyped ==
    ASSUME NEW f, NEW p \in Path, NEW refused
    PROVE  EntryAt(f, p, refused) \in J!Entry /\ EntryAt(f, p, refused).path = p
<1>1. Hash = {"h1", "h2"} /\ Unhashed = "unhashed"
  BY DEF Hash, Unhashed
<1> QED BY <1>1 DEF EntryAt, J!Entry, Type, Link, Size, MTime, Attrs

LEMMA StreamIsStream ==
    ASSUME NEW f, NEW x, NEW r
    PROVE  IsStream(Stream(f, x, r), f, x, r)
<1> DEFINE S == Scanned(f, x, r)
           o == InOrder(S)
           s == Stream(f, x, r)
<1>1. S \in SUBSET Path /\ S \in SUBSET Int /\ IsFiniteSet(S)
  BY TreeAssumption, FS_Subset DEF Scanned
<1>2. /\ o \in Seq(S)
      /\ \A i, j \in 1 .. Len(o) : i < j => o[i] < o[j]
      /\ \A p \in S : \E i \in 1 .. Len(o) : o[i] = p
  <2> HIDE DEF S
  <2> QED BY <1>1, InOrderLists
<1>3. s = [i \in 1 .. Len(o) |-> EntryAt(f, o[i], r)]
  BY DEF Stream
<1> HIDE DEF S, o, s
<1>4. Len(o) \in Nat /\ \A i \in 1 .. Len(o) : o[i] \in S /\ o[i] \in Path
  <2>1. Len(o) \in Nat /\ \A i \in 1 .. Len(o) : o[i] \in S
    BY <1>2
  <2> QED BY <1>1, <2>1, Zenon
<1>5. \A i \in 1 .. Len(o) : s[i] \in J!Entry /\ s[i].path = o[i] /\ s[i] = EntryAt(f, o[i], r)
  BY <1>3, <1>4, EntryTyped
<1>6. s \in Seq(J!Entry) /\ Len(s) = Len(o)
  <2>1. s \in [1 .. Len(o) -> J!Entry]
    BY <1>3, <1>5
  <2> QED BY <1>4, <2>1
<1>7. J!Canonical(s)
  BY <1>2, <1>5, <1>6 DEF J!Canonical
<1>8. J!Paths(s) = S
  BY <1>2, <1>4, <1>5, <1>6 DEF J!Paths
<1>9. \A i \in 1 .. Len(s) : s[i] = EntryAt(f, s[i].path, r)
  BY <1>5, <1>6
<1> QED BY <1>6, <1>7, <1>8, <1>9 DEF IsStream, S, s

\* The entry the join finds at a path is that of the file there.
LEMMA StreamEntry ==
    ASSUME NEW s, NEW f, NEW x, NEW r, IsStream(s, f, x, r), NEW p \in J!Paths(s)
    PROVE  J!EntryAt(s, p) = EntryAt(f, p, r)
<1>1. \E i \in 1 .. Len(s) : s[i].path = p
  BY DEF J!Paths
<1> QED BY <1>1 DEF J!EntryAt, IsStream

\* What a walk scans is there, is not excluded, and is reached through directories that
\* are scanned as well.
LEMMA ScannedIsClosed ==
    ASSUME NEW f \in Systems, NEW x \in SUBSET Path, Closed(x), NEW r,
           NEW p \in Scanned(f, x, r), NEW d \in Above[p]
    PROVE  d \in Scanned(f, x, r) /\ f[d] \in Directory
<1>1. p \in Path /\ d \in Path /\ Above[d] \subseteq Above[p]
  BY TreeAssumption DEF Scanned
<1>2. There(f, p) /\ p \notin x /\ \A c \in Above[p] : MayDescend(f, c, r)
  BY DEF Scanned
<1>3. f[d] \in Directory /\ There(f, d)
  BY <1>1, <1>2, SystemAssumption DEF Directory, There
<1>4. d \notin x
  BY <1>1, <1>2 DEF Closed
<1> QED BY <1>1, <1>2, <1>3, <1>4 DEF Scanned

\* The root is always scanned.
LEMMA RootIsScanned ==
    ASSUME NEW f \in Systems, NEW x, Root \notin x, NEW r
    PROVE  Root \in Scanned(f, x, r)
BY SystemAssumption, TreeAssumption DEF Scanned, There

\* The exclusions of either walk cover whole subtrees, and not the root.
LEMMA ExclusionsAreClosed ==
    /\ Excluded \in SUBSET Path /\ Closed(Excluded) /\ Root \notin Excluded
    /\ \A x \in Extras : /\ LiveExcluded(x) \in SUBSET Path /\ Closed(LiveExcluded(x))
                         /\ Root \notin LiveExcluded(x)
<1>1. \A x \in Extras \cup {Excluded} : x \subseteq Path \ {Root} /\ Closed(x)
  BY PerimeterAssumption
<1>2. \A x \in Extras : Closed(Excluded \cup x)
  BY <1>1 DEF Closed
<1> QED BY <1>1, <1>2 DEF LiveExcluded

-----------------------------------------------------------------------------
(* The merge join inside the command.                                      *)

\* The command feeds the join what the join assumes.
LEMMA JoinAssumptions == J!ClassifyAssumption /\ J!JoinerAssumption
<1>1. J!ClassifyAssumption
  BY TreeAssumption DEF J!ClassifyAssumption, Type, Hash, Unhashed
<1>2. ASSUME NEW s \in Fingerprints \cup Scans PROVE s \in Seq(J!Entry) /\ J!Canonical(s)
  <2>1. \E f, x, r : s = Stream(f, x, r)
    BY <1>2 DEF Fingerprints, Scans, Fingerprint
  <2> QED BY <2>1, StreamIsStream DEF IsStream
<1>3. Ignored \subseteq J!Op \X Path /\ Shown \subseteq J!Op
  BY RulesAssumption DEF Join!Op, J!Op
<1> QED BY <1>1, <1>2, <1>3 DEF J!JoinerAssumption

\* The two instances of Joiner are the same.
LEMMA SameJoin ==
    /\ Join!Init => J!Init
    /\ Join!New => J!New
    /\ Join!Feed => J!Feed
    /\ Join!Removed => J!Removed
    /\ Join!Both => J!Both
    /\ Join!Added => J!Added
    /\ Join!Finished => J!Finished
    /\ Join!Cut => J!Cut
    /\ Join!TypeOK <=> J!TypeOK
    /\ Join!Visible = J!Visible /\ Join!Different = J!Different
<1> USE DEF Join!Exhausted, J!Exhausted, Join!Old, J!Old, Join!Fresh, J!Fresh,
            Join!inputs, J!inputs, Join!counters, J!counters, Join!Advance, J!Advance,
            Join!Filter, J!Filter, Join!Report, J!Report, Join!ReportFails, J!ReportFails,
            Join!OpForMissing, J!OpForMissing, Join!Classify, J!Classify
<1>1. Join!Init => J!Init
  BY DEF Join!Init, J!Init, Join!Op, J!Op
<1>2. (Join!New => J!New) /\ (Join!Feed => J!Feed)
  BY DEF Join!New, J!New, Join!Feed, J!Feed
<1>3. Join!Removed => J!Removed
  BY DEF Join!Removed, J!Removed
<1>4. Join!Both => J!Both
  BY DEF Join!Both, J!Both, Join!IsChange, J!IsChange, Join!AnyUnreadable, J!AnyUnreadable,
         Join!ContentChanged, J!ContentChanged, Join!MaybeChanged, J!MaybeChanged,
         Join!BothHashed, J!BothHashed, Join!UnhashedDiffer, J!UnhashedDiffer
<1>5. Join!Added => J!Added
  BY DEF Join!Added, J!Added, Join!Passed, J!Passed
<1>6. (Join!Finished => J!Finished) /\ (Join!Cut => J!Cut)
  BY DEF Join!Finished, J!Finished, Join!Cut, J!Cut
<1>7. Join!TypeOK <=> J!TypeOK
  BY DEF Join!TypeOK, J!TypeOK, Join!Entry, J!Entry, Join!Op, J!Op, Join!Over, J!Over
<1>8. \A p : Join!DiffOp(p) = J!DiffOp(p)
  BY DEF Join!DiffOp, J!DiffOp, Join!Paths, J!Paths, Join!EntryAt, J!EntryAt,
         Join!AnyUnreadable, J!AnyUnreadable,
         Join!ContentChanged, J!ContentChanged, Join!MaybeChanged, J!MaybeChanged,
         Join!BothHashed, J!BothHashed, Join!UnhashedDiffer, J!UnhashedDiffer
<1>9. Join!Visible = J!Visible /\ Join!Different = J!Different
  BY <1>8 DEF Join!Visible, J!Visible, Join!Different, J!Different, Join!Paths, J!Paths
<1> QED BY <1>1, <1>2, <1>3, <1>4, <1>5, <1>6, <1>7, <1>9

-----------------------------------------------------------------------------
(* The inductive invariant.                                                *)

\* The two walks are of the perimeter and the directories the command settled on.
TheStreams ==
    /\ then \in Systems /\ now \in Systems /\ extra \in Extras
    /\ base = Fingerprint(then)
    /\ live = Stream(now, LiveExcluded(extra), Refused(mode, base))

CommandTyped ==
    /\ phase \in {"start", "open", "walking", "finishing", "closing", "committing", "over"}
    /\ cancelled \in BOOLEAN
    /\ out \in {"none", "tmp", "final"}
    /\ exit \in {"running", "ok", "diff", "error", "privilege", "interrupted"}
    /\ exit = "running" <=> phase # "over"

\* What each way out of runCompare says of the report.
Outcome ==
    /\ phase \in {"closing", "committing"} => status = "done"
    /\ out = "final" => phase = "over" /\ status = "done"
    /\ phase = "over" => out # "tmp"
    /\ exit = "interrupted" => out = "none"
    /\ exit \in {"ok", "diff"} => status = "done"
    /\ exit = "diff" => Findings > 0 /\ failOnDiff
    /\ exit = "ok" /\ failOnDiff => ~ (Findings > 0)

\* Each summary is of a directory that the second walk came to.
TheSummaries ==
    \A s \in summaries :
        /\ s.dir \in J!Paths(live) /\ now[s.dir] \in Directory
        /\ s = DirSummary(now, s.dir, extra)

\* The changes that are noise, by their places in the report.
NoisePlaces == {i \in 1 .. Len(changes) : changes[i].path \in Volatile}

NoiseCounted == expected = Cardinality(NoisePlaces)

CInv ==
    /\ J!JInv
    /\ TheStreams
    /\ CommandTyped
    /\ Outcome
    /\ TheSummaries
    /\ NoiseCounted

\* Every step of the command is one of the join, or leaves it where it is.
LEMMA JoinMoves == [Next]_vars => [J!Next]_(J!joinVars)
<1> SUFFICES ASSUME [Next]_vars PROVE J!Next \/ UNCHANGED J!joinVars
  OBVIOUS
<1>1. CASE StartJoin \/ Feed \/ JoinStep \/ Added \/ WalkCut \/ FinishEnds
  BY <1>1, SameJoin DEF StartJoin, Feed, JoinStep, Added, WalkCut, FinishEnds, J!Next
<1>2. CASE WalkEnds
  BY <1>2 DEF WalkEnds, J!Next, J!Finish, J!inputs, J!counters
<1>3. CASE UNCHANGED join
  BY <1>3 DEF join, J!joinVars, J!inputs, J!counters
<1>4. Next => \/ StartJoin \/ Feed \/ JoinStep \/ Added \/ WalkCut \/ FinishEnds
              \/ WalkEnds \/ UNCHANGED join
  BY DEF Next, Refuse, OpenReport, PrepareFails, JoinFailed, CloseReport, Commit, Interrupt, Over,
         vars
<1> QED BY <1>1, <1>2, <1>3, <1>4 DEF vars

LEMMA JoinKeeps == ASSUME J!JInv, [Next]_vars PROVE J!JInv'
BY JoinMoves, JoinAssumptions, J!JInvIsInductive

\* No step changes what is compared with what.
LEMMA QuestionStays ==
    ASSUME [Next]_vars
    PROVE  UNCHANGED <<then, now, mode, extra, failOnDiff, base, live, corrupt>>
<1>1. UNCHANGED question
  BY DEF Next, Refuse, OpenReport, PrepareFails, StartJoin, Feed, JoinStep, Added, WalkCut,
         JoinFailed, WalkEnds, FinishEnds, CloseReport, Commit, Interrupt, Over, Return, vars
<1>2. UNCHANGED <<base, live, corrupt>>
  <2>1. J!Next \/ UNCHANGED J!joinVars
    BY JoinMoves
  <2> QED BY <2>1 DEF J!Next, J!New, J!Feed, J!Removed, J!Both, J!Added, J!Finish, J!Finished,
                      J!Cut, J!Stay, J!joinVars, J!inputs
<1> QED BY <1>1, <1>2 DEF question

LEMMA StreamsKept == ASSUME TheStreams, [Next]_vars PROVE TheStreams'
BY QuestionStays DEF TheStreams

\* runCompare has returned.
LEMMA CommandKept == ASSUME CommandTyped, [Next]_vars PROVE CommandTyped'
<1> USE DEF CommandTyped, Return
<1>1. CASE Refuse \/ PrepareFails \/ WalkCut \/ JoinFailed \/ CloseReport \/ Commit
  BY <1>1 DEF Refuse, PrepareFails, WalkCut, JoinFailed, WalkCode, CloseReport, Commit, Aborted
<1>2. CASE OpenReport \/ Feed \/ JoinStep \/ Added \/ WalkEnds \/ FinishEnds \/ Interrupt
  BY <1>2 DEF OpenReport, Feed, JoinStep, Added, WalkEnds, FinishEnds, Interrupt, command,
                progress
<1>3. CASE StartJoin
  BY <1>3 DEF StartJoin, Aborted
<1>4. CASE UNCHANGED command
  BY <1>4 DEF command, progress
<1> QED BY <1>1, <1>2, <1>3, <1>4 DEF Next, Over, vars

LEMMA OutcomeKept == ASSUME CommandTyped, Outcome, [Next]_vars PROVE Outcome'
<1> USE DEF CommandTyped, Outcome, Return
<1>1. CASE Refuse \/ PrepareFails \/ WalkCut \/ JoinFailed
  BY <1>1 DEF Refuse, PrepareFails, WalkCut, JoinFailed, WalkCode, Aborted
<1>2. CASE OpenReport \/ Feed \/ JoinStep \/ Added \/ WalkEnds
  BY <1>2 DEF OpenReport, Feed, JoinStep, Added, WalkEnds, command, progress
<1>3. CASE StartJoin
  BY <1>3 DEF StartJoin, Aborted
<1>4. CASE FinishEnds
  BY <1>4 DEF FinishEnds, Join!Finished
<1>5. CASE CloseReport
  BY <1>5 DEF CloseReport, Aborted, join
<1>6. CASE Commit
  <2>1. status' = status /\ counts' = counts /\ expected' = expected
    BY <1>6 DEF Commit, join
  <2>2. Findings' = Findings
    BY <2>1 DEF Findings
  <2>3. status = "done" /\ failOnDiff' = failOnDiff /\ phase' = "over"
    BY <1>6 DEF Commit, question
  <2>4. CASE Return(IF Findings > 0 /\ failOnDiff THEN "diff" ELSE "ok", "final")
    BY <2>1, <2>2, <2>3, <2>4
  <2>5. CASE \E file \in {"none", "final"} : Return("error", file)
    BY <2>1, <2>2, <2>3, <2>5
  <2> QED BY <1>6, <2>4, <2>5 DEF Commit
<1>7. CASE Interrupt
  BY <1>7 DEF Interrupt, join
<1>8. CASE UNCHANGED vars
  BY <1>8 DEF vars, command, progress, question, join, Findings
<1> QED BY <1>1, <1>2, <1>3, <1>4, <1>5, <1>6, <1>7, <1>8 DEF Next, Over

\* The entry in the joiner's hands when it adds a path.
LEMMA AddedEntry ==
    ASSUME CInv, Added
    PROVE  /\ live[fed].path \in J!Paths(live)
           /\ live[fed] = EntryAt(now, live[fed].path, Refused(mode, base))
<1>1. J!TypeOK /\ J!Frontier /\ J!Added
  BY SameJoin DEF CInv, J!JInv, J!Joined, Added, J!Added
<1>2. fed \in 1 .. Len(live)
  BY <1>1 DEF J!TypeOK, J!Frontier, J!Added
<1>3. IsStream(live, now, LiveExcluded(extra), Refused(mode, base))
  BY StreamIsStream DEF CInv, TheStreams
<1> QED BY <1>2, <1>3 DEF IsStream, J!Paths

\* A summary is taken of an added directory.
LEMMA SummariesKept == ASSUME CInv, [Next]_vars PROVE TheSummaries'
<1>1. UNCHANGED <<now, extra, live>>
  BY QuestionStays
<1>2. ASSUME UNCHANGED summaries PROVE TheSummaries'
  BY <1>1, <1>2 DEF CInv, TheSummaries, J!Paths
<1>3. CASE Added
  <2> DEFINE p == live[fed].path
             op == Join!OpForMissing(live[fed], TRUE)
             c == DirSummary(now, p, extra)
  <2>1. \/ summaries' = summaries
        \/ summaries' = summaries \cup {c} /\ op = "+D"
    BY <1>3 DEF Added, Summarized
  <2>2. p \in J!Paths(live) /\ live[fed] = EntryAt(now, p, Refused(mode, base))
    BY <1>3, AddedEntry
  <2>3. op = "+D" => now[p] \in Directory
    BY <2>2 DEF Join!OpForMissing, EntryAt
  <2>4. c.dir = p /\ c = DirSummary(now, c.dir, extra)
    BY DEF DirSummary
  <2> HIDE DEF p, c, op
  <2>5. CASE summaries' = summaries \cup {c} /\ op = "+D"
    BY <1>1, <2>2, <2>3, <2>4, <2>5 DEF CInv, TheSummaries, J!Paths
  <2> QED BY <1>2, <2>1, <2>5
<1> QED BY <1>2, <1>3 DEF Next, Refuse, OpenReport, PrepareFails, StartJoin, Feed, JoinStep,
           WalkCut, JoinFailed, WalkEnds, FinishEnds, CloseReport, Commit, Interrupt, Over,
           Return, vars, command

\* The callback counts the noise each time it is called, and at no other time.
LEMMA CountedWhenCalled ==
    ASSUME [Next]_vars
    PROVE  (UNCHANGED <<changes, expected>>) \/ Noted
<1> USE DEF Return, command, join
<1>1. CASE Refuse \/ PrepareFails \/ JoinFailed \/ CloseReport \/ Commit \/ OpenReport \/ Interrupt
  BY <1>1 DEF Refuse, PrepareFails, JoinFailed, CloseReport, Commit, OpenReport, Interrupt
<1>2. CASE StartJoin
  BY <1>2 DEF StartJoin, Join!New
<1>3. CASE Feed
  BY <1>3 DEF Feed, Join!Feed
<1>4. CASE JoinStep \/ Added
  BY <1>4 DEF JoinStep, Added
<1>5. CASE WalkCut
  BY <1>5 DEF WalkCut, Join!Cut
<1>6. CASE WalkEnds
  BY <1>6 DEF WalkEnds
<1>7. CASE FinishEnds
  BY <1>7 DEF FinishEnds, Join!Finished
<1>8. CASE UNCHANGED vars
  BY <1>8 DEF vars
<1> QED BY <1>1, <1>2, <1>3, <1>4, <1>5, <1>6, <1>7, <1>8 DEF Next, Over

LEMMA NoiseCountedKept == ASSUME CInv, [Next]_vars, J!JInv' PROVE NoiseCounted'
<1> DEFINE n == Len(changes)
           C == [op: J!Op \ {"="}, path: Path]
<1>1. changes \in Seq(C) /\ changes' \in Seq(C) /\ n \in Nat
  BY DEF CInv, J!JInv, J!Joined, J!TypeOK
<1>2. ASSUME UNCHANGED <<changes, expected>> PROVE NoiseCounted'
  BY <1>2 DEF CInv, NoiseCounted, NoisePlaces
<1>3. ASSUME Noted, UNCHANGED changes PROVE NoiseCounted'
  BY <1>2, <1>3 DEF Noted
<1>4. ASSUME Noted, NEW c, changes' = Append(changes, c) PROVE NoiseCounted'
  <2>1. /\ Len(changes') = n + 1 /\ changes'[n + 1] = c /\ changes' # changes
        /\ \A i \in 1 .. n : changes'[i] = changes[i]
    <3> HIDE DEF C
    <3> QED BY <1>1, <1>4
  <2>2. Last(changes') = c
    BY <2>1 DEF Last
  <2>3. IsFiniteSet(NoisePlaces) /\ Cardinality(NoisePlaces) \in Nat /\ n + 1 \notin NoisePlaces
    <3>1. NoisePlaces \subseteq 1 .. n /\ n + 1 \notin NoisePlaces
      BY <1>1 DEF NoisePlaces
    <3>2. IsFiniteSet(1 .. n)
      <4>1. n \in Nat
        BY <1>1
      <4> HIDE DEF n
      <4> QED BY ONLY <4>1, FS_Interval
    <3> QED BY <3>1, <3>2, FS_Subset, FS_CardinalityType
  <2>4. NoisePlaces' = {i \in 1 .. n + 1 : changes'[i].path \in Volatile}
    BY <2>1 DEF NoisePlaces
  <2>5. 1 .. n + 1 = (1 .. n) \cup {n + 1}
    BY <1>1
  <2>6. expected = Cardinality(NoisePlaces)
    BY DEF CInv, NoiseCounted
  <2>7. CASE c.path \in Volatile
    <3>1. NoisePlaces' = NoisePlaces \cup {n + 1}
      BY <2>1, <2>4, <2>5, <2>7 DEF NoisePlaces
    <3>2. expected' = expected + 1
      BY <1>4, <2>1, <2>2, <2>7 DEF Noted
    <3>3. Cardinality(NoisePlaces \cup {n + 1}) = Cardinality(NoisePlaces) + 1
      BY <2>3, FS_AddElement
    <3> QED BY <2>6, <3>1, <3>2, <3>3 DEF NoiseCounted
  <2>8. CASE c.path \notin Volatile
    <3>1. NoisePlaces' = NoisePlaces
      BY <2>1, <2>4, <2>5, <2>8 DEF NoisePlaces
    <3>2. expected' = expected
      BY <1>4, <2>1, <2>2, <2>8 DEF Noted
    <3> QED BY <2>6, <3>1, <3>2 DEF NoiseCounted
  <2> QED BY <2>7, <2>8
<1>5. UNCHANGED changes \/ \E c : changes' = Append(changes, c)
  <2>1. (UNCHANGED <<changes, counts>>) \/ \E op, p : J!Report(op, p)
    BY JoinMoves, JoinAssumptions, J!ReportsOrNot
  <2>2. ASSUME NEW op, NEW p, J!Report(op, p)
        PROVE  UNCHANGED changes \/ changes' = Append(changes, [op |-> op, path |-> p])
    BY <2>2 DEF J!Report
  <2> QED BY <2>1, <2>2
<1> QED BY <1>2, <1>3, <1>4, <1>5, CountedWhenCalled

LEMMA InitCInv == ASSUME Init PROVE CInv
<1>1. J!JInv
  BY SameJoin, JoinAssumptions, J!InitJInv DEF Init
<1>2. TheStreams /\ CommandTyped /\ Outcome /\ TheSummaries
  BY DEF Init, TheStreams, CommandTyped, Outcome, TheSummaries
<1>3. NoiseCounted
  <2>1. changes = <<>> /\ expected = 0
    BY DEF Init, Join!Init
  <2>2. NoisePlaces = {}
    BY <2>1 DEF NoisePlaces
  <2> QED BY <2>1, <2>2, FS_EmptySet DEF NoiseCounted
<1> QED BY <1>1, <1>2, <1>3 DEF CInv

\* The inductive invariant of the command (runCompare): the join's own, the two streams it
\* joins, what each way out leaves, and where the summaries come from.
THEOREM CInvInvariant == Spec => []CInv
<1>1. Init => CInv
  BY InitCInv
<1>2. CInv /\ [Next]_vars => CInv'
  BY JoinKeeps, StreamsKept, CommandKept, OutcomeKept, SummariesKept, NoiseCountedKept DEF CInv
<1> QED BY <1>1, <1>2, PTL DEF Spec

-----------------------------------------------------------------------------
(* What the invariant gives.                                               *)

\* Type correctness: the command has an exit code from the moment it returns and not
\* before, and a summary is of a directory (runCompare).
THEOREM CompareTypeOK == Spec => []TypeOK
<1>1. ASSUME CInv PROVE TypeOK
  <2>1. Join!TypeOK /\ CommandTyped
    BY <1>1, SameJoin DEF CInv, J!JInv, J!Joined
  <2>2. summaries \subseteq [dir: Path, dirs: SUBSET Path, files: SUBSET Path]
    <3>1. J!Paths(live) \subseteq Path
      <4>1. J!Paths(live) = Scanned(now, LiveExcluded(extra), Refused(mode, base))
        BY <1>1, StreamIsStream DEF CInv, TheStreams, IsStream
      <4> QED BY <4>1 DEF Scanned
    <3>2. \A d \in Path : DirSummary(now, d, extra) \in [dir: Path, dirs: SUBSET Path, files: SUBSET Path]
      BY DEF DirSummary, WalkedBelow
    <3>3. \A s \in summaries : s.dir \in Path /\ s = DirSummary(now, s.dir, extra)
      BY <1>1, <3>1 DEF CInv, TheSummaries
    <3> QED BY <3>2, <3>3
  <2>3. expected \in Nat
    <3>1. Len(changes) \in Nat
      BY <1>1 DEF CInv, J!JInv, J!Joined, J!TypeOK
    <3>2. \A n \in Nat : IsFiniteSet(1 .. n)
      BY FS_Interval
    <3>3. IsFiniteSet(NoisePlaces)
      BY <3>1, <3>2, FS_Subset DEF NoisePlaces
    <3> QED BY <1>1, <3>3, FS_CardinalityType DEF CInv, NoiseCounted
  <2> QED BY <2>1, <2>2, <2>3 DEF CommandTyped, TypeOK
<1> QED BY <1>1, CInvInvariant, PTL

\* What was reported once the join has ended.
LEMMA DoneIsWhole ==
    ASSUME CInv, status = "done"
    PROVE  /\ Reported = Join!Visible
           /\ fed = Len(live) /\ corrupt = 0
           /\ Len(changes) \in Nat
<1>1. J!JInv /\ J!TypeOK /\ J!Frontier /\ J!Reported = J!Visible \cap J!Settled
  BY DEF CInv, J!JInv, J!Joined
<1>2. J!Settled = J!AllPaths
  BY <1>1, JoinAssumptions, J!DoneSettlesAll
<1>3. J!Visible \subseteq J!AllPaths
  BY DEF J!Visible, J!Different, J!AllPaths
<1>4. Reported = Join!Visible
  BY <1>1, <1>2, <1>3, SameJoin DEF Reported, J!Reported
<1>5. fed = Len(live)
  BY <1>1 DEF J!Frontier
<1>6. corrupt = 0
  BY <1>1 DEF J!Frontier, J!Exhausted, J!TypeOK
<1>7. Len(changes) \in Nat
  BY <1>1 DEF J!TypeOK
<1> QED BY <1>4, <1>5, <1>6, <1>7

\* A report under its final name is the whole of one, a run that has ended leaves no
\* partial report, and an interrupted one leaves none (runCompare, reportDest).
THEOREM CompareReportIsWhole == Spec => []ReportIsWhole
<1>1. CInv => ReportIsWhole
  BY DoneIsWhole DEF CInv, Outcome, ReportIsWhole
<1> QED BY <1>1, CInvInvariant, PTL

\* A directory is above a path by more levels than what is between them.
LEMMA DepthGrows ==
    ASSUME NEW p \in Path, NEW c \in Above[p]
    PROVE  Depth(c) \in Nat /\ Depth(p) \in Nat /\ Depth(c) < Depth(p)
<1>1. /\ Above[p] \subseteq Path /\ c \in Path /\ Above[c] \subseteq Above[p]
      /\ c \notin Above[c]
  BY TreeAssumption
<1>2. IsFiniteSet(Above[p]) /\ IsFiniteSet(Above[c])
  BY <1>1, TreeAssumption, FS_Subset
<1>3. Cardinality(Above[c] \cup {c}) = Cardinality(Above[c]) + 1
  BY <1>1, <1>2, FS_AddElement
<1>4. Cardinality(Above[c] \cup {c}) <= Cardinality(Above[p])
  <2>1. Above[c] \cup {c} \subseteq Above[p]
    BY <1>1
  <2> QED BY <1>2, <2>1, FS_Subset
<1>5. Cardinality(Above[c]) \in Nat /\ Cardinality(Above[p]) \in Nat
  BY <1>2, FS_CardinalityType
<1> QED BY <1>3, <1>4, <1>5 DEF Depth

\* A directory that a walk of the whole tree lists is listed by one that starts above it.
LEMMA WalkedFromBelow ==
    ASSUME NEW f \in Systems, NEW x, NEW p \in Scanned(f, LiveExcluded(x), {}), NEW d \in Above[p]
    PROVE  p \in WalkedBelow(f, d, x)
<1>1. /\ p \in Path /\ There(f, p) /\ p \notin LiveExcluded(x)
      /\ \A c \in Above[p] : MayDescend(f, c, {})
  BY DEF Scanned
<1>2. ASSUME NEW c \in Above[p], d \in Above[c]
      PROVE  f[c] \in {"dir", "locked"} /\ Depth(c) - Depth(d) < MaxDepth
  <2>1. c \in Path /\ c # Root
    BY <1>1, <1>2, TreeAssumption
  <2>2. f[c] \in {"dir", "locked"} /\ Depth(c) < MaxDepth
    BY <1>1, <2>1 DEF MayDescend
  <2>3. Depth(c) \in Nat /\ Depth(d) \in Nat /\ MaxDepth \in Nat
    BY <1>2, <2>1, DepthGrows, PerimeterAssumption
  <2> QED BY <2>2, <2>3
<1> QED BY <1>1, <1>2 DEF WalkedBelow

\* A walk that starts at a directory the whole walk came to leaves the perimeter only
\* through that directory, when it is a mount point, or below the depth limit.
LEMMA WalkedOutside ==
    ASSUME NEW f \in Systems, NEW x, NEW r, NEW d \in Scanned(f, LiveExcluded(x), r),
           f[d] \in Directory, NEW p \in WalkedBelow(f, d, x),
           p \notin Scanned(f, LiveExcluded(x), {})
    PROVE  f[d] = "share" \/ Depth(p) > MaxDepth
<1>1. /\ p \in Path /\ There(f, p) /\ p \notin LiveExcluded(x) /\ d \in Above[p]
      /\ \A c \in Above[p] : d \in Above[c] => f[c] \in {"dir", "locked"}
  BY DEF WalkedBelow
<1>2. PICK c \in Above[p] : ~ MayDescend(f, c, {})
  BY <1>1 DEF Scanned
<1>3. c \in Path /\ d \in Path /\ Path \subseteq Int
  BY <1>1, TreeAssumption
<1>4. c \notin Above[d]
  <2>1. \A b \in Above[d] : MayDescend(f, b, r)
    BY DEF Scanned
  <2> QED BY <1>2, <2>1 DEF MayDescend
<1>5. c = d \/ d \in Above[c]
  BY <1>1, <1>3, <1>4, TreeAssumption
<1>6. Depth(c) \in Nat /\ Depth(p) \in Nat /\ Depth(c) < Depth(p) /\ MaxDepth \in Nat
  BY <1>1, DepthGrows, PerimeterAssumption
<1>7. f[c] \in {"dir", "locked"} => Depth(p) > MaxDepth
  BY <1>2, <1>6 DEF MayDescend
<1> QED BY <1>1, <1>5, <1>7 DEF Directory

\* A summary counts each directory and each file the perimeter holds below its directory,
\* and nothing that is excluded, not there or of another type; what it counts outside the
\* perimeter is below a mount point or the depth limit (summarizeDir).
THEOREM CompareSummaryCountsAll == Spec => []SummaryCountsAll
<1>1. ASSUME CInv, NEW s \in summaries
      PROVE  LET inside  == {p \in Scanned(now, LiveExcluded(extra), {}) : s.dir \in Above[p]}
                 outside == (s.dirs \cup s.files) \ inside
             IN  /\ s.dirs \ outside = {p \in inside : now[p] \in Directory}
                 /\ s.files \ outside = {p \in inside : now[p] \in File}
                 /\ \A p \in outside :
                       /\ s.dir \in Above[p] /\ p \notin LiveExcluded(extra)
                       /\ now[p] \in IF p \in s.dirs THEN Directory ELSE File
                       /\ now[s.dir] = "share" \/ Depth(p) > MaxDepth
  <2> DEFINE d       == s.dir
             W       == WalkedBelow(now, d, extra)
             inside  == {p \in Scanned(now, LiveExcluded(extra), {}) : d \in Above[p]}
             outside == (s.dirs \cup s.files) \ inside
  <2>1. /\ s.dirs = {p \in W : now[p] \in Directory}
        /\ s.files = {p \in W : now[p] \in File}
    BY <1>1 DEF CInv, TheSummaries, DirSummary, CountsAsFile
  <2>2. /\ d \in Scanned(now, LiveExcluded(extra), Refused(mode, base))
        /\ now[d] \in Directory /\ now \in Systems
    <3>1. J!Paths(live) = Scanned(now, LiveExcluded(extra), Refused(mode, base))
      BY <1>1, StreamIsStream DEF CInv, TheStreams, IsStream
    <3> QED BY <1>1, <3>1 DEF CInv, TheSummaries, TheStreams
  <2>3. inside \subseteq W
    BY <2>2, WalkedFromBelow
  <2>4. \A p \in W : d \in Above[p] /\ p \notin LiveExcluded(extra)
    BY DEF WalkedBelow
  <2>5. \A p \in W \ inside : now[d] = "share" \/ Depth(p) > MaxDepth
    <3> SUFFICES ASSUME NEW p \in W, p \notin inside PROVE now[d] = "share" \/ Depth(p) > MaxDepth
      OBVIOUS
    <3>1. p \notin Scanned(now, LiveExcluded(extra), {})
      BY <2>4
    <3> QED BY <2>2, <3>1, WalkedOutside
  <2> HIDE DEF W, inside, d
  <2>6. s.dirs \ outside = {p \in inside : now[p] \in Directory}
    BY <2>1, <2>3
  <2>7. s.files \ outside = {p \in inside : now[p] \in File}
    BY <2>1, <2>3
  <2>8. \A p \in outside : /\ p \in W \ inside
                           /\ now[p] \in IF p \in s.dirs THEN Directory ELSE File
    BY <2>1
  <2> HIDE DEF outside
  <2>9. \A p \in outside : /\ d \in Above[p] /\ p \notin LiveExcluded(extra)
                           /\ now[d] = "share" \/ Depth(p) > MaxDepth
    BY <2>4, <2>5, <2>8
  <2> QED BY <2>6, <2>7, <2>8, <2>9 DEF d, inside, outside
<1>2. CInv => SummaryCountsAll
  BY <1>1 DEF SummaryCountsAll
<1> QED BY <1>2, CInvInvariant, PTL

-----------------------------------------------------------------------------
(* Which changes two walks of the perimeter can give.                      *)

\* What a reported change says of its path.
LEMMA ReportedChange ==
    ASSUME CInv, NEW i \in 1 .. Len(changes)
    PROVE  /\ changes[i].path \in J!Paths(base) \cup J!Paths(live)
           /\ changes[i].op = J!DiffOp(changes[i].path)
           /\ changes[i].op # "="
<1>1. J!ReportIsPrefix
  BY DEF CInv, J!JInv, J!Joined
<1>2. changes[i].path \in J!Visible /\ changes[i].op = J!DiffOp(changes[i].path)
  BY <1>1 DEF J!ReportIsPrefix
<1> QED BY <1>2 DEF J!Visible, J!Different

\* The streams the join is given.
LEMMA JoinedStreams ==
    ASSUME CInv
    PROVE  /\ IsStream(base, then, Excluded, {})
           /\ IsStream(live, now, LiveExcluded(extra), Refused(mode, base))
           /\ then \in Systems /\ now \in Systems
           /\ J!Paths(base) = Scanned(then, Excluded, {})
           /\ J!Paths(live) = Scanned(now, LiveExcluded(extra), Refused(mode, base))
BY StreamIsStream DEF CInv, TheStreams, Fingerprint, IsStream

\* The directories of the fingerprint are those it scanned.
LEMMA KnownAreScanned ==
    ASSUME CInv
    PROVE  /\ KnownDirs(base) \subseteq J!Paths(base)
           /\ \A d \in J!Paths(base) : then[d] \in Directory => d \in KnownDirs(base)
<1>1. IsStream(base, then, Excluded, {})
  BY JoinedStreams
<1>2. KnownDirs(base) \subseteq J!Paths(base)
  BY DEF KnownDirs, J!Paths
<1>3. ASSUME NEW d \in J!Paths(base), then[d] \in Directory PROVE d \in KnownDirs(base)
  <2>1. PICK i \in 1 .. Len(base) : base[i].path = d
    BY DEF J!Paths
  <2>2. base[i] = EntryAt(then, d, {})
    BY <1>1, <2>1 DEF IsStream
  <2>3. base[i].type = "dir"
    BY <1>3, <2>2 DEF EntryAt
  <2> QED BY <2>1, <2>3 DEF KnownDirs
<1> QED BY <1>2, <1>3

\* Unless --new-dir-mode is deep, no line of the report is below a +D: the contents of a
\* directory the fingerprint does not know are not listed (the Descend hook).
THEOREM CompareNewContentsUnlisted == Spec => []NewContentsUnlisted
<1>1. ASSUME CInv, mode # "deep",
             NEW i \in 1 .. Len(changes), NEW j \in 1 .. Len(changes),
             changes[i].op = "+D", changes[i].path \in Above[changes[j].path]
      PROVE  FALSE
  <2> DEFINE d == changes[i].path
             q == changes[j].path
  <2>1. /\ J!Paths(base) = Scanned(then, Excluded, {})
        /\ J!Paths(live) = Scanned(now, LiveExcluded(extra), Refused(mode, base))
        /\ then \in Systems
    BY <1>1, JoinedStreams
  <2>2. /\ "+D" = J!DiffOp(d) /\ d \in J!Paths(base) \cup J!Paths(live)
        /\ q \in J!Paths(base) \cup J!Paths(live)
    BY <1>1, ReportedChange
  <2>3. d \notin J!Paths(base)
    BY <2>2 DEF J!DiffOp, J!Classify, J!OpForMissing
  <2>4. Closed(Excluded) /\ Excluded \in SUBSET Path /\ Root \notin Excluded
    BY ExclusionsAreClosed
  <2>5. CASE q \in J!Paths(base)
    <3>1. q \in Scanned(then, Excluded, {}) /\ d \in Above[q]
      BY <1>1, <2>1, <2>5
    <3> HIDE DEF d, q
    <3>2. d \in Scanned(then, Excluded, {})
      BY <2>1, <2>4, <3>1, ScannedIsClosed
    <3> QED BY <2>1, <2>3, <3>2
  <2>6. CASE q \in J!Paths(live)
    <3>1. q \in Path /\ MayDescend(now, d, Refused(mode, base))
      BY <1>1, <2>1, <2>6 DEF Scanned
    <3>2. d \in Path
      BY <1>1, <3>1, TreeAssumption
    <3>3. d # Root
      BY <2>1, <2>3, <2>4, RootIsScanned
    <3>4. d \in KnownDirs(base)
      BY <1>1, <3>1, <3>2, <3>3 DEF MayDescend, Refused
    <3> QED BY <1>1, <2>3, <3>4, KnownAreScanned
  <2> QED BY <2>2, <2>5, <2>6
<1>2. CInv => NewContentsUnlisted
  BY <1>1 DEF NewContentsUnlisted
<1> QED BY <1>2, CInvInvariant, PTL

\* Two readable entries of one path in one tree are the same.
LEMMA SameTreeSameEntry ==
    ASSUME NEW f, NEW p, NEW r, NEW t
    PROVE  J!Classify(EntryAt(f, p, r), EntryAt(f, p, t)) \in {"=", "?E"}
<1>1. /\ EntryAt(f, p, r).type = EntryAt(f, p, t).type
      /\ EntryAt(f, p, r).hash = EntryAt(f, p, t).hash
      /\ EntryAt(f, p, r).link = EntryAt(f, p, t).link
      /\ EntryAt(f, p, r).size = EntryAt(f, p, t).size
      /\ EntryAt(f, p, r).mtime = EntryAt(f, p, t).mtime
      /\ EntryAt(f, p, r).attrs = EntryAt(f, p, t).attrs
  BY DEF EntryAt
<1> QED BY <1>1 DEF J!Classify, J!ContentChanged, J!MaybeChanged, J!UnhashedDiffer

\* In one tree, the second walk scans what the first did, but for what --exclude or -o
\* took away: it enters the same directories, because the first knew them.
LEMMA SameTreeSamePaths ==
    ASSUME CInv, now = then
    PROVE  /\ J!Paths(live) \subseteq J!Paths(base)
           /\ J!Paths(base) \subseteq J!Paths(live) \cup extra
<1> DEFINE x == LiveExcluded(extra)
           r == Refused(mode, base)
<1>1. /\ J!Paths(base) = Scanned(now, Excluded, {})
      /\ J!Paths(live) = Scanned(now, x, r)
      /\ now \in Systems
  BY JoinedStreams
<1>2. x = Excluded \cup extra
  BY DEF LiveExcluded
<1>3. \A d : MayDescend(now, d, r) => MayDescend(now, d, {})
  BY DEF MayDescend
<1>4. Scanned(now, x, r) \subseteq Scanned(now, Excluded, {})
  BY <1>2, <1>3 DEF Scanned
<1>5. ASSUME NEW p \in Scanned(now, Excluded, {}), p \notin extra PROVE p \in Scanned(now, x, r)
  <2>1. p \in Path /\ There(now, p) /\ p \notin x /\ \A d \in Above[p] : MayDescend(now, d, {})
    BY <1>2, <1>5 DEF Scanned
  <2>2. ASSUME NEW d \in Above[p] PROVE MayDescend(now, d, r)
    <3>1. Closed(Excluded) /\ Excluded \in SUBSET Path
      BY ExclusionsAreClosed
    <3>2. d \in Scanned(now, Excluded, {}) /\ now[d] \in Directory
      BY <1>1, <1>5, <2>2, <3>1, ScannedIsClosed
    <3>3. d \in KnownDirs(base)
      BY <1>1, <3>2, KnownAreScanned
    <3>4. d \notin r
      BY <3>3 DEF Refused
    <3> QED BY <2>1, <2>2, <3>4 DEF MayDescend
  <2> QED BY <2>1, <2>2 DEF Scanned
<1> QED BY <1>1, <1>4, <1>5

\* A tree that has not changed gives no line but those of what cannot be read, and what
\* --exclude or -o took away (runCompare, "exactly the perimeter the fingerprint recorded").
THEOREM CompareUnchangedIsQuiet == Spec => []UnchangedIsQuiet
<1>1. ASSUME CInv, now = then, NEW i \in 1 .. Len(changes)
      PROVE  \/ changes[i].op = "?E"
             \/ changes[i].op \in {"-D", "-F"} /\ changes[i].path \in extra
  <2> DEFINE p == changes[i].path
             op == changes[i].op
  <2>1. p \in J!Paths(base) \cup J!Paths(live) /\ op = J!DiffOp(p) /\ op # "="
    BY <1>1, ReportedChange
  <2>2. p \in J!Paths(base) /\ (p \in J!Paths(live) \/ p \in extra)
    BY <1>1, <2>1, SameTreeSamePaths
  <2> HIDE DEF p, op
  <2>3. CASE p \in J!Paths(live)
    <3>1. /\ J!EntryAt(base, p) = EntryAt(now, p, {})
          /\ J!EntryAt(live, p) = EntryAt(now, p, Refused(mode, base))
      BY <1>1, <2>2, <2>3, JoinedStreams, StreamEntry
    <3>2. op = J!Classify(EntryAt(now, p, {}), EntryAt(now, p, Refused(mode, base)))
      BY <2>1, <2>2, <2>3, <3>1 DEF J!DiffOp
    <3> QED BY <2>1, <3>2, SameTreeSameEntry DEF op
  <2>4. CASE p \notin J!Paths(live)
    <3>1. op \in {"-D", "-F"}
      BY <2>1, <2>4 DEF J!DiffOp, J!OpForMissing
    <3> QED BY <2>2, <2>4, <3>1 DEF op, p
  <2> QED BY <2>3, <2>4
<1>2. CInv => UnchangedIsQuiet
  BY <1>1 DEF UnchangedIsQuiet
<1> QED BY <1>2, CInvInvariant, PTL

-----------------------------------------------------------------------------
(* Induction on numbers.                                                   *)

\* A set of numbers has a least element.
LEMMA LeastNumber ==
    ASSUME NEW S \in SUBSET Nat, S # {}
    PROVE  \E m \in S : \A n \in S : m <= n
<1>1. PICK m \in S : \A n \in S : ~ (<<n, m>> \in OpToRel(<, Nat))
  BY NatLessThanWellFounded, WFMin
<1>2. \A n \in S : ~ (n < m)
  BY <1>1 DEF OpToRel
<1> QED BY <1>2

\* A set with 0, and with each number the next one, has all of them.
LEMMA EveryNumber ==
    ASSUME NEW S, 0 \in S, \A n \in Nat : n \in S => n + 1 \in S
    PROVE  \A n \in Nat : n \in S
<1> DEFINE Out == {n \in Nat : n \notin S}
<1>1. SUFFICES ASSUME Out # {} PROVE FALSE
  OBVIOUS
<1>2. PICK m \in Out : \A n \in Out : m <= n
  <2>1. Out \in SUBSET Nat
    OBVIOUS
  <2> HIDE DEF Out
  <2> QED BY <1>1, <2>1, LeastNumber
<1>3. m \in Nat /\ m \notin S /\ m # 0
  OBVIOUS
<1>4. m - 1 \in Nat /\ m - 1 \notin Out /\ (m - 1) + 1 = m
  <2> HIDE DEF Out
  <2> QED BY <1>2, <1>3
<1> QED BY <1>3, <1>4

-----------------------------------------------------------------------------
(* Sums.                                                                   *)

\* it[s] is the sum of f over s, one element taken after the other.
Gathers(it, f, S) ==
    it = [s \in SUBSET S |->
            IF s = {} THEN 0 ELSE LET x == CHOOSE x \in s : TRUE IN f[x] + it[s \ {x}]]

LEMMA SumIs == ASSUME NEW f, NEW S PROVE SumFunctionOnSet(f, S) = (CHOOSE it : Gathers(it, f, S))[S]
BY DEF SumFunctionOnSet, FoldFunctionOnSet, MapThenFoldSet, Gathers

\* A is a finite set for each element of S, and no two of them meet.
Parts(A, S) ==
    /\ \A x \in S : IsFiniteSet(A[x])
    /\ \A x, y \in S : x # y => A[x] \cap A[y] = {}

PartsOf(A, s) == UNION {A[x] : x \in s}

LEMMA PartsAreFinite ==
    ASSUME NEW s, IsFiniteSet(s), NEW A, Parts(A, s)
    PROVE  IsFiniteSet(PartsOf(A, s))
<1> DEFINE f == [x \in s |-> A[x]]
           T == {A[x] : x \in s}
<1>1. f \in Surjection(s, T)
  BY DEF Surjection
<1>2. \A t \in T : IsFiniteSet(t)
  BY DEF Parts
<1>3. PartsOf(A, s) = UNION T
  BY DEF PartsOf
<1> HIDE DEF f, T
<1>4. IsFiniteSet(T)
  BY <1>1, FS_Surjection
<1> QED BY <1>2, <1>3, <1>4, FS_UNION

LEMMA OnePart ==
    ASSUME NEW S, IsFiniteSet(S), NEW A, Parts(A, S), NEW s \in SUBSET S, NEW x \in s
    PROVE  /\ Cardinality(PartsOf(A, s)) = Cardinality(A[x]) + Cardinality(PartsOf(A, s \ {x}))
           /\ IsFiniteSet(PartsOf(A, s)) /\ Cardinality(A[x]) \in Nat
           /\ Cardinality(PartsOf(A, s \ {x})) \in Nat
<1> DEFINE r == s \ {x}
<1>1. IsFiniteSet(s) /\ IsFiniteSet(r)
  BY FS_Subset
<1>2. Parts(A, s) /\ Parts(A, r)
  BY DEF Parts
<1>3. IsFiniteSet(PartsOf(A, s)) /\ IsFiniteSet(PartsOf(A, r)) /\ IsFiniteSet(A[x])
  BY <1>1, <1>2, PartsAreFinite DEF Parts
<1>4. PartsOf(A, s) = A[x] \cup PartsOf(A, r) /\ A[x] \cap PartsOf(A, r) = {}
  BY DEF PartsOf, Parts
<1> HIDE DEF r
<1>5. Cardinality(A[x] \cap PartsOf(A, r)) = 0
  BY <1>4, FS_EmptySet
<1>6. Cardinality(A[x]) \in Nat /\ Cardinality(PartsOf(A, r)) \in Nat
  BY <1>3, FS_CardinalityType
<1>7. Cardinality(A[x] \cup PartsOf(A, r)) =
        Cardinality(A[x]) + Cardinality(PartsOf(A, r)) - Cardinality(A[x] \cap PartsOf(A, r))
  BY <1>3, FS_Union
<1>8. Cardinality(PartsOf(A, s)) = Cardinality(A[x]) + Cardinality(PartsOf(A, r))
  BY <1>4, <1>5, <1>6, <1>7
<1> QED BY <1>3, <1>6, <1>8 DEF r

\* The sizes of sets that do not meet add up to the size of their union.
LEMMA SumOfParts ==
    ASSUME NEW S, IsFiniteSet(S), NEW A, Parts(A, S), NEW f, \A x \in S : f[x] = Cardinality(A[x])
    PROVE  SumFunctionOnSet(f, S) = Cardinality(PartsOf(A, S))
<1> DEFINE Joint(s) == Cardinality(PartsOf(A, s))
           g == [s \in SUBSET S |-> Joint(s)]
           it == CHOOSE i : Gathers(i, f, S)
           K == {k \in Nat : \A s \in SUBSET S : Cardinality(s) = k => it[s] = Joint(s)}
<1>0. Joint({}) = 0
  <2>1. PartsOf(A, {}) = {}
    BY DEF PartsOf
  <2> QED BY <2>1, FS_EmptySet
<1>1. Gathers(g, f, S)
  <2>1. ASSUME NEW s \in SUBSET S
        PROVE Joint(s) = IF s = {} THEN 0 ELSE LET x == CHOOSE x \in s : TRUE IN f[x] + g[s \ {x}]
    <3>1. CASE s = {}
      BY <1>0, <3>1
    <3>2. CASE s # {}
      <4> DEFINE x == CHOOSE x \in s : TRUE
      <4>1. x \in s
        BY <3>2
      <4>2. f[x] = Cardinality(A[x]) /\ g[s \ {x}] = Joint(s \ {x})
        BY <4>1
      <4> HIDE DEF x, g
      <4>3. Joint(s) = f[x] + g[s \ {x}]
        BY <4>1, <4>2, OnePart
      <4> QED BY <3>2, <4>3 DEF x
    <3> QED BY <3>1, <3>2
  <2> HIDE DEF Joint
  <2> QED BY <2>1 DEF Gathers
<1>2. Gathers(it, f, S)
  <2> HIDE DEF g
  <2> QED BY <1>1
<1> HIDE DEF it
<1>3. 0 \in K
  <2>1. ASSUME NEW s \in SUBSET S, Cardinality(s) = 0 PROVE it[s] = Joint(s)
    <3>1. s = {}
      BY <2>1, FS_Subset, FS_EmptySet
    <3>2. it[s] = 0
      BY <1>2, <3>1 DEF Gathers
    <3> QED BY <1>0, <3>1, <3>2
  <2> QED BY <2>1
<1>4. ASSUME NEW k \in Nat, k \in K PROVE k + 1 \in K
  <2>1. ASSUME NEW s \in SUBSET S, Cardinality(s) = k + 1 PROVE it[s] = Joint(s)
    <3> DEFINE x == CHOOSE x \in s : TRUE
    <3>1. s # {} /\ IsFiniteSet(s)
      BY <2>1, FS_Subset, FS_EmptySet
    <3>2. x \in s
      BY <3>1
    <3>3. it[s] = f[x] + it[s \ {x}]
      BY <1>2, <3>1 DEF Gathers
    <3> HIDE DEF x
    <3>4. Cardinality(s \ {x}) = k
      <4>1. Cardinality(s \ {x}) = Cardinality(s) - 1
        BY <3>1, <3>2, FS_RemoveElement
      <4> HIDE DEF Joint, g, K
      <4> QED BY <2>1, <4>1
    <3>5. it[s \ {x}] = Joint(s \ {x})
      BY <1>4, <3>4
    <3>6. f[x] = Cardinality(A[x])
      BY <3>2
    <3> QED BY <3>2, <3>3, <3>5, <3>6, OnePart
  <2> QED BY <2>1
<1>5. Cardinality(S) \in Nat /\ Cardinality(S) \in K
  <2>1. Cardinality(S) \in Nat
    BY FS_CardinalityType
  <2> HIDE DEF K
  <2> QED BY <2>1, <1>3, <1>4, EveryNumber
<1> QED BY <1>5, SumIs DEF it

-----------------------------------------------------------------------------
(* Lists built one element at a time.                                      *)

\* f takes a step from each number to the next one.
Follows(f, n, T, v, step) ==
    /\ f \in [0 .. n -> T]
    /\ f[0] = v
    /\ \A k \in 1 .. n : f[k] = step[<<f[k - 1], k>>]

\* There is one, if no step leaves T.
LEMMA Recursion ==
    ASSUME NEW n \in Nat, NEW T, NEW v \in T, NEW step \in [T \X (1 .. n) -> T]
    PROVE  \E f : Follows(f, n, T, v, step)
<1> DEFINE Solves(f, m) == Follows(f, m, T, v, step)
           S == {m \in Nat : m <= n => \E f : Solves(f, m)}
<1>1. 0 \in S
  <2>1. Solves([k \in 0 .. 0 |-> v], 0)
    BY DEF Follows
  <2> QED BY <2>1
<1>2. ASSUME NEW l \in Nat, l \in S PROVE l + 1 \in S
  <2> DEFINE m == l + 1
  <2> SUFFICES ASSUME m <= n PROVE \E f : Solves(f, m)
    OBVIOUS
  <2>0. m \in 1 .. n /\ m - 1 = l
    OBVIOUS
  <2>1. PICK g : Solves(g, m - 1)
    BY <1>2, <2>0
  <2> HIDE DEF m
  <2> DEFINE h == [k \in 0 .. m |-> IF k = m THEN step[<<g[m - 1], m>>] ELSE g[k]]
  <2>2. g[m - 1] \in T /\ step[<<g[m - 1], m>>] \in T
    BY <2>0, <2>1 DEF Follows
  <2>3. h \in [0 .. m -> T] /\ h[0] = v
    BY <2>0, <2>1, <2>2 DEF Follows
  <2>4. ASSUME NEW k \in 1 .. m PROVE h[k] = step[<<h[k - 1], k>>]
    <3>1. CASE k = m
      <4>1. h[m] = step[<<g[m - 1], m>>] /\ h[m - 1] = g[m - 1]
        BY <2>0
      <4> HIDE DEF h
      <4> QED BY <3>1, <4>1
    <3>2. CASE k # m
      <4>1. k \in 1 .. m - 1 /\ h[k] = g[k] /\ h[k - 1] = g[k - 1]
        BY <2>0, <3>2
      <4> QED BY <2>1, <4>1 DEF Follows
    <3> QED BY <3>1, <3>2
  <2>5. Solves(h, m)
    BY <2>3, <2>4 DEF Follows
  <2> HIDE DEF Solves
  <2> QED BY <2>5
<1>3. n \in S
  <2> HIDE DEF S
  <2> QED BY <1>1, <1>2, EveryNumber
<1> QED BY <1>3

\* f[k] is the first k sequences of ss, one after the other.
Flattens(f, ss, T) ==
    /\ f \in [0 .. Len(ss) -> Seq(T)]
    /\ f[0] = <<>>
    /\ \A k \in 1 .. Len(ss) : f[k] = f[k - 1] \o ss[k]

LEMMA Flattened ==
    ASSUME NEW T, NEW ss \in Seq(Seq(T))
    PROVE  \E f : Flattens(f, ss, T) /\ FlattenSeq(ss) = f[Len(ss)]
<1> DEFINE n == Len(ss)
           Rec(g) == g = [i \in 1 .. n |-> IF i = 1 THEN ss[i] ELSE g[i - 1] \o ss[i]]
           step == [sk \in Seq(T) \X (1 .. n) |-> sk[1] \o ss[sk[2]]]
           g == CHOOSE g : Rec(g)
<1>1. n \in Nat /\ <<>> \in Seq(T) /\ \A k \in 1 .. n : ss[k] \in Seq(T)
  OBVIOUS
<1>2. step \in [Seq(T) \X (1 .. n) -> Seq(T)]
  BY <1>1
<1>3. PICK f : Follows(f, n, Seq(T), <<>>, step)
  <2> HIDE DEF n, step
  <2> QED BY <1>1, <1>2, Recursion
<1>4. Flattens(f, ss, T)
  <2>1. f \in [0 .. n -> Seq(T)] /\ f[0] = <<>> /\ \A k \in 1 .. n : f[k] = step[<<f[k - 1], k>>]
    BY <1>3 DEF Follows
  <2>2. ASSUME NEW k \in 1 .. n PROVE f[k] = f[k - 1] \o ss[k]
    <3>1. k - 1 \in 0 .. n /\ f[k - 1] \in Seq(T)
      <4>1. k - 1 \in 0 .. n
        BY <1>1
      <4> HIDE DEF n, step
      <4> QED BY <2>1, <4>1
    <3>2. step[<<f[k - 1], k>>] = f[k - 1] \o ss[k]
      BY <3>1
    <3> QED BY <2>1, <3>2
  <2> QED BY <2>1, <2>2 DEF Flattens
<1>5. CASE n = 0
  <2>1. ss = <<>> /\ FlattenSeq(ss) = ss
    BY <1>5 DEF FlattenSeq
  <2> QED BY <1>4, <1>5, <2>1 DEF Flattens
<1>6. CASE n # 0
  <2>1. FlattenSeq(ss) = g[n]
    BY <1>6 DEF FlattenSeq
  <2> DEFINE r == [i \in 1 .. n |-> f[i]]
  <2>2. Rec(r)
    <3>1. ASSUME NEW i \in 1 .. n PROVE f[i] = IF i = 1 THEN ss[i] ELSE r[i - 1] \o ss[i]
      <4>1. f[i] = f[i - 1] \o ss[i] /\ f[0] = <<>>
        BY <1>4 DEF Flattens
      <4>2. CASE i = 1
        <5>1. i - 1 = 0 /\ ss[i] \in Seq(T)
          BY <1>1, <4>2
        <5>2. <<>> \o ss[i] = ss[i]
          BY <5>1
        <5> QED BY <4>1, <4>2, <5>1, <5>2
      <4>3. CASE i # 1
        <5>1. i - 1 \in 1 .. n
          BY <1>1, <4>3
        <5> QED BY <4>1, <4>3, <5>1
      <4> QED BY <4>2, <4>3
    <3> QED BY <3>1
  <2> HIDE DEF r
  <2>3. Rec(g)
    BY <2>2
  <2> HIDE DEF g
  <2>4. ASSUME NEW k \in 1 .. n PROVE g[k] = IF k = 1 THEN ss[k] ELSE g[k - 1] \o ss[k]
    BY <2>3
  <2> DEFINE S == {k \in Nat : k \in 1 .. n => g[k] = f[k]}
  <2>5. 0 \in S
    OBVIOUS
  <2>6. ASSUME NEW k \in Nat, k \in S PROVE k + 1 \in S
    <3> SUFFICES ASSUME k + 1 \in 1 .. n PROVE g[k + 1] = f[k + 1]
      OBVIOUS
    <3>1. f[k + 1] = f[k] \o ss[k + 1] /\ f[0] = <<>> /\ ss[k + 1] \in Seq(T)
      <4>1. (k + 1) - 1 = k
        OBVIOUS
      <4> QED BY <1>1, <1>4, <4>1 DEF Flattens
    <3>2. CASE k = 0
      <4>1. k + 1 = 1 /\ ss[1] \in Seq(T) /\ 1 \in 1 .. n
        BY <3>1, <3>2
      <4>2. <<>> \o ss[1] = ss[1]
        BY <4>1
      <4>3. f[1] = ss[1]
        BY <3>1, <3>2, <4>1, <4>2
      <4>4. g[1] = ss[1]
        BY <2>4, <4>1
      <4> QED BY <4>1, <4>3, <4>4
    <3>3. CASE k # 0
      <4>1. k \in 1 .. n /\ (k + 1) - 1 = k /\ k + 1 # 1
        BY <3>3
      <4>2. g[k + 1] = g[k] \o ss[k + 1]
        BY <2>4, <4>1
      <4>3. g[k] = f[k]
        BY <2>6, <4>1
      <4> QED BY <3>1, <4>2, <4>3
    <3> QED BY <3>2, <3>3
  <2>7. n \in S
    <3> HIDE DEF S
    <3> QED BY <1>1, <2>5, <2>6, EveryNumber
  <2>8. g[n] = f[n]
    BY <1>1, <1>6, <2>7
  <2> QED BY <1>4, <2>1, <2>8
<1> QED BY <1>5, <1>6

-----------------------------------------------------------------------------
(* The sections of the text report.                                        *)

Noise  == "expected noise"
Titles == Reports!Ops \cup {Noise}
ChangeRecord == [op: Reports!Ops, path: Path]
Keeper == [sections: [Reports!Ops -> Seq(ChangeRecord)], volatile: Seq(ChangeRecord)]

\* The heading a change comes under, and the changes under a heading.
TitleOf(c, v)     == IF c.path \in v THEN Noise ELSE c.op
ListOf(t, title)  == IF title = Noise THEN t.volatile ELSE t.sections[title]
Under(cs, v, n, title) == {i \in 1 .. n : TitleOf(cs[i], v) = title}

LEMMA TitlesDiffer ==
    /\ Len(Reports!AllOps) = 10 /\ DOMAIN Reports!AllOps = 1 .. 10
    /\ \A k \in 1 .. 10 : Reports!AllOps[k] \in Reports!Ops /\ Reports!AllOps[k] # Noise
    /\ \A j, k \in 1 .. 10 : j # k => Reports!AllOps[j] # Reports!AllOps[k]
    /\ \A op \in Reports!Ops : op # Noise /\ \E k \in 1 .. 10 : Reports!AllOps[k] = op
<1>1. Len(Reports!AllOps) = 10 /\ DOMAIN Reports!AllOps = 1 .. 10
  BY DEF Reports!AllOps
<1>2. Reports!Ops = {Reports!AllOps[k] : k \in 1 .. 10}
  BY <1>1 DEF Reports!Ops, Reports!Range
<1>3. \A j, k \in 1 .. 10 : j # k => Reports!AllOps[j] # Reports!AllOps[k]
  BY DEF Reports!AllOps
<1>4. \A k \in 1 .. 10 : Reports!AllOps[k] # Noise
  <2>1. \A k \in 1 .. 10 : Reports!AllOps[k] \in
            {"+D", "-D", "~D", "+F", "-F", "~F", "%F", "!T", "~L", "?E"}
    BY DEF Reports!AllOps
  <2> QED BY <2>1 DEF Noise
<1> QED BY <1>1, <1>2, <1>3, <1>4

LEMMA OpsAreAll ==
    Reports!Ops = {"+D", "-D", "~D", "+F", "-F", "~F", "%F", "!T", "~L", "?E"}
<1>1. Reports!Ops = {Reports!AllOps[k] : k \in 1 .. 10}
  BY TitlesDiffer DEF Reports!Ops, Reports!Range
<1>2. /\ Reports!AllOps[1] = "+D" /\ Reports!AllOps[2] = "-D" /\ Reports!AllOps[3] = "~D"
      /\ Reports!AllOps[4] = "+F" /\ Reports!AllOps[5] = "-F" /\ Reports!AllOps[6] = "~F"
      /\ Reports!AllOps[7] = "%F" /\ Reports!AllOps[8] = "!T" /\ Reports!AllOps[9] = "~L"
      /\ Reports!AllOps[10] = "?E"
  BY DEF Reports!AllOps
<1>3. \A k \in 1 .. 10 : \/ k = 1 \/ k = 2 \/ k = 3 \/ k = 4 \/ k = 5
                         \/ k = 6 \/ k = 7 \/ k = 8 \/ k = 9 \/ k = 10
  OBVIOUS
<1> QED BY <1>1, <1>2, <1>3

\* Change puts a change under its heading and leaves the others alone.
LEMMA ChangeFiles ==
    ASSUME NEW t \in Keeper, NEW c \in ChangeRecord, NEW v
    PROVE  /\ Reports!Change(t, c, v) \in Keeper
           /\ \A title \in Titles :
                 ListOf(Reports!Change(t, c, v), title) =
                    IF TitleOf(c, v) = title THEN Append(ListOf(t, title), c) ELSE ListOf(t, title)
<1> DEFINE u == Reports!Change(t, c, v)
<1>1. c.op \in Reports!Ops /\ c.op # Noise
  BY TitlesDiffer DEF ChangeRecord
<1>2. CASE c.path \in v
  <2>1. u = [t EXCEPT !.volatile = Append(t.volatile, c)]
    BY <1>2 DEF Reports!Change
  <2>2. u \in Keeper /\ u.volatile = Append(t.volatile, c) /\ u.sections = t.sections
    BY <2>1 DEF Keeper
  <2> HIDE DEF u
  <2> QED BY <1>2, <2>2 DEF ListOf, TitleOf, u
<1>3. CASE c.path \notin v
  <2>1. u = [t EXCEPT !.sections[c.op] = Append(t.sections[c.op], c)]
    BY <1>3 DEF Reports!Change
  <2>2. /\ u.volatile = t.volatile
        /\ u.sections = [t.sections EXCEPT ![c.op] = Append(t.sections[c.op], c)]
    BY <2>1 DEF Keeper
  <2>3. u.sections \in [Reports!Ops -> Seq(ChangeRecord)]
    BY <1>1, <2>2 DEF Keeper
  <2>4. u \in Keeper
    BY <2>1, <2>3, <2>2 DEF Keeper
  <2>5. \A op \in Reports!Ops :
           u.sections[op] = IF c.op = op THEN Append(t.sections[op], c) ELSE t.sections[op]
    BY <1>1, <2>2 DEF Keeper
  <2> HIDE DEF u
  <2> QED BY <1>1, <1>3, <2>2, <2>4, <2>5 DEF ListOf, TitleOf, Titles, u
<1> QED BY <1>2, <1>3

\* Under each heading are its changes, each once.
LEMMA KeptFiled ==
    ASSUME NEW cs \in Seq(ChangeRecord), NEW v
    PROVE  LET t == Reports!Kept(cs, v)
           IN  /\ t \in Keeper
               /\ \A title \in Titles :
                     /\ ListOf(t, title) \in Seq(ChangeRecord)
                     /\ Len(ListOf(t, title)) = Cardinality(Under(cs, v, Len(cs), title))
                     /\ ToSet(ListOf(t, title)) = {cs[i] : i \in Under(cs, v, Len(cs), title)}
<1> DEFINE n == Len(cs)
           Rec(g) == g = [k \in 0 .. n |->
                            IF k = 0 THEN Reports!Empty ELSE Reports!Change(g[k - 1], cs[k], v)]
           step == [tk \in Keeper \X (1 .. n) |-> Reports!Change(tk[1], cs[tk[2]], v)]
           g == CHOOSE g : Rec(g)
<1>1. n \in Nat /\ \A k \in 1 .. n : cs[k] \in ChangeRecord
  OBVIOUS
<1>2. Reports!Empty \in Keeper /\ \A title \in Titles : ListOf(Reports!Empty, title) = <<>>
  BY DEF Reports!Empty, Keeper, ListOf, Titles
<1>3. \A t \in Keeper, k \in 1 .. n : Reports!Change(t, cs[k], v) \in Keeper
  BY <1>1, ChangeFiles
<1>4. step \in [Keeper \X (1 .. n) -> Keeper]
  BY <1>3
<1>5. PICK f : Follows(f, n, Keeper, Reports!Empty, step)
  <2> HIDE DEF n, step
  <2> QED BY <1>1, <1>2, <1>4, Recursion
<1>6. f \in [0 .. n -> Keeper] /\ f[0] = Reports!Empty
  BY <1>5 DEF Follows
<1>7. ASSUME NEW k \in 1 .. n PROVE f[k] = Reports!Change(f[k - 1], cs[k], v)
  <2>1. k - 1 \in 0 .. n
    BY <1>1
  <2> HIDE DEF n
  <2>2. f[k - 1] \in Keeper
    BY <1>6, <2>1
  <2>3. step[<<f[k - 1], k>>] = Reports!Change(f[k - 1], cs[k], v)
    BY <2>2
  <2> HIDE DEF step
  <2> QED BY <1>5, <2>3 DEF Follows
<1>8. Reports!Kept(cs, v) = g[n]
  BY DEF Reports!Kept
<1> HIDE DEF step
<1>9. Rec(f)
  <2>1. f = [k \in 0 .. n |-> f[k]]
    BY <1>6
  <2>2. \A k \in 0 .. n :
           f[k] = IF k = 0 THEN Reports!Empty ELSE Reports!Change(f[k - 1], cs[k], v)
    BY <1>1, <1>6, <1>7
  <2> HIDE DEF n
  <2> QED BY <2>1, <2>2
<1>10. Rec(g)
  BY <1>9
<1> HIDE DEF g
<1> DEFINE Good(k) ==
              /\ g[k] \in Keeper
              /\ \A title \in Titles :
                    /\ ListOf(g[k], title) \in Seq(ChangeRecord)
                    /\ Len(ListOf(g[k], title)) = Cardinality(Under(cs, v, k, title))
                    /\ ToSet(ListOf(g[k], title)) = {cs[i] : i \in Under(cs, v, k, title)}
           S == {k \in Nat : k <= n => Good(k)}
<1>11. 0 \in S
  <2>1. g[0] = Reports!Empty
    BY <1>1, <1>10
  <2>2. \A title : Under(cs, v, 0, title) = {}
    BY DEF Under
  <2>3. ToSet(<<>>) = {} /\ <<>> \in Seq(ChangeRecord) /\ Len(<<>>) = 0
    BY DEF ToSet
  <2>4. Good(0)
    BY <1>2, <2>1, <2>2, <2>3, FS_EmptySet
  <2> QED BY <2>4
<1>12. ASSUME NEW k \in Nat, k \in S PROVE k + 1 \in S
  <2> SUFFICES ASSUME k + 1 <= n PROVE Good(k + 1)
    OBVIOUS
  <2>1. Good(k) /\ k + 1 \in 1 .. n /\ (k + 1) - 1 = k /\ k + 1 \in 0 .. n /\ k + 1 # 0
    BY <1>1, <1>12
  <2> HIDE DEF n
  <2> DEFINE c == cs[k + 1]
  <2>2. c \in ChangeRecord
    BY <1>1, <2>1
  <2>3. g[k + 1] = Reports!Change(g[k], c, v)
    BY <1>10, <2>1
  <2>4. g[k + 1] \in Keeper
    BY <2>1, <2>2, <2>3, ChangeFiles
  <2>5. ASSUME NEW title \in Titles
        PROVE  /\ ListOf(g[k + 1], title) \in Seq(ChangeRecord)
               /\ Len(ListOf(g[k + 1], title)) = Cardinality(Under(cs, v, k + 1, title))
               /\ ToSet(ListOf(g[k + 1], title)) = {cs[i] : i \in Under(cs, v, k + 1, title)}
    <3> DEFINE l == ListOf(g[k], title)
               m == ListOf(g[k + 1], title)
               U == Under(cs, v, k, title)
               W == Under(cs, v, k + 1, title)
    <3>1. l \in Seq(ChangeRecord) /\ Len(l) = Cardinality(U) /\ ToSet(l) = {cs[i] : i \in U}
      BY <2>1
    <3>2. m = IF TitleOf(c, v) = title THEN Append(l, c) ELSE l
      <4>1. g[k] \in Keeper
        BY <2>1
      <4> HIDE DEF Good, c
      <4>2. ListOf(Reports!Change(g[k], c, v), title) =
              IF TitleOf(c, v) = title THEN Append(ListOf(g[k], title), c) ELSE ListOf(g[k], title)
        BY <2>2, <4>1, ChangeFiles
      <4> QED BY <2>3, <4>2
    <3>3. W = IF TitleOf(c, v) = title THEN U \cup {k + 1} ELSE U
      <4>1. 1 .. k + 1 = (1 .. k) \cup {k + 1}
        OBVIOUS
      <4> QED BY <4>1 DEF Under
    <3>4. IsFiniteSet(U) /\ k + 1 \notin U
      <4>1. U \subseteq 1 .. k /\ k + 1 \notin 1 .. k
        BY DEF Under
      <4>2. IsFiniteSet(1 .. k)
        BY FS_Interval
      <4> QED BY <4>1, <4>2, FS_Subset
    <3> HIDE DEF l, m, U, W
    <3>5. CASE TitleOf(c, v) = title
      <4>1. m = Append(l, c) /\ W = U \cup {k + 1}
        BY <3>2, <3>3, <3>5
      <4>2. Cardinality(W) = Cardinality(U) + 1
        BY <3>4, <4>1, FS_AddElement
      <4>3. m \in Seq(ChangeRecord) /\ Len(m) = Len(l) + 1
        BY <2>2, <3>1, <4>1
      <4>4. ToSet(m) = ToSet(l) \cup {c}
        <5>1. ToSet(m) = {m[i] : i \in 1 .. Len(l) + 1} /\ ToSet(l) = {l[i] : i \in 1 .. Len(l)}
          BY <3>1, <4>3 DEF ToSet
        <5>2. /\ \A i \in 1 .. Len(l) : m[i] = l[i]
              /\ m[Len(l) + 1] = c /\ Len(l) \in Nat
          BY <2>2, <3>1, <4>1
        <5> HIDE DEF c
        <5> QED BY <5>1, <5>2
      <4>5. {cs[i] : i \in W} = {cs[i] : i \in U} \cup {c}
        BY <4>1
      <4> QED BY <3>1, <4>2, <4>3, <4>4, <4>5 DEF m, W
    <3>6. CASE TitleOf(c, v) # title
      BY <3>1, <3>2, <3>3, <3>6 DEF m, W
    <3> QED BY <3>5, <3>6
  <2> QED BY <2>4, <2>5
<1>13. n \in S
  <2> HIDE DEF S
  <2> QED BY <1>1, <1>11, <1>12, EveryNumber
<1> QED BY <1>1, <1>8, <1>13

\* x has the sections of t under the headings in s, each once.
Heading == [title: Titles, count: Nat, lines: Seq(ChangeRecord)]
Heads(x, t, s) ==
    /\ x \in Seq(Heading)
    /\ \A k \in 1 .. Len(x) :
          /\ x[k].title \in s
          /\ x[k].lines = ListOf(t, x[k].title) /\ x[k].lines # <<>>
          /\ x[k].count = Len(x[k].lines)
    /\ \A j, k \in 1 .. Len(x) : j # k => x[j].title # x[k].title
    /\ \A title \in s : ListOf(t, title) # <<>> => \E k \in 1 .. Len(x) : x[k].title = title

\* One more section, or none where there is nothing in it.
LEMMA OneMoreSection ==
    ASSUME NEW t, NEW s \in SUBSET Titles, NEW x, Heads(x, t, s),
           NEW title \in Titles \ s, ListOf(t, title) \in Seq(ChangeRecord)
    PROVE  /\ Reports!Section(title, ListOf(t, title)) \in Seq(Heading)
           /\ Heads(x \o Reports!Section(title, ListOf(t, title)), t, s \cup {title})
<1> DEFINE l == ListOf(t, title)
           h == [title |-> title, count |-> Len(l), lines |-> l]
<1>1. x \in Seq(Heading)
  BY DEF Heads
<1>2. CASE l = <<>>
  <2>1. Reports!Section(title, l) = <<>>
    BY <1>2 DEF Reports!Section
  <2>2. x \o <<>> = x /\ <<>> \in Seq(Heading)
    BY <1>1
  <2>3. Heads(x, t, s \cup {title})
    BY <1>2 DEF Heads
  <2> HIDE DEF l
  <2> QED BY <2>1, <2>2, <2>3 DEF l
<1>3. CASE l # <<>>
  <2>1. Reports!Section(title, l) = <<h>>
    BY <1>3 DEF Reports!Section
  <2>2. h \in Heading /\ h.title = title /\ h.lines = l /\ h.count = Len(l)
    BY DEF Heading
  <2> HIDE DEF h
  <2>3. x \o <<h>> \in Seq(Heading) /\ <<h>> \in Seq(Heading)
    BY <1>1, <2>2
  <2> DEFINE y == x \o <<h>>
  <2>4. /\ Len(y) = Len(x) + 1 /\ Len(x) \in Nat
        /\ \A k \in 1 .. Len(x) : y[k] = x[k]
        /\ y[Len(x) + 1] = h
    BY <1>1, <2>2
  <2>5. \A k \in 1 .. Len(y) : k \in 1 .. Len(x) \/ k = Len(x) + 1
    BY <2>4
  <2> HIDE DEF y
  <2>6. ASSUME NEW k \in 1 .. Len(y)
        PROVE  /\ y[k].title \in s \cup {title}
               /\ y[k].lines = ListOf(t, y[k].title) /\ y[k].lines # <<>>
               /\ y[k].count = Len(y[k].lines)
    BY <1>3, <2>2, <2>4, <2>5 DEF Heads
  <2>7. ASSUME NEW j \in 1 .. Len(y), NEW k \in 1 .. Len(y), j # k PROVE y[j].title # y[k].title
    <3>1. \A i \in 1 .. Len(x) : x[i].title \in s
      BY DEF Heads
    <3>2. CASE j \in 1 .. Len(x) /\ k \in 1 .. Len(x)
      BY <2>4, <2>7, <3>2 DEF Heads
    <3>3. CASE j = Len(x) + 1 /\ k \in 1 .. Len(x)
      BY <2>2, <2>4, <3>1, <3>3
    <3>4. CASE k = Len(x) + 1 /\ j \in 1 .. Len(x)
      BY <2>2, <2>4, <3>1, <3>4
    <3> QED BY <2>5, <2>7, <3>2, <3>3, <3>4
  <2>8. ASSUME NEW u \in s \cup {title}, ListOf(t, u) # <<>>
        PROVE  \E k \in 1 .. Len(y) : y[k].title = u
    <3>1. CASE u = title
      <4>1. Len(x) + 1 \in 1 .. Len(y)
        BY <2>4
      <4> QED BY <2>2, <2>4, <3>1, <4>1
    <3>2. CASE u \in s
      <4>1. PICK k \in 1 .. Len(x) : x[k].title = u
        BY <2>8, <3>2 DEF Heads
      <4>2. k \in 1 .. Len(y) /\ y[k] = x[k]
        BY <2>4
      <4> QED BY <4>1, <4>2
    <3> QED BY <3>1, <3>2
  <2>9. Heads(y, t, s \cup {title})
    BY <2>3, <2>6, <2>7, <2>8 DEF Heads, y
  <2> QED BY <2>1, <2>3, <2>9 DEF y
<1> QED BY <1>2, <1>3

LEMMA SameFlatten == ASSUME NEW ss PROVE Reports!FlattenSeq(ss) = FlattenSeq(ss)
BY DEF Reports!FlattenSeq, FlattenSeq

\* The text report has a section for each heading that has changes.
LEMMA SectionsHead ==
    ASSUME NEW cs \in Seq(ChangeRecord), NEW v
    PROVE  Heads(Reports!Sections(cs, v), Reports!Kept(cs, v), Titles)
<1> DEFINE t == Reports!Kept(cs, v)
           sec(title) == Reports!Section(title, ListOf(t, title))
           ss == [k \in 1 .. 10 |-> sec(Reports!AllOps[k])]
           upto(k) == {Reports!AllOps[j] : j \in 1 .. k}
<1>1. t \in Keeper /\ \A title \in Titles : ListOf(t, title) \in Seq(ChangeRecord)
  BY KeptFiled
<1> HIDE DEF t
<1>2. Heads(<<>>, t, {})
  BY DEF Heads
<1>3. \A title \in Titles : sec(title) \in Seq(Heading)
  <2> SUFFICES ASSUME NEW title \in Titles PROVE sec(title) \in Seq(Heading)
    OBVIOUS
  <2>1. title \in Titles \ {} /\ {} \in SUBSET Titles /\ ListOf(t, title) \in Seq(ChangeRecord)
    BY <1>1
  <2> QED BY <1>2, <2>1, OneMoreSection
<1>4. \A k \in 1 .. 10 : Reports!AllOps[k] \in Titles
  BY TitlesDiffer DEF Titles
<1>5. ss \in Seq(Seq(Heading)) /\ Len(ss) = 10
  <2>1. ss \in [1 .. 10 -> Seq(Heading)]
    <3> HIDE DEF sec
    <3> QED BY <1>3, <1>4
  <2>2. ASSUME NEW n \in Nat, NEW g \in [1 .. n -> Seq(Heading)]
        PROVE  g \in Seq(Seq(Heading)) /\ Len(g) = n
    OBVIOUS
  <2> HIDE DEF ss
  <2> QED BY <2>1, <2>2
<1>6. PICK f : Flattens(f, ss, Heading) /\ FlattenSeq(ss) = f[10]
  <2> HIDE DEF ss
  <2> QED BY <1>5, Flattened
<1> DEFINE S == {k \in Nat : k <= 10 => Heads(f[k], t, upto(k))}
<1>7. 0 \in S
  <2>1. f[0] = <<>> /\ upto(0) = {}
    BY <1>6 DEF Flattens
  <2> HIDE DEF upto
  <2> QED BY <1>2, <2>1
<1>8. ASSUME NEW k \in Nat, k \in S PROVE k + 1 \in S
  <2> SUFFICES ASSUME k + 1 <= 10 PROVE Heads(f[k + 1], t, upto(k + 1))
    OBVIOUS
  <2> DEFINE title == Reports!AllOps[k + 1]
  <2>1. Heads(f[k], t, upto(k)) /\ k + 1 \in 1 .. 10 /\ (k + 1) - 1 = k
    BY <1>8
  <2>2. title \in Titles /\ upto(k) \subseteq Titles /\ title \notin upto(k)
    <3>1. \A j \in 1 .. k : j \in 1 .. 10 /\ j # k + 1
      BY <2>1
    <3> QED BY <1>4, <2>1, <3>1, TitlesDiffer
  <2>3. f[k + 1] = f[k] \o sec(title)
    <3>1. ss[k + 1] = sec(title)
      BY <2>1
    <3> HIDE DEF ss, sec
    <3> QED BY <1>5, <1>6, <2>1, <3>1 DEF Flattens
  <2>4. upto(k + 1) = upto(k) \cup {title}
    <3>1. 1 .. k + 1 = (1 .. k) \cup {k + 1}
      OBVIOUS
    <3> QED BY <3>1
  <2> HIDE DEF upto, title
  <2>5. Heads(f[k] \o sec(title), t, upto(k) \cup {title})
    BY <1>1, <2>1, <2>2, OneMoreSection
  <2> QED BY <2>3, <2>4, <2>5
<1>9. Heads(f[10], t, upto(10))
  <2> HIDE DEF S
  <2>1. \A k \in Nat : k \in S
    BY <1>7, <1>8, EveryNumber
  <2>2. 10 \in S
    BY <2>1
  <2> HIDE DEF upto
  <2> QED BY <2>2 DEF S
<1>10. upto(10) = Reports!Ops /\ Noise \notin Reports!Ops
  BY TitlesDiffer
<1>11. Reports!Sections(cs, v) = FlattenSeq(ss) \o sec(Noise)
  <2>1. \A k \in 1 .. 10 : sec(Reports!AllOps[k]) =
                              Reports!Section(Reports!AllOps[k], t.sections[Reports!AllOps[k]])
    BY TitlesDiffer DEF ListOf
  <2>2. sec(Noise) = Reports!Section("expected noise", t.volatile)
    BY DEF ListOf, Noise
  <2>3. ss = [k \in 1 .. Len(Reports!AllOps) |->
                 Reports!Section(Reports!AllOps[k], t.sections[Reports!AllOps[k]])]
    BY <2>1, TitlesDiffer
  <2> HIDE DEF ss, sec
  <2> QED BY <2>2, <2>3, SameFlatten DEF Reports!Sections, t
<1>12. Heads(f[10] \o sec(Noise), t, Reports!Ops \cup {Noise})
  <2> HIDE DEF upto
  <2> QED BY <1>1, <1>9, <1>10, OneMoreSection DEF Titles
<1> HIDE DEF ss, sec
<1> QED BY <1>6, <1>11, <1>12 DEF Titles, t

LEMMA Concatenated ==
    ASSUME NEW T, NEW a \in Seq(T), NEW b \in Seq(T)
    PROVE  Len(a \o b) = Len(a) + Len(b) /\ ToSet(a \o b) = ToSet(a) \cup ToSet(b)
<1> DEFINE c == a \o b
<1>1. /\ Len(a) \in Nat /\ Len(b) \in Nat /\ Len(c) = Len(a) + Len(b)
      /\ DOMAIN a = 1 .. Len(a) /\ DOMAIN b = 1 .. Len(b) /\ DOMAIN c = 1 .. Len(a) + Len(b)
  OBVIOUS
<1>2. /\ \A i \in 1 .. Len(a) : c[i] = a[i] /\ i \in DOMAIN c
      /\ \A i \in 1 .. Len(b) : c[Len(a) + i] = b[i] /\ Len(a) + i \in DOMAIN c
      /\ \A i \in DOMAIN c :
            \/ i \in 1 .. Len(a)
            \/ i - Len(a) \in 1 .. Len(b) /\ c[i] = b[i - Len(a)]
  OBVIOUS
<1> HIDE DEF c
<1>3. ToSet(c) \subseteq ToSet(a) \cup ToSet(b)
  BY <1>1, <1>2 DEF ToSet
<1>4. ToSet(a) \subseteq ToSet(c)
  BY <1>1, <1>2 DEF ToSet
<1>5. ToSet(b) \subseteq ToSet(c)
  <2>1. \A i \in 1 .. Len(b) : b[i] \in ToSet(c)
    BY <1>2 DEF ToSet
  <2> QED BY <1>1, <2>1 DEF ToSet
<1> QED BY <1>1, <1>3, <1>4, <1>5 DEF c

\* The lines of the sections are the changes, and their headings count them.
LEMMA LinesAreChanges ==
    ASSUME NEW cs \in Seq(ChangeRecord), NEW v, NEW x, x = Reports!Sections(cs, v)
    PROVE  LET printed == FlattenSeq([k \in 1 .. Len(x) |-> x[k].lines])
           IN  /\ ToSet(printed) = ToSet(cs) /\ Len(printed) = Len(cs)
               /\ SumFunction([k \in 1 .. Len(x) |-> x[k].count]) = Len(cs)
<1> DEFINE n == Len(cs)
           m == Len(x)
           t == Reports!Kept(cs, v)
           U(title) == Under(cs, v, n, title)
           A == [k \in 1 .. m |-> U(x[k].title)]
           lines == [k \in 1 .. m |-> x[k].lines]
           sizes == [k \in 1 .. m |-> x[k].count]
<1>1. Heads(x, t, Titles)
  BY SectionsHead
<1>2. /\ n \in Nat /\ m \in Nat /\ x \in Seq(Heading)
      /\ \A i \in 1 .. n : cs[i] \in ChangeRecord
  BY <1>1 DEF Heads
<1>3. \A title \in Titles : /\ ListOf(t, title) \in Seq(ChangeRecord)
                            /\ Len(ListOf(t, title)) = Cardinality(U(title))
                            /\ ToSet(ListOf(t, title)) = {cs[i] : i \in U(title)}
  BY KeptFiled
<1> HIDE DEF t
<1>4. \A title : U(title) \subseteq 1 .. n /\ IsFiniteSet(U(title))
  <2>1. IsFiniteSet(1 .. n)
    BY <1>2, FS_Interval
  <2>2. \A title : U(title) \subseteq 1 .. n
    BY DEF Under
  <2> QED BY <2>1, <2>2, FS_Subset
<1>5. ASSUME NEW k \in 1 .. m
      PROVE  /\ x[k].title \in Titles
             /\ lines[k] \in Seq(ChangeRecord) /\ Len(lines[k]) = Cardinality(A[k])
             /\ ToSet(lines[k]) = {cs[i] : i \in A[k]}
             /\ sizes[k] = Cardinality(A[k])
  <2>1. /\ x[k].title \in Titles /\ x[k].lines = ListOf(t, x[k].title)
        /\ x[k].count = Len(x[k].lines)
    BY <1>1 DEF Heads
  <2>2. A[k] = U(x[k].title) /\ lines[k] = x[k].lines /\ sizes[k] = x[k].count
    OBVIOUS
  <2> HIDE DEF A, lines, sizes, U
  <2> QED BY <1>3, <2>1, <2>2
<1>6. Parts(A, 1 .. m)
  <2>1. ASSUME NEW j \in 1 .. m, NEW k \in 1 .. m, j # k PROVE A[j] \cap A[k] = {}
    <3>1. x[j].title # x[k].title
      BY <1>1, <2>1 DEF Heads
    <3> QED BY <3>1 DEF Under
  <2>2. \A k \in 1 .. m : IsFiniteSet(A[k])
    BY <1>4
  <2> HIDE DEF A
  <2> QED BY <2>1, <2>2 DEF Parts
<1>7. PartsOf(A, 1 .. m) = 1 .. n
  <2>1. ASSUME NEW i \in 1 .. n PROVE \E k \in 1 .. m : i \in A[k]
    <3> DEFINE title == TitleOf(cs[i], v)
    <3>1. title \in Titles
      BY <1>2 DEF TitleOf, Titles, ChangeRecord
    <3>2. i \in U(title)
      BY DEF Under
    <3> HIDE DEF title
    <3>3. Cardinality(U(title)) # 0
      BY <1>4, <3>2, FS_EmptySet
    <3>4. ListOf(t, title) # <<>>
      <4> HIDE DEF U
      <4> QED BY <1>3, <3>1, <3>3
    <3>5. PICK k \in 1 .. m : x[k].title = title
      BY <1>1, <3>1, <3>4 DEF Heads
    <3>6. A[k] = U(title)
      BY <3>5
    <3> QED BY <3>2, <3>6
  <2>2. \A k \in 1 .. m : A[k] \subseteq 1 .. n
    BY <1>4
  <2> HIDE DEF A
  <2> QED BY <2>1, <2>2 DEF PartsOf
<1>8. IsFiniteSet(1 .. m) /\ IsFiniteSet(1 .. n) /\ Cardinality(1 .. n) = n
  <2> HIDE DEF n, m
  <2>1. IsFiniteSet(1 .. m)
    BY <1>2, FS_Interval
  <2>2. IsFiniteSet(1 .. n) /\ Cardinality(1 .. n) = n
    BY <1>2, FS_Interval
  <2> QED BY <2>1, <2>2
<1>9. SumFunction(sizes) = n
  <2>1. DOMAIN sizes = 1 .. m
    OBVIOUS
  <2> HIDE DEF sizes, A
  <2>2. SumFunctionOnSet(sizes, 1 .. m) = Cardinality(PartsOf(A, 1 .. m))
    BY <1>5, <1>6, <1>8, SumOfParts
  <2> QED BY <1>7, <1>8, <2>1, <2>2 DEF SumFunction
<1>10. lines \in Seq(Seq(ChangeRecord)) /\ Len(lines) = m
  <2>1. lines \in [1 .. m -> Seq(ChangeRecord)]
    <3>1. \A k \in 1 .. m : lines[k] \in Seq(ChangeRecord)
      BY <1>5
    <3> QED BY <3>1
  <2> HIDE DEF lines
  <2> QED BY <1>2, <2>1
<1> HIDE DEF lines, A
<1>11. PICK f : Flattens(f, lines, ChangeRecord) /\ FlattenSeq(lines) = f[m]
  BY <1>10, Flattened
<1>12. /\ f \in [0 .. m -> Seq(ChangeRecord)] /\ f[0] = <<>>
       /\ \A k \in 1 .. m : f[k] = f[k - 1] \o lines[k]
  BY <1>10, <1>11 DEF Flattens
<1> DEFINE P(k) == PartsOf(A, 1 .. k)
           Good(k) == ToSet(f[k]) = {cs[i] : i \in P(k)} /\ Len(f[k]) = Cardinality(P(k))
           S == {k \in Nat : k <= m => Good(k)}
<1>13. 0 \in S
  <2>1. P(0) = {}
    BY DEF PartsOf
  <2>2. ToSet(<<>>) = {} /\ Len(<<>>) = 0
    BY DEF ToSet
  <2> HIDE DEF P
  <2> QED BY <1>12, <2>1, <2>2, FS_EmptySet
<1>14. ASSUME NEW k \in Nat, k \in S PROVE k + 1 \in S
  <2> SUFFICES ASSUME k + 1 <= m PROVE Good(k + 1)
    OBVIOUS
  <2>1. Good(k) /\ k + 1 \in 1 .. m /\ (k + 1) - 1 = k /\ k \in 0 .. m
    BY <1>2, <1>14
  <2> DEFINE s == 1 .. k + 1
  <2>2. s \in SUBSET (1 .. m) /\ k + 1 \in s /\ s \ {k + 1} = 1 .. k /\ s = (1 .. k) \cup {k + 1}
    BY <1>2, <2>1
  <2>3. Cardinality(P(k + 1)) = Cardinality(A[k + 1]) + Cardinality(P(k))
    <3> HIDE DEF s
    <3>1. Cardinality(PartsOf(A, s)) = Cardinality(A[k + 1]) + Cardinality(PartsOf(A, s \ {k + 1}))
      BY <1>6, <1>8, <2>2, OnePart
    <3> QED BY <2>2, <3>1 DEF s
  <2>4. P(k + 1) = P(k) \cup A[k + 1]
    BY <2>2 DEF PartsOf
  <2> DEFINE l == lines[k + 1]
             g == f[k]
  <2>5. l \in Seq(ChangeRecord) /\ Len(l) = Cardinality(A[k + 1]) /\ ToSet(l) = {cs[i] : i \in A[k + 1]}
    BY <1>5, <2>1
  <2>6. f[k + 1] = g \o l /\ g \in Seq(ChangeRecord)
    BY <1>12, <2>1
  <2> HIDE DEF P, l, g
  <2>7. /\ Len(g \o l) = Len(g) + Len(l)
        /\ ToSet(g \o l) = ToSet(g) \cup ToSet(l)
    BY <2>5, <2>6, Concatenated
  <2>9. ToSet(f[k + 1]) = {cs[i] : i \in P(k + 1)}
    <3>1. ToSet(g) = {cs[i] : i \in P(k)}
      BY <2>1 DEF g
    <3> QED BY <2>4, <2>5, <2>6, <2>7, <3>1
  <2>10. Len(f[k + 1]) = Cardinality(P(k + 1))
    <3>1. Len(g) = Cardinality(P(k))
      BY <2>1 DEF g
    <3> QED BY <2>3, <2>5, <2>6, <2>7, <3>1
  <2> QED BY <2>9, <2>10
<1>15. Good(m)
  <2>1. m \in S
    <3> HIDE DEF S
    <3> QED BY <1>2, <1>13, <1>14, EveryNumber
  <2> QED BY <1>2, <2>1
<1>16. ToSet(cs) = {cs[i] : i \in 1 .. n}
  BY <1>2 DEF ToSet
<1> HIDE DEF sizes
<1>17. ToSet(FlattenSeq(lines)) = ToSet(cs) /\ Len(FlattenSeq(lines)) = n
  BY <1>7, <1>8, <1>11, <1>15, <1>16
<1> QED BY <1>9, <1>17 DEF lines, sizes

-----------------------------------------------------------------------------
(* The counters of a report.                                               *)

\* There are n numbers from 1 to n.
LEMMA FirstNumbers == \A n \in Nat : IsFiniteSet(1 .. n) /\ Cardinality(1 .. n) = n
<1> TAKE n \in Nat
<1>1. IsFiniteSet(1 .. n)
  BY FS_Interval
<1>2. Cardinality(1 .. n) = n
  BY FS_Interval
<1> QED BY <1>1, <1>2

\* The changes of the join are those a report has headings for.
LEMMA ChangesTyped ==
    ASSUME CInv
    PROVE  changes \in Seq(ChangeRecord)
<1>1. changes \in Seq([op: J!Op \ {"="}, path: Path])
  BY DEF CInv, J!JInv, J!Joined, J!TypeOK
<1>2. J!Op \ {"="} \subseteq Reports!Ops
  BY OpsAreAll DEF J!Op
<1>3. [op: J!Op \ {"="}, path: Path] \subseteq ChangeRecord
  BY <1>2 DEF ChangeRecord
<1>4. ASSUME NEW X, NEW Y, X \subseteq Y, NEW cs \in Seq(X) PROVE cs \in Seq(Y)
  <2>1. cs \in [1 .. Len(cs) -> Y] /\ Len(cs) \in Nat
    BY <1>4
  <2> QED BY <2>1
<1> HIDE DEF ChangeRecord
<1> QED BY ONLY <1>1, <1>3, <1>4

\* The changes of a category.
OfOp(cs) == [op \in Reports!Ops |-> {i \in 1 .. Len(cs) : cs[i].op = op}]

LEMMA OpsAreParts ==
    ASSUME NEW cs \in Seq(ChangeRecord)
    PROVE  /\ IsFiniteSet(Reports!Ops)
           /\ Parts(OfOp(cs), Reports!Ops)
           /\ Cardinality(PartsOf(OfOp(cs), Reports!Ops)) = Len(cs)
<1>1. Len(cs) \in Nat /\ \A i \in 1 .. Len(cs) : cs[i].op \in Reports!Ops
  <2>1. \A i \in 1 .. Len(cs) : cs[i] \in ChangeRecord
    OBVIOUS
  <2> QED BY <2>1 DEF ChangeRecord
<1>2. IsFiniteSet(Reports!Ops)
  <2>1. Reports!AllOps \in Surjection(1 .. 10, Reports!Ops)
    <3>1. Reports!AllOps = [k \in 1 .. 10 |-> Reports!AllOps[k]]
      BY DEF Reports!AllOps
    <3>2. Reports!AllOps \in [1 .. 10 -> Reports!Ops]
      BY <3>1, TitlesDiffer
    <3> QED BY <3>2, TitlesDiffer DEF Surjection
  <2>2. IsFiniteSet(1 .. 10)
    BY FirstNumbers
  <2> QED BY <2>1, <2>2, FS_Surjection
<1>3. IsFiniteSet(1 .. Len(cs)) /\ Cardinality(1 .. Len(cs)) = Len(cs)
  BY <1>1, FirstNumbers
<1>4. \A op \in Reports!Ops : OfOp(cs)[op] = {i \in 1 .. Len(cs) : cs[i].op = op}
  BY DEF OfOp
<1>5. Parts(OfOp(cs), Reports!Ops)
  <2>1. \A op \in Reports!Ops : IsFiniteSet(OfOp(cs)[op])
    BY <1>3, <1>4, FS_Subset
  <2> QED BY <1>4, <2>1 DEF Parts
<1>6. PartsOf(OfOp(cs), Reports!Ops) = 1 .. Len(cs)
  BY <1>1, <1>4 DEF PartsOf
<1> QED BY <1>2, <1>3, <1>5, <1>6

\* Total, and the counters of the three groups, count each change once.
LEMMA CountersCountChanges ==
    ASSUME NEW cs \in Seq(ChangeRecord), NEW s,
           \A op \in Reports!Ops : s.counts[op] = Cardinality({i \in 1 .. Len(cs) : cs[i].op = op})
    PROVE  /\ Reports!Total(s.counts) = Len(cs)
           /\ LET groups == Reports!Summary(s).groups
              IN  SumFunction([g \in 1 .. Len(groups) |-> SumFunction(groups[g])]) = Len(cs)
<1> DEFINE A == OfOp(cs)
           groups == Reports!Summary(s).groups
           B == [g \in 1 .. 3 |-> PartsOf(A, Reports!Groups[g])]
           sums == [g \in 1 .. Len(groups) |-> SumFunction(groups[g])]
<1>1. /\ IsFiniteSet(Reports!Ops) /\ Parts(A, Reports!Ops)
      /\ Cardinality(PartsOf(A, Reports!Ops)) = Len(cs)
  BY OpsAreParts
<1>2. \A op \in Reports!Ops : s.counts[op] = Cardinality(A[op])
  BY DEF OfOp
<1> HIDE DEF A
<1>3. Reports!Total(s.counts) = Len(cs)
  <2>1. Reports!Total(s.counts) = SumFunctionOnSet(s.counts, Reports!Ops)
    BY DEF Reports!Total, Reports!SumFunctionOnSet, Reports!FoldFunctionOnSet,
           Reports!MapThenFoldSet, SumFunctionOnSet, FoldFunctionOnSet, MapThenFoldSet
  <2>2. SumFunctionOnSet(s.counts, Reports!Ops) = Cardinality(PartsOf(A, Reports!Ops))
    BY <1>1, <1>2, SumOfParts
  <2> QED BY <1>1, <2>1, <2>2
<1>4. /\ Len(Reports!Groups) = 3
      /\ \A g \in 1 .. 3 : Reports!Groups[g] \subseteq Reports!Ops
      /\ \A op \in Reports!Ops : \E g \in 1 .. 3 : op \in Reports!Groups[g]
      /\ \A g, h \in 1 .. 3 : g # h => Reports!Groups[g] \cap Reports!Groups[h] = {}
  <2>1. Reports!Ops = {"+D", "-D", "~D", "+F", "-F", "~F", "%F", "!T", "~L", "?E"}
    BY OpsAreAll
  <2>2. /\ Len(Reports!Groups) = 3
        /\ Reports!Groups[1] = {"+D", "-D", "~D"}
        /\ Reports!Groups[2] = {"+F", "-F", "~F", "%F"}
        /\ Reports!Groups[3] = {"!T", "~L", "?E"}
    BY DEF Reports!Groups
  <2>3. \A g \in 1 .. 3 : g = 1 \/ g = 2 \/ g = 3
    OBVIOUS
  <2>4. \A g \in 1 .. 3 : Reports!Groups[g] \subseteq Reports!Ops
    BY <2>1, <2>2, <2>3
  <2>5. \A op \in Reports!Ops : \E g \in 1 .. 3 : op \in Reports!Groups[g]
    BY <2>1, <2>2
  <2>6. \A g, h \in 1 .. 3 : g # h => Reports!Groups[g] \cap Reports!Groups[h] = {}
    BY <2>2, <2>3
  <2> QED BY <2>2, <2>4, <2>5, <2>6
<1>5. /\ Len(groups) = 3
      /\ \A g \in 1 .. 3 : groups[g] = [op \in Reports!Groups[g] |-> s.counts[op]]
  BY <1>4 DEF Reports!Summary
<1> HIDE DEF groups
<1>6. ASSUME NEW g \in 1 .. 3
      PROVE  sums[g] = Cardinality(B[g]) /\ IsFiniteSet(B[g])
  <2> DEFINE G == Reports!Groups[g]
  <2>1. G \subseteq Reports!Ops /\ IsFiniteSet(G)
    BY <1>1, <1>4, FS_Subset
  <2>2. Parts(A, G)
    BY <1>1, <2>1 DEF Parts
  <2>3. DOMAIN groups[g] = G /\ \A op \in G : groups[g][op] = Cardinality(A[op])
    BY <1>2, <1>5, <2>1
  <2>4. sums[g] = SumFunctionOnSet(groups[g], G)
    BY <1>5, <2>3 DEF SumFunction
  <2> HIDE DEF G
  <2>5. SumFunctionOnSet(groups[g], G) = Cardinality(PartsOf(A, G))
    BY <2>1, <2>2, <2>3, SumOfParts
  <2>6. IsFiniteSet(PartsOf(A, G))
    BY <2>1, <2>2, PartsAreFinite
  <2> QED BY <2>4, <2>5, <2>6 DEF G
<1>7. Parts(B, 1 .. 3)
  <2>1. ASSUME NEW g \in 1 .. 3, NEW h \in 1 .. 3, g # h PROVE B[g] \cap B[h] = {}
    <3>1. Reports!Groups[g] \cap Reports!Groups[h] = {}
      BY <1>4, <2>1
    <3> QED BY <1>1, <1>4, <3>1 DEF Parts, PartsOf
  <2> QED BY <1>6, <2>1 DEF Parts
<1>8. PartsOf(B, 1 .. 3) = PartsOf(A, Reports!Ops)
  BY <1>4 DEF PartsOf
<1>9. SumFunction(sums) = Len(cs)
  <2>1. DOMAIN sums = 1 .. 3
    BY <1>5
  <2> HIDE DEF sums, B
  <2>2. IsFiniteSet(1 .. 3)
    BY FirstNumbers
  <2>3. SumFunctionOnSet(sums, 1 .. 3) = Cardinality(PartsOf(B, 1 .. 3))
    BY <1>6, <1>7, <2>2, SumOfParts
  <2> QED BY <1>1, <1>8, <2>1, <2>3 DEF SumFunction
<1> QED BY <1>3, <1>9 DEF groups, sums

\* The counters of the join and of the command are those of the report.
LEMMA CountersAgree ==
    ASSUME CInv
    PROVE  /\ \A op \in Reports!Ops :
                 counts[op] = Cardinality({i \in 1 .. Len(changes) : changes[i].op = op})
           /\ Reports!Total(counts) = Len(changes)
           /\ expected = Cardinality(NoisePlaces)
<1>1. J!CountsChanges
  BY DEF CInv, J!JInv
<1>2. Reports!Ops \subseteq J!Op
  BY OpsAreAll DEF J!Op
<1>3. ASSUME NEW op \in Reports!Ops
      PROVE  counts[op] = Cardinality({i \in 1 .. Len(changes) : changes[i].op = op})
  <2>1. counts[op] = J!Cardinality(J!Of(op))
    BY <1>1, <1>2 DEF J!CountsChanges
  <2>2. J!Cardinality(J!Of(op)) = Cardinality(J!Of(op))
    BY DEF J!Cardinality, Cardinality
  <2> QED BY <2>1, <2>2 DEF J!Of
<1>4. Stats.counts = counts
  BY DEF Stats
<1>5. Reports!Total(Stats.counts) = Len(changes)
  BY <1>3, <1>4, ChangesTyped, CountersCountChanges
<1> QED BY <1>3, <1>4, <1>5 DEF CInv, NoiseCounted

\* There are findings just when a reported path is outside the volatile directories.
LEMMA FindingsAreReported ==
    ASSUME CInv
    PROVE  /\ Findings > 0 <=> Reported \ Volatile # {}
           /\ Findings > 0 <=> Len(changes) > expected
<1> DEFINE n == Len(changes)
           N == NoisePlaces
<1>1. n \in Nat
  BY ChangesTyped
<1>2. IsFiniteSet(1 .. n) /\ Cardinality(1 .. n) = n
  <2> HIDE DEF n
  <2> QED BY <1>1, FirstNumbers
<1>3. N \subseteq 1 .. n
  BY DEF NoisePlaces
<1>4. /\ Cardinality(N) \in Nat /\ Cardinality(N) <= n
      /\ Cardinality(N) = n => N = 1 .. n
  <2> HIDE DEF N, n
  <2> QED BY <1>2, <1>3, FS_Subset, FS_CardinalityType
<1>5. N = 1 .. n <=> Reported \subseteq Volatile
  BY DEF Reported, NoisePlaces
<1>6. Findings = n - Cardinality(N) /\ expected = Cardinality(N)
  BY CountersAgree DEF Findings
<1>7. N = 1 .. n => Cardinality(N) = n
  BY <1>2
<1> HIDE DEF n, N
<1>8. Findings > 0 <=> Cardinality(N) # n
  BY <1>1, <1>4, <1>6
<1>9. Findings > 0 <=> n > expected
  BY <1>1, <1>4, <1>6
<1> QED BY <1>4, <1>5, <1>7, <1>8, <1>9 DEF n

\* With --fail-on-diff the exit code, which goes by the counters of the join and of the
\* callback, tells whether the two streams differ, visibly and outside the volatile
\* directories (runCompare).
THEOREM CompareExitTellsDrift == Spec => []ExitTellsDrift
<1>1. CInv => ExitTellsDrift
  BY DoneIsWhole, FindingsAreReported DEF CInv, Outcome, ExitTellsDrift
<1> QED BY <1>1, CInvInvariant, PTL

\* In a report that was completed each change is a line of one section, whose heading
\* counts it; sections, summary and JSON lines agree; and with what was hidden or ignored
\* the lines are all the differences there are (report, Close).
THEOREM CompareReportAddsUp == Spec => []ReportAddsUp
<1> DEFINE text    == Reports!Sections(changes, Volatile)
           summary == Reports!Summary(Stats)
           json    == Reports!Lines(changes, Stats)
           final   == Last(json)
           printed == FlattenSeq([k \in 1 .. Len(text) |-> text[k].lines])
           counted == SumFunction([k \in 1 .. Len(text) |-> text[k].count])
           n       == Len(changes)
<1>1. ASSUME CInv, out = "final"
      PROVE  /\ ToSet(printed) = ToSet(changes) /\ Len(printed) = Len(changes)
             /\ counted = final.total
             /\ final.total = SumFunction([g \in 1 .. Len(summary.groups) |->
                                    SumFunction(summary.groups[g])])
             /\ Len(json) = final.total + 2
             /\ \A k \in 1 .. Len(text) : text[k].title = "expected noise" =>
                     <<"expected", text[k].count>> \in summary.notes
             /\ final.total + final.ignored + final.hidden = Cardinality(Join!Different)
             /\ exit = "diff" => final.total > final.expected
  <2>1. changes \in Seq(ChangeRecord) /\ n \in Nat /\ status = "done"
    BY <1>1, ChangesTyped DEF CInv, Outcome
  <2>2. /\ ToSet(printed) = ToSet(changes) /\ Len(printed) = n /\ counted = n
    BY <2>1, LinesAreChanges
  <2>3. /\ Reports!Total(Stats.counts) = n
        /\ SumFunction([g \in 1 .. Len(summary.groups) |-> SumFunction(summary.groups[g])]) = n
    <3>1. \A op \in Reports!Ops : Stats.counts[op] = Cardinality({i \in 1 .. n : changes[i].op = op})
      BY <1>1, CountersAgree DEF Stats
    <3> QED BY <2>1, <3>1, CountersCountChanges
  <2>4. /\ Len(json) = n + 2
        /\ final.total = n /\ final.expected = expected
        /\ final.ignored = ignored /\ final.hidden = hidden
    <3> DEFINE head == [record |-> "header"]
               mid  == [i \in 1 .. n |->
                          [record |-> "change", op |-> changes[i].op, path |-> changes[i].path]]
               tail == [record |-> "summary",
                        counts |-> [op \in Reports!Ops |-> Stats.counts[op]],
                        total |-> Reports!Total(Stats.counts),
                        expected |-> Stats.expected, ignored |-> Stats.ignored,
                        hidden |-> Stats.hidden]
               any == {head, tail} \cup {mid[i] : i \in 1 .. n}
    <3>1. json = <<head>> \o mid \o <<tail>>
      BY DEF Reports!Lines
    <3>2. /\ tail.total = Reports!Total(Stats.counts) /\ tail.expected = expected
          /\ tail.ignored = ignored /\ tail.hidden = hidden
      BY DEF Stats
    <3>3. mid \in Seq(any) /\ Len(mid) = n
      <4>1. mid \in [1 .. n -> any]
        <5> HIDE DEF head, tail
        <5> QED OBVIOUS
      <4> HIDE DEF mid, any
      <4> QED BY <2>1, <4>1
    <3>4. head \in any /\ tail \in any
      OBVIOUS
    <3> HIDE DEF head, mid, tail, any, json
    <3>5. <<head>> \o mid \in Seq(any) /\ Len(<<head>> \o mid) = 1 + n
      BY <2>1, <3>3, <3>4
    <3> DEFINE front == <<head>> \o mid
    <3>6. front \in Seq(any) /\ Len(front) = 1 + n
      BY <3>5
    <3> HIDE DEF front
    <3>7. Len(front \o <<tail>>) = n + 2 /\ (front \o <<tail>>)[n + 2] = tail
      BY <2>1, <3>4, <3>6
    <3>8. json = front \o <<tail>>
      BY <3>1 DEF front
    <3>9. final = tail
      BY <3>7, <3>8 DEF Last
    <3> HIDE DEF final
    <3> QED BY <2>3, <3>2, <3>7, <3>8, <3>9
  <2>5. ASSUME NEW k \in 1 .. Len(text), text[k].title = Noise
        PROVE  <<"expected", text[k].count>> \in summary.notes
    <3> DEFINE t == Reports!Kept(changes, Volatile)
               l == ListOf(t, Noise)
               U == Under(changes, Volatile, n, Noise)
    <3>1. Heads(text, t, Titles)
      BY <2>1, SectionsHead
    <3>2. /\ text[k].lines = l /\ l # <<>> /\ text[k].count = Len(l)
      BY <2>5, <3>1 DEF Heads
    <3>3. Noise \in Titles
      BY DEF Titles
    <3>4. l \in Seq(ChangeRecord) /\ Len(l) = Cardinality(U)
      BY <2>1, <3>3, KeptFiled
    <3>5. U = {i \in 1 .. n : changes[i].path \in Volatile}
      <4>1. ASSUME NEW i \in 1 .. n PROVE TitleOf(changes[i], Volatile) = Noise <=> changes[i].path \in Volatile
        <5>1. changes[i] \in ChangeRecord
          BY <2>1
        <5>2. changes[i].op \in Reports!Ops
          BY <5>1 DEF ChangeRecord
        <5> QED BY <5>2, TitlesDiffer DEF TitleOf
      <4> QED BY <4>1 DEF Under
    <3>6. Len(l) = expected /\ Len(l) > 0
      <4>1. Cardinality(U) = expected
        BY <1>1, <3>5, CountersAgree DEF NoisePlaces
      <4> HIDE DEF l, U
      <4> QED BY <3>2, <3>4, <4>1
    <3>7. <<"expected", Stats.expected>> \in summary.notes
      <4>1. Stats.expected = expected /\ expected > 0
        BY <3>6 DEF Stats
      <4> QED BY <4>1 DEF Reports!Summary
    <3> QED BY <3>2, <3>6, <3>7 DEF Stats
  <2>6. n + ignored + hidden = Cardinality(Join!Different)
    <3>1. J!JInv /\ J!TypeOK /\ J!ClassifyAssumption /\ J!JoinerAssumption
      BY <1>1, JoinAssumptions DEF CInv, J!JInv, J!Joined
    <3>2. Len(changes) + hidden + ignored = Cardinality(J!Different)
      <4>1. Len(changes) + hidden + ignored = J!Cardinality(J!Different)
        BY <2>1, <3>1, J!DoneAddsUp
      <4>2. J!Cardinality(J!Different) = Cardinality(J!Different)
        BY DEF J!Cardinality, Cardinality
      <4> QED BY <4>1, <4>2
    <3>3. ignored \in Nat /\ hidden \in Nat
      BY <3>1 DEF J!TypeOK
    <3>4. J!Different = Join!Different
      BY SameJoin
    <3> QED BY <2>1, <3>2, <3>3, <3>4
  <2>7. exit = "diff" => n > expected
    BY <1>1, FindingsAreReported DEF CInv, Outcome
  <2> HIDE DEF text, summary, json, final, printed, counted
  <2> QED BY <2>2, <2>3, <2>4, <2>5, <2>6, <2>7 DEF Noise
<1>2. CInv => ReportAddsUp
  <2> HIDE DEF n
  <2> QED BY <1>1 DEF ReportAddsUp
<1> QED BY <1>2, CInvInvariant, PTL
=============================================================================
