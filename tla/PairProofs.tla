----------------------------- MODULE PairProofs -----------------------------
(***************************************************************************)
(* The two pure decisions osfp rests on, for every pair they may be asked  *)
(* about: what the table of Classify says of two entries, and how          *)
(* CompareKey orders two paths.                                            *)
(***************************************************************************)
EXTENDS ClassifyCheck, CanonCheck, CanonProofs

-----------------------------------------------------------------------------
(* Every pair of entries.                                                  *)

Entries == old \in Entry /\ live \in Entry

\* Each change of a fact leaves an entry.
LEMMA EntriesKept == Entries /\ [EntriesNext]_entries => Entries'
<1> SUFFICES ASSUME Entries, [EntriesNext]_entries PROVE Entries'
  OBVIOUS
<1>1. CASE Touch \/ Chmod
  BY <1>1 DEF Entries, EntriesNext, entries, Touch, Chmod, Entry
<1>2. CASE Rewrite
  <2>1. PICK h \in Hash \cup {Unhashed}, s \in Size : live' = [live EXCEPT !.hash = h, !.size = s]
    BY <1>2 DEF Rewrite
  <2> QED BY <2>1 DEF Entries, EntriesNext, entries, Entry
<1>3. CASE Retarget \/ Replace \/ Lock
  BY <1>3 DEF Entries, EntriesNext, entries, Retarget, Replace, Lock, Entry
<1>4. CASE UNCHANGED entries
  BY <1>4 DEF Entries, entries
<1> QED BY <1>1, <1>2, <1>3, <1>4 DEF EntriesNext, entries

\* The two entries are entries: what the table of Classify is asked about.
THEOREM EntriesInvariant == EntriesSpec => []Entries
<1>1. EntriesInit => Entries
  BY DEF EntriesInit, Entries, SamePath
<1> QED BY <1>1, EntriesKept, PTL DEF EntriesSpec

\* A content change is claimed exactly when two hashes of readable files were
\* compared and differ (Classify).
THEOREM ClassifyContentClaims == EntriesSpec => []ContentClaimsAreVerified
<1>1. Entries => ContentClaimsAreVerified
  BY DEF ContentClaimsAreVerified, Classify, AnyUnreadable, ContentChanged, BothHashed,
         MaybeChanged, Entries, Entry
<1> QED BY <1>1, EntriesInvariant, PTL

\* An entry reported as unchanged agrees on all that was recorded of it (Classify).
THEOREM ClassifyUnchangedMeansEqual == EntriesSpec => []UnchangedMeansEqual
<1>1. Entries => UnchangedMeansEqual
  BY DEF UnchangedMeansEqual, Classify, AnyUnreadable, ContentChanged, MaybeChanged, BothHashed,
         UnhashedDiffer, Entries, Entry
<1> QED BY <1>1, EntriesInvariant, PTL

\* The date of a file hashed on both sides has no effect on the verdict (Classify,
\* compareUnhashed).
THEOREM ClassifyTouchIsInvisible == EntriesSpec => TouchIsInvisible
<1>1. ASSUME Entries, Touch, UNCHANGED old, live.type = "file", BothHashed(old, live)
      PROVE  Classify(old', live') = Classify(old, live)
  <2>1. PICK t \in MTime : live' = [live EXCEPT !.mtime = t]
    BY <1>1 DEF Touch
  <2>2. /\ live'.type = live.type /\ live'.err = live.err /\ live'.hash = live.hash
        /\ live'.link = live.link /\ live'.attrs = live.attrs
    BY <1>1, <2>1 DEF Entries, Entry
  <2>3. ~MaybeChanged(old, live) /\ ~MaybeChanged(old', live')
    BY <1>1, <2>2 DEF MaybeChanged, BothHashed
  <2>4. /\ AnyUnreadable(old', live') <=> AnyUnreadable(old, live)
        /\ ContentChanged(old', live') <=> ContentChanged(old, live)
    BY <1>1, <2>2 DEF AnyUnreadable, ContentChanged, BothHashed
  <2> QED BY <1>1, <2>2, <2>3, <2>4 DEF Classify
<1>2. Entries /\ [EntriesNext]_entries
        => [(Touch /\ UNCHANGED old /\ live.type = "file" /\ BothHashed(old, live))
              => Classify(old', live') = Classify(old, live)]_entries
  BY <1>1
<1> QED BY <1>2, EntriesInvariant, PTL DEF EntriesSpec, TouchIsInvisible

-----------------------------------------------------------------------------
(* Every pair of paths.                                                    *)

TwoPaths == one \in Paths /\ other \in Paths

\* The two paths compared are paths.
THEOREM PathsInvariant == PathsSpec => []TwoPaths
<1>1. PathsInit => TwoPaths
  BY DEF PathsInit, TwoPaths, Paths
<1>2. TwoPaths /\ [PathsNext]_paths => TwoPaths'
  <2>1. \A p \in Paths, c \in Byte : Append(p, c) \in Paths
    BY DEF Paths
  <2> QED BY <2>1 DEF TwoPaths, PathsNext, Grow, paths
<1> QED BY <1>1, <1>2, PTL DEF PathsSpec

\* CompareKey orders paths as their names are ordered, one component at a time
\* (TestCompareKeyAgreesWithReference), whatever bytes they are made of.
THEOREM CanonAgreesWithNames == PathsSpec => []AgreesWithNames
<1>1. TwoPaths => AgreesWithNames
  <2> SUFFICES ASSUME one \in Paths, other \in Paths PROVE AgreesWithNames
    BY DEF TwoPaths
  <2>1. CASE Less(one, other)
    BY <2>1, LessNames DEF AgreesWithNames, CompareKey
  <2>2. CASE Less(other, one)
    <3>1. NamesLess(other, one) /\ ~Less(one, other)
      BY <2>2, LessNames, LessAsymmetric
    <3>2. ~NamesLess(one, other)
      BY <3>1, NamesLessAsymmetric
    <3> QED BY <2>2, <3>1, <3>2 DEF AgreesWithNames, CompareKey
  <2>3. CASE ~Less(one, other) /\ ~Less(other, one)
    <3>1. one = other
      BY <2>3, LessTotal
    <3>2. ~NamesLess(one, other) /\ ~NamesLess(other, one)
      BY <3>1, NamesLessAsymmetric
    <3> QED BY <2>3, <3>2 DEF AgreesWithNames, CompareKey
  <2> QED BY <2>1, <2>2, <2>3
<1> QED BY <1>1, PathsInvariant, PTL

\* A directory's content follows the directory and precedes whatever else follows it
\* (CompareKey, "/a < /a/b < /a.txt").
THEOREM CanonSubtreeIsContiguous == PathsSpec => []SubtreeIsContiguous
<1>1. TwoPaths => SubtreeIsContiguous
  <2> SUFFICES ASSUME one \in Paths, other \in Paths PROVE SubtreeIsContiguous
    BY DEF TwoPaths
  <2>1. Below(other, one) => Less(one, other)
    BY SubtreeComesFirst
  <2>2. ASSUME NEW n \in 1 .. Len(other)
        PROVE  LET p == SubSeq(other, 1, n)
               IN  Below(other, p) /\ Less(p, one) /\ ~Below(one, p) => Less(other, one)
    <3>1. SubSeq(other, 1, n) \in Paths
      BY BytesOfPath DEF Paths
    <3> QED BY <3>1, SubtreeComesFirst
  <2> QED BY <2>1, <2>2 DEF SubtreeIsContiguous
<1> QED BY <1>1, PathsInvariant, PTL
=============================================================================
