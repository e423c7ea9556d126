----------------------------- MODULE CanonCheck -----------------------------
(***************************************************************************)
(* CompareKey on every pair of paths of at most MaxLen bytes, against the  *)
(* reference of key_test.go, which compares them name by name.  A step     *)
(* adds a byte to one of the two paths.                                    *)
(***************************************************************************)
EXTENDS PathNames

CONSTANT MaxLen   \* bound

VARIABLES one, other

paths == <<one, other>>

PathsInit == one = <<>> /\ other = <<>>

Grow(p, q) == \E c \in Byte : Len(p) < MaxLen /\ p' = Append(p, c) /\ UNCHANGED q

PathsNext == Grow(one, other) \/ Grow(other, one)

PathsSpec == PathsInit /\ [][PathsNext]_paths

\* CompareKey "orders paths the way a depth-first walk does", which is the order
\* of the names one component at a time (TestCompareKeyAgreesWithReference).
AgreesWithNames ==
    CompareKey(one, other) = IF NamesLess(one, other) THEN -1
                             ELSE IF NamesLess(other, one) THEN 1 ELSE 0

\* "/a < /a/b < /a.txt": what is in a directory comes after it and before whatever
\* comes after it, so that a walk meets a directory's content in one go.
SubtreeIsContiguous ==
    /\ Below(other, one) => Less(one, other)
    /\ \A n \in 1 .. Len(other) :
          LET p == SubSeq(other, 1, n)
          IN  Below(other, p) /\ Less(p, one) /\ ~Below(one, p) => Less(other, one)
=============================================================================
