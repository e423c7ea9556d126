-------------------------------- MODULE Canon --------------------------------
(***************************************************************************)
(* internal/canon, key.go: the canonical order of paths.  A path is the    *)
(* sequence of its bytes.                                                  *)
(***************************************************************************)
EXTENDS Integers, Sequences

CONSTANTS
    Byte,    \* the bytes a path may be made of
    Slash    \* the byte '/'

ASSUME CanonAssumption == Byte \subseteq Int /\ Slash \in Byte

Paths == Seq(Byte)

\* The switch of CompareKey on two different bytes: '/' is below any other.
\* Mutant: the bytes are compared as they are.
PlainBelow(ca, cb) == ca < cb
ByteBelow(ca, cb) == cb # Slash /\ (ca = Slash \/ ca < cb)

\* The loop of CompareKey ends at i, the first index where the paths differ.
DifferAt(a, b, i) ==
    /\ i \in 1 .. Len(a) /\ i \in 1 .. Len(b)
    /\ \A j \in 1 .. i - 1 : a[j] = b[j]
    /\ a[i] # b[i]

\* The loop runs to the end of the shorter path, which is a, or of both.
Prefix(a, b) == Len(a) <= Len(b) /\ \A j \in 1 .. Len(a) : a[j] = b[j]

\* CompareKey returns a negative number.
\* Mutant: of a path and its prefix, the longer one comes first.
LongerFirst(a, b) == Prefix(b, a) /\ Len(b) < Len(a)
ShorterFirst(a, b) == Prefix(a, b) /\ Len(a) < Len(b)

Less(a, b) ==
    \/ \E i \in 1 .. Len(a) : DifferAt(a, b, i) /\ ByteBelow(a[i], b[i])
    \/ ShorterFirst(a, b)

\* CompareKey.
CompareKey(a, b) == IF Less(a, b) THEN -1 ELSE IF Less(b, a) THEN 1 ELSE 0

-----------------------------------------------------------------------------
(* The walk the order must agree with.                                     *)

\* q is in the directory p, at any depth.  The root is the path made of one slash.
Below(q, p) ==
    /\ Prefix(p, q)
    /\ Len(p) < Len(q)
    /\ q[Len(p) + 1] = Slash \/ p = <<Slash>>
=============================================================================
