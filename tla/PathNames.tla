------------------------------ MODULE PathNames ------------------------------
(***************************************************************************)
(* Paths as sequences of names: the parts of path/filepath that the        *)
(* repository relies on, and the order of a depth-first walk that visits   *)
(* the names of a directory in the order of their bytes.                   *)
(***************************************************************************)
EXTENDS Canon, FiniteSets, SequencesExt

\* The names of a path, the empty ones included: strings.Split(p, "/").
WithByte(names, c) ==
    IF c = Slash THEN Append(names, <<>>)
                 ELSE [names EXCEPT ![Len(names)] = Append(@, c)]

Names(p) ==
    LET split[n \in 0 .. Len(p)] ==
            IF n = 0 THEN <<<<>>>> ELSE WithByte(split[n - 1], p[n])
    IN  split[Len(p)]

\* The elements of a set, the least one first in the order given by its pairs.
Sorted(S, order) ==
    [i \in 1 .. Cardinality(S) |->
        CHOOSE p \in S : Cardinality({q \in S : <<q, p>> \in order}) = i - 1]

\* The order of byte strings, which is the one the directory's names are sorted in.
NameBelow(m, n) ==
    \/ IsStrictPrefix(m, n)
    \/ \E i \in 1 .. Len(m) : DifferAt(m, n, i) /\ m[i] < n[i]

\* Name by name, then by the number of names.
NamesLess(p, q) ==
    LET m == Names(p)
        n == Names(q)
    IN  \/ IsStrictPrefix(m, n)
        \/ \E i \in 1 .. Len(m) : DifferAt(m, n, i) /\ NameBelow(m[i], n[i])

Absolute(p) == p # <<>> /\ p[1] = Slash

\* filepath.Clean, of a path without a ".." in it: no empty name and no ".".
Dot == 46

\* A slash before each name, but for those that filepath.Clean drops.
Joined(names) ==
    LET path[n \in 0 .. Len(names)] ==
            IF n = 0 THEN <<>>
            ELSE IF names[n] \in {<<>>, <<Dot>>} THEN path[n - 1]
            ELSE path[n - 1] \o <<Slash>> \o names[n]
    IN  path[Len(names)]

Clean(p) ==
    LET joined == Joined(Names(p))
    IN  IF Absolute(p) THEN (IF joined = <<>> THEN <<Slash>> ELSE joined)
        ELSE IF joined = <<>> THEN <<Dot>> ELSE Tail(joined)

\* filepath.Base, of a clean path.
Base(p) == IF p = <<Slash>> THEN p ELSE Last(Names(p))
=============================================================================
