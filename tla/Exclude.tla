------------------------------- MODULE Exclude -------------------------------
(***************************************************************************)
(* internal/exclude, matcher.go: how a list of patterns becomes the set of *)
(* paths a scan leaves alone.  Paths and patterns are sequences of bytes.  *)
(*                                                                         *)
(* filepath.Match is modelled for '*' and for classes whose members are of *)
(* one byte; '?', ranges, negated classes and escapes are left out.        *)
(***************************************************************************)
EXTENDS PathNames

CONSTANTS
    Star, Opening, Closing,   \* the bytes '*', '[' and ']'
    HashSign, Space

ASSUME ExcludeAssumption ==
    {Dot, Star, Opening, Closing, HashSign, Space} \subseteq Byte \ {Slash}

-----------------------------------------------------------------------------
(* path/filepath and strings.                                              *)

\* strings.TrimSpace.
Trim(p) ==
    LET ink == {i \in 1 .. Len(p) : p[i] # Space}
    IN  IF ink = {} THEN <<>> ELSE SubSeq(p, Min(ink), Max(ink))

ClassEnd(g, i) == Min({k \in i + 1 .. Len(g) : g[k] = Closing})

\* filepath.Match returns ErrBadPattern: read from the left, a class is empty or not closed.
\* What is in a class, another '[' included, is a member of it.
Malformed(g) ==
    LET bad[i \in 1 .. Len(g) + 1] ==
            IF i > Len(g) THEN FALSE
            ELSE IF g[i] # Opening THEN bad[i + 1]
            ELSE \/ \A k \in i + 2 .. Len(g) : g[k] # Closing
                 \/ g[i + 1] = Closing
                 \/ bad[ClassEnd(g, i) + 1]
    IN  bad[1]

\* filepath.Match.
GlobMatch(g, p) ==
    LET from[i \in 1 .. Len(g) + 1, j \in 1 .. Len(p) + 1] ==
            IF i > Len(g) THEN j > Len(p)
            ELSE IF g[i] = Star
                 THEN from[i + 1, j] \/ (j <= Len(p) /\ p[j] # Slash /\ from[i, j + 1])
            ELSE IF j > Len(p) THEN FALSE
            ELSE IF g[i] = Opening
                 THEN /\ p[j] \in {g[k] : k \in i + 1 .. ClassEnd(g, i) - 1}
                      /\ from[ClassEnd(g, i) + 1, j + 1]
            ELSE g[i] = p[j] /\ from[i + 1, j + 1]
    IN  ~Malformed(g) /\ from[1, 1]

-----------------------------------------------------------------------------
(* matcher.go.                                                             *)

\* under.  Mutant: the bytes are compared and not the names.
UnderBytes(path, prefix) == Prefix(prefix, path)
Under(path, prefix) ==
    \/ prefix = <<Slash>>
    \/ Prefix(prefix, path) /\ (Len(path) = Len(prefix) \/ path[Len(prefix) + 1] = Slash)

IsGlob(p) == \E i \in 1 .. Len(p) : p[i] \in {Star, Opening}

\* Set.Match.
Match(s, path) ==
    \/ \E p \in s.prefixes : Under(path, p)
    \/ \E g \in s.pathGlobs : GlobMatch(g, path)
    \/ \E g \in s.nameGlobs : GlobMatch(g, Base(path))

\* A prefix that contains the scan root cannot apply.
CoversRoot(s, p) == ~IsGlob(p) /\ Absolute(p) /\ Under(s.root, Clean(p))

\* addOne.
AddOne(s, p) ==
    LET only(cond, x) == IF cond THEN {x} ELSE {}
    IN  IF CoversRoot(s, p) THEN [s EXCEPT !.dropped = Append(@, p)]
        ELSE IF IsGlob(p) /\ Malformed(p) THEN [s EXCEPT !.ok = FALSE]
        ELSE [s EXCEPT
                !.patterns  = Append(@, p),
                !.nameGlobs = @ \cup only(~Absolute(p), p),
                !.pathGlobs = @ \cup only(Absolute(p) /\ IsGlob(p), p),
                !.prefixes  = @ \cup only(Absolute(p) /\ ~IsGlob(p), Clean(p))]

\* add, which stops at an error.
AddListedOne(s, p) ==
    IF ~s.ok \/ Trim(p) = <<>> \/ Trim(p)[1] = HashSign THEN s ELSE AddOne(s, Trim(p))

AddListed(s, listed) ==
    LET after[n \in 0 .. Len(listed)] ==
            IF n = 0 THEN s ELSE AddListedOne(after[n - 1], listed[n])
    IN  after[Len(listed)]

\* addAuto skips what a pattern already covers.
AddAutoOne(s, p) ==
    IF ~s.ok \/ Trim(p) = <<>> \/ Match(s, Trim(p)) THEN s ELSE AddOne(s, Trim(p))

AddAuto(s, auto) ==
    LET after[n \in 0 .. Len(auto)] ==
            IF n = 0 THEN s ELSE AddAutoOne(after[n - 1], auto[n])
    IN  after[Len(auto)]

\* New, where listed are the defaults and the operator's patterns.
New(root, listed, auto) ==
    LET empty == [root |-> Clean(root), prefixes |-> {}, pathGlobs |-> {}, nameGlobs |-> {},
                  patterns |-> <<>>, dropped |-> <<>>, ok |-> TRUE]
    IN  AddAuto(AddListed(empty, listed), auto)
=============================================================================
