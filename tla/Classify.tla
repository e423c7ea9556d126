------------------------------ MODULE Classify ------------------------------
(***************************************************************************)
(* internal/diff, classify.go: the category of the difference between the  *)
(* fingerprint entry and the live entry of one path.                       *)
(*                                                                         *)
(* An entry keeps the facts the table looks at.  mode, uid and gid are one *)
(* value, attrs, because every line of the table compares them together;   *)
(* the hash is Unhashed when scan.Entry.Hashed is false.                   *)
(***************************************************************************)
EXTENDS Integers

CONSTANTS
    Path,      \* the paths, ordered by CompareKey: numbers here
    Type,      \* scan.Type
    Hash,      \* the SHA-256 sums
    Unhashed,  \* the hash of an entry that was not hashed
    Link,      \* the targets of symlinks
    Size, MTime, Attrs

ASSUME ClassifyAssumption ==
    /\ Path \subseteq Int
    /\ {"dir", "file", "symlink"} \subseteq Type
    /\ Unhashed \notin Hash

Entry ==
    [path: Path, type: Type, err: BOOLEAN, hash: Hash \cup {Unhashed}, link: Link,
     size: Size, mtime: MTime, attrs: Attrs]

\* The categories of the report.  "=" is OpNone.
Op == {"=", "+D", "-D", "~D", "+F", "-F", "~F", "%F", "!T", "~L", "?E"}

BothHashed(old, live) == old.hash # Unhashed /\ live.hash # Unhashed

\* compareUnhashed finds something.
UnhashedDiffer(old, live) == old.size # live.size \/ old.mtime # live.mtime

\* The content of a regular file, where Classify ends with a category of its own.
ContentChanged(old, live) ==
    live.type = "file" /\ BothHashed(old, live) /\ old.hash # live.hash

\* Mutant: the date is looked at even when both sides were hashed.
MaybeChangedAlways(old, live) == live.type = "file" /\ UnhashedDiffer(old, live)
MaybeChanged(old, live) ==
    live.type = "file" /\ ~BothHashed(old, live) /\ UnhashedDiffer(old, live)

\* Mutant: an error recorded in the fingerprint is not looked at.
AnyUnreadableLive(old, live) == live.err
AnyUnreadable(old, live) == live.err \/ old.err

\* Mutant: the attributes are compared before the content.
ClassifyAttrsFirst(old, live) ==
    IF AnyUnreadable(old, live) THEN "?E"
    ELSE IF old.type # live.type THEN "!T"
    ELSE IF live.type = "symlink" /\ old.link # live.link THEN "~L"
    ELSE IF old.attrs # live.attrs THEN (IF live.type = "dir" THEN "~D" ELSE "%F")
    ELSE IF ContentChanged(old, live) THEN "~F"
    ELSE IF MaybeChanged(old, live) THEN "%F"
    ELSE "="

\* The decision table of Classify; the first line that applies decides.
Classify(old, live) ==
    IF AnyUnreadable(old, live) THEN "?E"
    ELSE IF old.type # live.type THEN "!T"
    ELSE IF live.type = "symlink" /\ old.link # live.link THEN "~L"
    ELSE IF ContentChanged(old, live) THEN "~F"
    ELSE IF MaybeChanged(old, live) THEN "%F"
    ELSE IF old.attrs # live.attrs THEN (IF live.type = "dir" THEN "~D" ELSE "%F")
    ELSE "="

\* opForMissing: the category of an entry present on one side only.
OpForMissing(e, added) ==
    IF e.type = "dir" THEN (IF added THEN "+D" ELSE "-D")
    ELSE (IF added THEN "+F" ELSE "-F")
=============================================================================
