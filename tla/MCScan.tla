------------------------------- MODULE MCScan -------------------------------
(***************************************************************************)
(* Small trees and small pools for TLC.  Each configuration names the tree *)
(* it walks and the options of the walk.                                   *)
(***************************************************************************)
EXTENDS ScanPlan

CONSTANTS w1, w2, MaxFaults

\* A small tree: a directory with a file, a symlink and a directory in it, all
\* on one device, followed by a file.
\*
\*     /  --+-- a --+-- a/f      file
\*          |       +-- a/l      symlink
\*          |       +-- a/x      excluded
\*          +-- b                file, larger than --max-file-size
\*          +-- c --- c/s        a socket under a refused directory
SmallNode == {"/", "a", "a/f", "a/l", "a/x", "b", "c", "c/s"}

SmallKids ==
    [n \in SmallNode |->
        CASE n = "/" -> <<"a", "b", "c">>
          [] n = "a" -> <<"a/f", "a/l", "a/x">>
          [] n = "c" -> <<"c/s">>
          [] OTHER   -> <<>>]

SmallKind ==
    [n \in SmallNode |->
        CASE n \in {"/", "a", "c"} -> "dir"
          [] n = "a/l"             -> "symlink"
          [] n = "c/s"             -> "other"
          [] OTHER                 -> "file"]

OneDevice == [n \in SmallNode |-> 1]

-----------------------------------------------------------------------------
(* A root with more children than the ring of one worker has cells: three     *)
(* files, the mount point of a share, and a directory after it.               *)
FlatNode == {"/", "a", "b", "c", "m", "n", "n/f"}

FlatKids ==
    [n \in FlatNode |-> CASE n = "/" -> <<"a", "b", "c", "m", "n">> [] n = "n" -> <<"n/f">> [] OTHER -> <<>>]

FlatKind == [n \in FlatNode |-> IF n \in {"/", "m", "n"} THEN "dir" ELSE "file"]

\* n is an ordinary directory of the root filesystem.
OneShare == [n \in FlatNode |-> IF n = "m" THEN 2 ELSE 1]

-----------------------------------------------------------------------------
(* Shares below a root with more entries than the ring of one worker has cells, *)
(* so that the device of the root is read from the cell of another entry, and a *)
(* directory below the maximum depth.                                          *)
(*                                                                             *)
(*     /  --+-- a, b, c         files                                          *)
(*          +-- m1 --- m1/f     mount points of shares                         *)
(*          +-- m2 --- m2/f                                                    *)
(*          +-- n  --- n/d --- n/d/g                                           *)
SharesNode == {"/", "a", "b", "c", "m1", "m1/f", "m2", "m2/f", "n", "n/d", "n/d/g"}

SharesKids ==
    [n \in SharesNode |->
        CASE n = "/"   -> <<"a", "b", "c", "m1", "m2", "n">>
          [] n = "m1"  -> <<"m1/f">>
          [] n = "m2"  -> <<"m2/f">>
          [] n = "n"   -> <<"n/d">>
          [] n = "n/d" -> <<"n/d/g">>
          [] OTHER     -> <<>>]

SharesKind == [n \in SharesNode |-> IF n \in {"/", "m1", "m2", "n", "n/d"} THEN "dir" ELSE "file"]

\* Two shares, and n on a local filesystem of its own.
TwoShares ==
    [n \in SharesNode |->
        CASE n \in {"m1", "m1/f"}       -> 2
          [] n \in {"m2", "m2/f"}       -> 3
          [] n \in {"n", "n/d", "n/d/g"} -> 4
          [] OTHER                      -> 1]

\* The same share at m1 and at m2.
TwiceMounted == [n \in SharesNode |-> IF n \in {"m2", "m2/f"} THEN 2 ELSE TwoShares[n]]

-----------------------------------------------------------------------------
\* The answers of the system calls, with at most MaxFaults of them failing.  A
\* failed ReadDir returns some of the entries of its directory, in order.
Faults ==
    {f \in [bad: SUBSET Node, gone: SUBSET (Node \ {Root})] :
        Cardinality(f.bad) + Cardinality(f.gone) <= MaxFaults}

Listing(unread) == [n \in Node |-> SelectSeq(Kids[n], LAMBDA k : k \notin unread)]

ChildrenOf(bad) == UNION {ToSet(Kids[n]) : n \in bad}

MCWorld ==
    UNION {{[bad |-> f.bad, gone |-> f.gone, listing |-> Listing(unread)] :
                unread \in SUBSET ChildrenOf(f.bad)} : f \in Faults}

\* Which of these trees the theorems of ScanProofs with a hypothesis are about.
ASSUME HypothesisHolds ==
    /\ DevicesSettled <=> Dev \in {OneDevice, TwoShares}
    /\ SharesMountedOnce <=> Dev # TwiceMounted

Workers == {w1, w2}
Symmetry == Permutations(Workers)
=============================================================================
