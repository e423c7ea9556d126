------------------------------ MODULE ScanPlan ------------------------------
(***************************************************************************)
(* The correctness of Scan against the depth-first walk of the tree.       *)
(*                                                                         *)
(* Plan is the sequence of entries a walk must produce, written from the   *)
(* tree alone: it knows no cell, no worker and no goroutine, and takes the *)
(* parent's device from the parent.                                        *)
(***************************************************************************)
EXTENDS Scan, SequencesExt

Parent(n) == CHOOSE p \in Node : Contains(Kids[p], n)

\* The paths at n and below it: those in every set with n and what its members hold.
Subtree(n) ==
    {q \in Node : \A S \in SUBSET Node :
        n \in S /\ (\A p \in S, k \in Node : Contains(Kids[p], k) => k \in S) => q \in S}

\* A path is in one directory, and no directory is in itself.
ASSUME ForestAssumption ==
    /\ \A n, p, q \in Node : Contains(Kids[p], n) /\ Contains(Kids[q], n) => p = q
    /\ \A p, k \in Node : Contains(Kids[p], k) => p \notin Subtree(k)

\* Reading a directory names what is in it, each once.
ASSUME ListingAssumption ==
    \A w \in World, p \in Node :
        /\ \A i \in 1 .. Len(w.listing[p]) : Contains(Kids[p], w.listing[p][i])
        /\ \A i, j \in 1 .. Len(w.listing[p]) : w.listing[p][i] = w.listing[p][j] => i = j

\* The entry a path ends up with once it has been read and hashed.
FinalEntry(w, n, entered) ==
    LET e == VisitEntry(w, n, entered)
    IN  IF Kind[n] = "file" /\ ~NoHash THEN HashEntry(w, e) ELSE e

Entered(n, depth, parentDev) == Kind[n] = "dir" /\ MayDescend(n, depth, parentDev)

\* The entries of the subtree of n, given those of each list of children.
VisitPlan(w, below, n, depth, parentDev) ==
    LET entered == Entered(n, depth, parentDev)
    IN  <<FinalEntry(w, n, entered)>> \o
        (IF entered THEN below[<<w.listing[n], depth + 1, Dev[n]>>] ELSE <<>>)

\* The same of a child, which may be excluded or have vanished.
ChildPlan(w, below, n, depth, parentDev) ==
    IF n \in Excluded THEN <<>>
    ELSE IF n \in w.gone THEN <<LostEntry(n)>>
    ELSE VisitPlan(w, below, n, depth, parentDev)

\* The children of a directory, their depth and its device.
Lists == Seq(Node) \X Nat \X Nat

\* The entries of these children, one after the other.
ChildrenPlan(w) ==
    LET below[l \in Lists] ==
          IF l[1] = <<>> THEN <<>>
          ELSE ChildPlan(w, below, Head(l[1]), l[2], l[3]) \o below[<<Tail(l[1]), l[2], l[3]>>]
    IN  below

Plan == [w \in World |-> VisitPlan(w, ChildrenPlan(w), Root, 0, Dev[Root])]

\* Scan implements OrderedScan: whatever the interleaving of the walker, the
\* workers and the consumer, emit sees the depth-first walk, each entry once and
\* with the outcome of its hash already in it; a nil result means all of it, and
\* a cancelled one that something is missing (Walk, visit, ring, hasher).
Abstract == INSTANCE OrderedScan WITH
    Plans <- {Plan[w] : w \in World}, plan <- Plan[world],
    failed <- emitErr, out <- emitted

ImplementsOrderedScan == Abstract!Spec

\* It does so under a condition, since the device of a directory is read from its cell
\* when the cell may already be another's: no answer depends on that device; or every
\* entry has it; or there is a cell for each entry, and none is used twice; or the walk
\* stops at shares, and the rule answers alike for every device the cell can hold.
EveryMountCrossed == \A n \in Node : Kind[n] = "dir" => CrossMount(n)

\* The entry of a vanished path has no device: none must vanish.
OneFilesystem ==
    /\ \A m, n \in Node : Dev[m] = Dev[n]
    /\ \A w \in World : w.gone = {}

CellForEach == \A w \in World : Len(Plan[w]) <= RingSize

\* A path on a share whose directory is on another device.
MountPoint(n) == n # Root /\ Dev[n] \notin LocalDev /\ Dev[Parent(n)] # Dev[n]

\* No share is mounted twice: the device read from a cell used again is then never the
\* one of the next share, however small the ring is.  The device of
\* an entry whose stat failed is 0, which no share has.
SharesMountedOnce ==
    /\ \A m, n \in Node : MountPoint(m) /\ MountPoint(n) /\ Dev[m] = Dev[n] => m = n
    /\ \A n \in Node : Dev[n] = 0 => n = Root \/ Dev[n] \in LocalDev

SharesStop == Mounts = "local" /\ Dev[Root] \in LocalDev /\ SharesMountedOnce

DevicesSettled == EveryMountCrossed \/ OneFilesystem \/ CellForEach \/ SharesStop

-----------------------------------------------------------------------------
(* The mount-point rule.                                                   *)

\* "A different device than the parent's means a mount point" (mayDescend): a
\* directory is recorded as a mount that was not crossed only when its device
\* differs from its parent's.
SkippedAreMounts ==
    \A i \in 1 .. Len(skipped) : Dev[skipped[i]] # Dev[Parent(skipped[i])]

\* --mounts=local "stops at pseudo and network ones": starting from a local
\* filesystem, nothing the walk emits lies under a directory of a share.
SharesAreNotEntered ==
    (Mounts = "local" /\ Dev[Root] \in LocalDev) =>
        \A i \in 1 .. Len(emitted) :
            emitted[i].path # Root => Dev[Parent(emitted[i].path)] \in LocalDev
=============================================================================
