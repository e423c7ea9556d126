---------------------------- MODULE MCAtomicFile ----------------------------
(***************************************************************************)
(* Two runs on one target, with an inode for each and one for the file     *)
(* they may find there.  The specification does not tell inodes apart, nor *)
(* runs, so that permuting them is sound.                                  *)
(***************************************************************************)
EXTENDS AtomicFile, TLC

CONSTANTS i1, i2, i3, r1, r2

Inodes == {i1, i2, i3}
Runs   == {r1, r2}

Symmetric == Permutations(Inodes) \cup Permutations(Runs)
=============================================================================
