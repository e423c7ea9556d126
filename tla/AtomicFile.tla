----------------------------- MODULE AtomicFile -----------------------------
(***************************************************************************)
(* cmd/osfp, atomic.go, and the way baseline.go and compare.go use it: one *)
(* output file, the runs of osfp that write it, the signals that stop them *)
(* and the machine that crashes under them.                                *)
(*                                                                         *)
(* The file system is modelled from how atomic.go uses it.  An inode has a *)
(* content in the page cache and one on disk, and a crash keeps for each   *)
(* block either of the two.  The directory is ordered but lazy: a crash    *)
(* goes back to any state it had since it was last synced.                 *)
(***************************************************************************)
EXTENDS Integers, SequencesExt

CONSTANTS
    Run,         \* the runs of baseline (and of compare -o) on this file
    Earlier,     \* the run that wrote the file they may find there
    Inode,
    None,        \* no inode
    Hole,        \* what a block nobody wrote holds
    Chunks,      \* how many writes of the buffer a fingerprint takes
    MaxCrashes   \* bound

ASSUME AtomicFileAssumption ==
    /\ Chunks \in Nat \ {0} /\ MaxCrashes \in Nat
    /\ None \notin Inode
    /\ Hole # Earlier /\ Earlier \notin Run /\ Hole \notin Run

VARIABLES
    dirs,      \* the states of the directory since it was last synced; the last is current
    cache, disk,     \* the content of each inode
    pc,        \* where each run is
    force,     \* the runs that may replace the file: --force, or compare -o
    file,      \* the inode a run has open
    off,       \* how many blocks it has written
    renames,   \* the runs in the order of their renames
    looked,    \* how many renames there had been when a run looked for the target
    apart,     \* no run has begun while another was under way
    crashes

vars == <<dirs, cache, disk, pc, force, file, off, renames, looked, apart, crashes>>

Block   == Run \cup {Earlier, Hole}
Content == [1 .. Chunks -> Block]
Blank   == [k \in 1 .. Chunks |-> Hole]
Dir     == [{"final", "tmp"} -> Inode \cup {None}]

dir == Last(dirs)

\* Every operation on a name adds a state to the directory's history.
SetDir(d) == dirs' = Append(dirs, d)

\* A run between its check of the target and its end.
Alive(r)  == pc[r] \in {"checked", "writing", "flushed", "synced", "closed", "renamed"}
Ended     == {"refused", "failed", "done", "killed"}
Goto(r, l) == pc' = [pc EXCEPT ![r] = l]

\* An inode no name of the directory, past or current, and no run holds.
Unused == {i \in Inode : /\ \A k \in 1 .. Len(dirs) : i \notin {dirs[k].final, dirs[k].tmp}
                         /\ \A r \in Run : file[r] # i}

Init ==
    /\ \E there \in Inode \cup {None} : dirs = <<[final |-> there, tmp |-> None]>>
    /\ disk = [i \in Inode |-> IF i = dir.final THEN [k \in 1 .. Chunks |-> Earlier] ELSE Blank]
    /\ cache = disk
    /\ pc = [r \in Run |-> "new"]
    /\ force \in SUBSET Run
    /\ file = [r \in Run |-> None]
    /\ off = [r \in Run |-> 0]
    /\ renames = <<>>
    /\ looked = [r \in Run |-> 0]
    /\ apart = TRUE
    /\ crashes = 0

\* Mutant: the flag turns the check on instead of off.
MayStartSwapped(r) == r \notin force \/ dir.final = None
MayStart(r) == r \in force \/ dir.final = None

\* runBaseline: os.Stat of the target, unless --force.
Check(r) ==
    /\ pc[r] = "new"
    /\ Goto(r, IF MayStart(r) THEN "checked" ELSE "refused")
    /\ looked' = [looked EXCEPT ![r] = Len(renames)]
    /\ apart' = (apart /\ \A s \in Run : ~Alive(s))
    /\ UNCHANGED <<dirs, cache, disk, force, file, off, renames, crashes>>

\* createAtomic: O_CREATE and O_TRUNC on the one temporary name of the target.
Create(r) ==
    /\ pc[r] = "checked"
    /\ \/ /\ dir.tmp # None
          /\ file' = [file EXCEPT ![r] = dir.tmp]
          /\ cache' = [cache EXCEPT ![dir.tmp] = Blank]
          /\ UNCHANGED <<dirs, disk>>
       \/ \E i \in Unused :
          /\ dir.tmp = None
          /\ file' = [file EXCEPT ![r] = i]
          /\ cache' = [cache EXCEPT ![i] = Blank]
          /\ disk' = [disk EXCEPT ![i] = Blank]
          /\ SetDir([dir EXCEPT !.tmp = i])
    /\ Goto(r, "writing")
    /\ UNCHANGED <<force, off, renames, looked, apart, crashes>>

\* Mutant: one block too many.
MoreToWriteOne(r) == off[r] <= Chunks
MoreToWrite(r) == off[r] < Chunks

\* The buffer is written out, in the course of the scan or by the Flush of Commit.
Write(r) ==
    /\ pc[r] = "writing"
    /\ MoreToWrite(r)
    /\ off' = [off EXCEPT ![r] = @ + 1]
    /\ cache' = [cache EXCEPT ![file[r]][off[r] + 1] = r]
    /\ UNCHANGED <<dirs, disk, pc, force, file, renames, looked, apart, crashes>>

\* Mutant: Commit closes the file without syncing it.
AfterFlushNoSync == "synced"
AfterFlush == "flushed"

\* Commit: the Flush has succeeded.
Flushed(r) ==
    /\ pc[r] = "writing"
    /\ off[r] = Chunks
    /\ Goto(r, AfterFlush)
    /\ UNCHANGED <<dirs, cache, disk, force, file, off, renames, looked, apart, crashes>>

Sync(r) ==
    /\ pc[r] = "flushed"
    /\ disk' = [disk EXCEPT ![file[r]] = cache[file[r]]]
    /\ Goto(r, "synced")
    /\ UNCHANGED <<dirs, cache, force, file, off, renames, looked, apart, crashes>>

Close(r) ==
    /\ pc[r] = "synced"
    /\ file' = [file EXCEPT ![r] = None]
    /\ Goto(r, "closed")
    /\ UNCHANGED <<dirs, cache, disk, force, off, renames, looked, apart, crashes>>

\* Mutant: Commit does not sync the directory.
AfterRenameNoSync == "done"
AfterRename == "renamed"

Rename(r) ==
    /\ pc[r] = "closed"
    /\ dir.tmp # None
    /\ SetDir([final |-> dir.tmp, tmp |-> None])
    /\ renames' = Append(renames, r)
    /\ Goto(r, AfterRename)
    /\ UNCHANGED <<cache, disk, force, file, off, looked, apart, crashes>>

\* syncDir, the end of Commit; the error of its own it may return changes nothing.
SyncDir(r) ==
    /\ pc[r] = "renamed"
    /\ \/ dirs' = <<dir>> /\ Goto(r, "done")
       \/ UNCHANGED dirs /\ Goto(r, "failed")
    /\ UNCHANGED <<cache, disk, force, file, off, renames, looked, apart, crashes>>

\* os.Remove of the temporary name, if it is still there.
\* Mutant: the file is closed and forgotten.
RemoveTmpNot == UNCHANGED dirs
RemoveTmp == IF dir.tmp = None THEN UNCHANGED dirs ELSE SetDir([dir EXCEPT !.tmp = None])

\* Abort, after an interrupt or an error of the scan, and the error branches of
\* Commit before the rename has happened.
GiveUp(r) ==
    /\ pc[r] \in {"writing", "flushed", "synced", "closed"}
    /\ RemoveTmp
    /\ file' = [file EXCEPT ![r] = None]
    /\ Goto(r, "failed")
    /\ UNCHANGED <<cache, disk, force, off, renames, looked, apart, crashes>>

\* createAtomic cannot open the temporary file.
CreateFails(r) ==
    /\ pc[r] = "checked"
    /\ Goto(r, "failed")
    /\ UNCHANGED <<dirs, cache, disk, force, file, off, renames, looked, apart, crashes>>

\* SIGKILL: nothing of the run's own code is executed any more.
Kill(r) ==
    /\ Alive(r)
    /\ Goto(r, "killed")
    /\ file' = [file EXCEPT ![r] = None]
    /\ UNCHANGED <<dirs, cache, disk, force, off, renames, looked, apart, crashes>>

\* The machine crashes: an earlier directory, and for each block one of its two values.
Crash ==
    /\ crashes < MaxCrashes
    /\ crashes' = crashes + 1
    /\ \E k \in 1 .. Len(dirs) : dirs' = <<dirs[k]>>
    /\ disk' \in {d \in [Inode -> Content] :
                    \A i \in Inode, k \in 1 .. Chunks : d[i][k] \in {disk[i][k], cache[i][k]}}
    /\ cache' = disk'
    /\ pc' = [r \in Run |-> IF Alive(r) THEN "killed" ELSE pc[r]]
    /\ file' = [r \in Run |-> None]
    /\ UNCHANGED <<force, off, renames, looked, apart>>

\* Every run has ended.
Idle ==
    /\ \A r \in Run : pc[r] \in Ended
    /\ UNCHANGED vars

Step(r) ==
    \/ Check(r) \/ Create(r) \/ CreateFails(r) \/ Write(r) \/ Flushed(r) \/ Sync(r)
    \/ Close(r) \/ Rename(r) \/ SyncDir(r) \/ GiveUp(r) \/ Kill(r)

Next == (\E r \in Run : Step(r)) \/ Crash \/ Idle

Spec == Init /\ [][Next]_vars

-----------------------------------------------------------------------------

TypeOK ==
    /\ dirs \in Seq(Dir) /\ dirs # <<>>
    /\ cache \in [Inode -> Content] /\ disk \in [Inode -> Content]
    /\ pc \in [Run -> {"new", "checked", "writing", "flushed", "synced", "closed", "renamed"}
                        \cup Ended]
    /\ force \subseteq Run
    /\ file \in [Run -> Inode \cup {None}]
    /\ \A r \in Run : pc[r] \in {"writing", "flushed", "synced"} <=> file[r] # None
    /\ off \in [Run -> 0 .. Chunks]
    /\ renames \in Seq(Run)
    /\ looked \in [Run -> Nat]
    /\ apart \in BOOLEAN
    /\ crashes \in 0 .. MaxCrashes

Whole(i, r) == \A k \in 1 .. Chunks : cache[i][k] = r

Complete == dir.final # None => \E r \in Run \cup {Earlier} : Whole(dir.final, r)

\* "The file either is not there or is complete": as long as no two runs have been under
\* way at the same time, there is never anything under the final name but all the blocks
\* of one run, whatever step a signal, an error or a crash of the machine stops a run at
\* (Commit, Abort).
FinalIsWhole == apart => Complete

\* Of runs one after the other, one that ended well has its file there for good: after
\* any crash the final name holds that file or that of a run that renamed later (syncDir:
\* "without it, a crash could leave the rename unrecorded").
DoneIsDurable ==
    \A i \in 1 .. Len(renames) :
        apart /\ pc[renames[i]] = "done" =>
            /\ dir.final # None
            /\ \E j \in i .. Len(renames) : Whole(dir.final, renames[j])

\* Without --force, a run spares what it found: if there is a file to replace at the rename,
\* another run has renamed it there during the scan, however many runs overlap and whatever
\* a crash brings back (runBaseline's os.Stat, long before Commit).
NoForceSparesFound ==
    [][\A r \in Run : renames' = Append(renames, r) /\ r \notin force
                        => dir.final = None \/ looked[r] < Len(renames)]_vars

\* "An interrupt must unwind it cleanly, remove the partial file": of runs one after the
\* other, one that ends by itself leaves no temporary file (Abort, and each error branch
\* of Commit).
NoLeftover ==
    [][\A r \in Run : apart /\ Alive(r) /\ pc[r] # "checked" /\ pc'[r] \in {"failed", "done"}
                        => dir'.tmp = None]_vars

-----------------------------------------------------------------------------
(* What a message says, and the code does not do when runs overlap: then   *)
(* it does not keep Complete either, since they have one temporary file.   *)

\* "Already exists; pass --force to overwrite it": without the flag, a run replaces no
\* file, not even one that appeared during its scan (runBaseline).
NoForceKeeps ==
    [][\A r \in Run : renames' = Append(renames, r) /\ r \notin force
                        => dir.final = None]_vars
=============================================================================
