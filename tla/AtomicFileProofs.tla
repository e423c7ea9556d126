-------------------------- MODULE AtomicFileProofs --------------------------
(***************************************************************************)
(* A file that is written through a temporary name is whole whenever it    *)
(* has its final name, and stays so: for any number of runs one after the  *)
(* other, any number of crashes and any length.  A run without --force     *)
(* replaces no file it found, however many there are at the same time.     *)
(*                                                                         *)
(* The argument: what has ever had the final name, in any directory a      *)
(* crash may bring back, is the same in the cache and on disk; and the     *)
(* only inode anybody writes to is the current temporary one, which never  *)
(* had the final name.                                                     *)
(***************************************************************************)
EXTENDS AtomicFile, FiniteSetTheorems, SequenceTheorems, TLAPS

\* An inode holds the blocks of one run, in the cache and on disk.
Pure(i, r) == \A k \in 1 .. Chunks : cache[i][k] = r /\ disk[i][k] = r

\* There is never more than one run.
OneAtATime == \A r, s \in Run : Alive(r) /\ Alive(s) => r = s

\* Whatever directory a crash brings back, its final name is that of a whole file.
FinalsArePure ==
    \A k \in 1 .. Len(dirs) :
        dirs[k].final # None => \E r \in Run \cup {Earlier} : Pure(dirs[k].final, r)

\* A temporary file had the final name in no earlier directory.
TmpIsFresh ==
    \A k \in 1 .. Len(dirs) : \A l \in 1 .. k :
        dirs[k].tmp # None => dirs[l].final # dirs[k].tmp

\* What a run has done so far, by where it is.
Progress(r) ==
    /\ pc[r] \in {"new", "checked"} => off[r] = 0
    /\ file[r] # None => file[r] = dir.tmp
    /\ pc[r] \in {"writing", "flushed"} => \A k \in 1 .. off[r] : cache[dir.tmp][k] = r
    /\ pc[r] = "flushed" => off[r] = Chunks
    /\ pc[r] \in {"synced", "closed"} => (dir.tmp # None => Pure(dir.tmp, r))
    /\ pc[r] = "renamed" => /\ renames # <<>> /\ Last(renames) = r
                            /\ dir.tmp = None /\ dir.final # None /\ Pure(dir.final, r)

\* After a run that ended well, every directory a crash may bring back has its file or
\* a later one.
DoneIsInEveryDir ==
    \A i \in 1 .. Len(renames) :
        pc[renames[i]] = "done" =>
            \A k \in 1 .. Len(dirs) :
                /\ dirs[k].final # None
                /\ \E j \in i .. Len(renames) : Pure(dirs[k].final, renames[j])

AInv ==
    /\ TypeOK
    /\ OneAtATime
    /\ FinalsArePure
    /\ TmpIsFresh
    /\ \A r \in Run : Progress(r)
    /\ DoneIsInEveryDir

-----------------------------------------------------------------------------
(* The directory and its history.                                          *)

\* A state of the directory says what each of its two names is.
LEMMA DirFields ==
    /\ \A d \in Dir : d.final \in Inode \cup {None} /\ d.tmp \in Inode \cup {None}
    /\ \A f, t \in Inode \cup {None} : [final |-> f, tmp |-> t] \in Dir
    /\ \A d \in Dir, t \in Inode \cup {None} :
          /\ [d EXCEPT !.tmp = t] \in Dir
          /\ [d EXCEPT !.tmp = t].tmp = t
          /\ [d EXCEPT !.tmp = t].final = d.final
<1>1. ASSUME NEW f \in Inode \cup {None}, NEW t \in Inode \cup {None}
      PROVE  [final |-> f, tmp |-> t] \in Dir
  BY DEF Dir
<1> QED BY <1>1 DEF Dir

\* The current directory is one of the history.
LEMMA DirTyped ==
    ASSUME TypeOK
    PROVE  /\ Len(dirs) \in Nat \ {0} /\ dir = dirs[Len(dirs)] /\ dir \in Dir
           /\ \A k \in 1 .. Len(dirs) : dirs[k] \in Dir
<1>1. dirs \in Seq(Dir) /\ dirs # <<>>
  BY DEF TypeOK
<1>2. Len(dirs) \in Nat \ {0}
  BY <1>1, EmptySeq
<1> QED BY <1>1, <1>2 DEF dir, Last

\* An operation on a name adds a state to the history and changes no earlier one.
LEMMA SetDirEffect ==
    ASSUME TypeOK, NEW d \in Dir, SetDir(d)
    PROVE  /\ dirs' \in Seq(Dir) /\ dirs' # <<>>
           /\ Len(dirs') = Len(dirs) + 1
           /\ \A k \in 1 .. Len(dirs) : dirs'[k] = dirs[k]
           /\ dirs'[Len(dirs) + 1] = d
           /\ dir' = d
<1>1. dirs \in Seq(Dir) /\ dirs' = Append(dirs, d)
  BY DEF TypeOK, SetDir
<1>2. /\ dirs' \in Seq(Dir) /\ dirs' # <<>> /\ Len(dirs') = Len(dirs) + 1
      /\ \A k \in 1 .. Len(dirs) : dirs'[k] = dirs[k]
      /\ dirs'[Len(dirs) + 1] = d
  BY <1>1, AppendProperties
<1> QED BY <1>2 DEF dir, Last

\* Removing the temporary name keeps the final one.
LEMMA RemoveTmpEffect ==
    ASSUME TypeOK, RemoveTmp
    PROVE  /\ dirs' \in Seq(Dir) /\ dirs' # <<>>
           /\ dir' \in Dir /\ dir'.tmp = None /\ dir'.final = dir.final
           /\ Len(dirs') \in {Len(dirs), Len(dirs) + 1}
           /\ \A k \in 1 .. Len(dirs) : dirs'[k] = dirs[k]
           /\ dirs'[Len(dirs')] = dir'
<1>1. CASE dir.tmp = None
  <2>1. dirs' = dirs
    BY <1>1 DEF RemoveTmp
  <2> QED BY <1>1, <2>1, DirTyped DEF dir, TypeOK
<1>2. CASE dir.tmp # None
  <2> DEFINE d == [dir EXCEPT !.tmp = None]
  <2>1. SetDir(d)
    BY <1>2 DEF RemoveTmp
  <2>2. d \in Dir /\ d.tmp = None /\ d.final = dir.final
    BY DirTyped, DirFields
  <2> HIDE DEF d
  <2> QED BY <2>1, <2>2, SetDirEffect
<1> QED BY <1>1, <1>2

-----------------------------------------------------------------------------
(* Types.                                                                  *)

\* No name, past or current, and no run holds an unused inode.
LEMMA UnusedIsFree ==
    ASSUME NEW i \in Unused
    PROVE  /\ i \in Inode /\ i # None
           /\ \A k \in 1 .. Len(dirs) : dirs[k].final # i /\ dirs[k].tmp # i
           /\ \A r \in Run : file[r] # i
BY AtomicFileAssumption DEF Unused

LEMMA BlankTyped == Blank \in Content
BY DEF Blank, Content, Block

LEMMA InitTyped == Init => TypeOK
<1> SUFFICES ASSUME Init PROVE TypeOK
  OBVIOUS
<1>1. PICK there \in Inode \cup {None} : dirs = <<[final |-> there, tmp |-> None]>>
  BY DEF Init
<1>2. dirs \in Seq(Dir) /\ dirs # <<>>
  BY <1>1, DirFields
<1>3. [k \in 1 .. Chunks |-> Earlier] \in Content
  BY DEF Content, Block
<1>4. disk \in [Inode -> Content] /\ cache \in [Inode -> Content]
  BY <1>3, BlankTyped DEF Init
<1>5. /\ pc \in [Run -> {"new"}] /\ file \in [Run -> {None}] /\ off \in [Run -> 0 .. Chunks]
      /\ force \subseteq Run /\ renames \in Seq(Run) /\ looked \in [Run -> Nat]
      /\ apart \in BOOLEAN /\ crashes \in 0 .. MaxCrashes
  BY AtomicFileAssumption DEF Init
<1> QED BY <1>2, <1>4, <1>5 DEF TypeOK

\* The steps of a run that change nothing on the file system.
LEMMA QuietTyped ==
    ASSUME TypeOK, NEW r \in Run,
           \/ Check(r) \/ CreateFails(r) \/ Flushed(r) \/ Close(r) \/ Kill(r)
    PROVE  TypeOK'
<1> USE DEF TypeOK, Goto, Ended, Alive
<1>1. CASE Check(r) \/ CreateFails(r)
  <2>1. Len(renames) \in Nat
    OBVIOUS
  <2>2. looked' \in [Run -> Nat]
    BY <1>1, <2>1 DEF Check, CreateFails
  <2>3. pc' \in [Run -> {"new", "checked", "writing", "flushed", "synced", "closed", "renamed"}
                        \cup Ended]
    BY <1>1 DEF Check, CreateFails
  <2>4. /\ UNCHANGED <<dirs, cache, disk, force, file, off, renames, crashes>>
        /\ pc[r] \in {"new", "checked"} /\ pc' = [pc EXCEPT ![r] = pc'[r]]
        /\ pc'[r] \in {"checked", "refused", "failed"}
    BY <1>1 DEF Check, CreateFails
  <2>5. apart' \in BOOLEAN
    BY <1>1 DEF Check, CreateFails
  <2> QED BY <2>2, <2>3, <2>4, <2>5
<1>2. CASE Flushed(r)
  BY <1>2 DEF Flushed, AfterFlush
<1>3. CASE Close(r) \/ Kill(r)
  BY <1>3 DEF Close, Kill
<1> QED BY <1>1, <1>2, <1>3

LEMMA CreateTyped == ASSUME TypeOK, NEW r \in Run, Create(r) PROVE TypeOK'
<1>1. /\ pc[r] = "checked" /\ pc' = [pc EXCEPT ![r] = "writing"]
      /\ UNCHANGED <<force, off, renames, looked, apart, crashes>>
  BY DEF Create, Goto
<1>2. ASSUME NEW i \in Inode, i # None, file' = [file EXCEPT ![r] = i],
             cache' = [cache EXCEPT ![i] = Blank], disk' = [disk EXCEPT ![i] = Blank] \/ UNCHANGED disk,
             dirs' \in Seq(Dir), dirs' # <<>>
      PROVE  TypeOK'
  <2>1. cache' \in [Inode -> Content] /\ disk' \in [Inode -> Content]
    <3>1. \A f \in [Inode -> Content] : [f EXCEPT ![i] = Blank] \in [Inode -> Content]
      BY BlankTyped
    <3>2. cache \in [Inode -> Content] /\ disk \in [Inode -> Content]
      BY DEF TypeOK
    <3>3. cache' \in [Inode -> Content]
      BY <1>2, <3>1, <3>2
    <3>4. disk' \in [Inode -> Content]
      BY <1>2, <3>1, <3>2
    <3> QED BY <3>3, <3>4
  <2>2. /\ pc' \in [Run -> {"new", "checked", "writing", "flushed", "synced", "closed", "renamed"}
                        \cup Ended]
        /\ file' \in [Run -> Inode \cup {None}]
        /\ \A s \in Run : pc'[s] \in {"writing", "flushed", "synced"} <=> file'[s] # None
    BY <1>1, <1>2 DEF TypeOK
  <2> QED BY <1>1, <1>2, <2>1, <2>2 DEF TypeOK
<1>3. CASE /\ dir.tmp # None /\ file' = [file EXCEPT ![r] = dir.tmp]
           /\ cache' = [cache EXCEPT ![dir.tmp] = Blank] /\ UNCHANGED <<dirs, disk>>
  BY <1>2, <1>3, DirTyped, DirFields DEF TypeOK
<1>4. ASSUME NEW i \in Unused, file' = [file EXCEPT ![r] = i],
             cache' = [cache EXCEPT ![i] = Blank], disk' = [disk EXCEPT ![i] = Blank],
             SetDir([dir EXCEPT !.tmp = i])
      PROVE  TypeOK'
  BY <1>2, <1>4, UnusedIsFree, SetDirEffect, DirTyped, DirFields
<1> QED BY <1>3, <1>4 DEF Create

LEMMA WriteTyped == ASSUME TypeOK, NEW r \in Run, Write(r) PROVE TypeOK'
<1>1. file[r] \in Inode /\ off[r] + 1 \in 1 .. Chunks
  BY AtomicFileAssumption DEF TypeOK, Write, MoreToWrite
<1>2. cache' \in [Inode -> Content]
  BY <1>1 DEF TypeOK, Write, Content, Block
<1>3. off' \in [Run -> 0 .. Chunks]
  BY <1>1 DEF TypeOK, Write
<1> QED BY <1>2, <1>3 DEF TypeOK, Write

LEMMA SyncTyped == ASSUME TypeOK, NEW r \in Run, Sync(r) PROVE TypeOK'
<1>1. file[r] \in Inode
  BY DEF TypeOK, Sync
<1>2. disk' \in [Inode -> Content]
  BY <1>1 DEF TypeOK, Sync
<1> QED BY <1>2 DEF TypeOK, Sync, Goto

\* The steps that change the directory alone.
LEMMA NameTyped ==
    ASSUME TypeOK, NEW r \in Run, Rename(r) \/ SyncDir(r) \/ GiveUp(r)
    PROVE  TypeOK'
<1>1. CASE Rename(r)
  <2>1. [final |-> dir.tmp, tmp |-> None] \in Dir
    BY DirTyped, DirFields
  <2>2. dirs' \in Seq(Dir) /\ dirs' # <<>>
    BY <1>1, <2>1, SetDirEffect DEF Rename
  <2>3. renames' \in Seq(Run)
    BY <1>1, AppendProperties DEF Rename, TypeOK
  <2> QED BY <1>1, <2>2, <2>3 DEF Rename, TypeOK, Goto, AfterRename
<1>2. CASE SyncDir(r)
  <2>1. dirs' \in Seq(Dir) /\ dirs' # <<>>
    <3>1. <<dir>> \in Seq(Dir) /\ <<dir>> # <<>>
      BY DirTyped
    <3>2. dirs' = <<dir>> \/ dirs' = dirs
      BY <1>2 DEF SyncDir
    <3> QED BY <3>1, <3>2 DEF TypeOK
  <2> QED BY <1>2, <2>1 DEF SyncDir, TypeOK, Goto, Ended
<1>3. CASE GiveUp(r)
  <2>1. dirs' \in Seq(Dir) /\ dirs' # <<>>
    BY <1>3, RemoveTmpEffect DEF GiveUp
  <2> QED BY <1>3, <2>1 DEF GiveUp, TypeOK, Goto, Ended
<1> QED BY <1>1, <1>2, <1>3

LEMMA CrashTyped == ASSUME TypeOK, Crash PROVE TypeOK'
<1>1. dirs' \in Seq(Dir) /\ dirs' # <<>>
  BY DirTyped DEF Crash
<1>2. disk' \in [Inode -> Content] /\ cache' \in [Inode -> Content]
  BY DEF Crash
<1>3. crashes' \in 0 .. MaxCrashes
  BY AtomicFileAssumption DEF Crash, TypeOK
<1> QED BY <1>1, <1>2, <1>3 DEF Crash, TypeOK, Alive, Ended

LEMMA StepTyped == TypeOK /\ [Next]_vars => TypeOK'
<1> SUFFICES ASSUME TypeOK, [Next]_vars PROVE TypeOK'
  OBVIOUS
<1>1. CASE \E r \in Run : Step(r)
  BY <1>1, QuietTyped, CreateTyped, WriteTyped, SyncTyped, NameTyped DEF Step
<1>2. CASE UNCHANGED vars
  BY <1>2 DEF vars, TypeOK
<1> QED BY <1>1, <1>2, CrashTyped DEF Next, Idle

-----------------------------------------------------------------------------
(* One run at a time.                                                      *)

\* What is said of a run that is not between its check and its end.
LEMMA RestingProgress ==
    ASSUME TypeOK, NEW r \in Run, ~Alive(r), Progress(r),
           pc'[r] = pc[r], off'[r] = off[r], file'[r] = file[r]
    PROVE  Progress(r)'
<1>1. file[r] = None
  BY DEF TypeOK, Alive
<1>2. pc[r] \notin {"checked", "writing", "flushed", "synced", "closed", "renamed"}
  BY DEF Alive
<1> QED BY <1>1, <1>2 DEF Progress

\* A run that leaves apart as it is starts when no other is under way.
LEMMA StartsAlone ==
    ASSUME apart', NEW r \in Run, Check(r)
    PROVE  \A s \in Run : ~Alive(s)
BY DEF Check

\* A step of one run leaves the others where they are.
LEMMA StepIsLocal ==
    ASSUME TypeOK, NEW r \in Run, Step(r), NEW s \in Run, s # r
    PROVE  pc'[s] = pc[s] /\ off'[s] = off[s] /\ file'[s] = file[s]
<1> USE DEF TypeOK, Goto
<1>1. CASE Check(r) \/ CreateFails(r) \/ Flushed(r) \/ Close(r) \/ Kill(r)
  BY <1>1 DEF Check, CreateFails, Flushed, Close, Kill
<1>2. CASE Create(r)
  BY <1>2 DEF Create
<1>3. CASE Write(r) \/ Sync(r) \/ Rename(r)
  BY <1>3 DEF Write, Sync, Rename
<1>4. CASE SyncDir(r) \/ GiveUp(r)
  BY <1>4 DEF SyncDir, GiveUp
<1> QED BY <1>1, <1>2, <1>3, <1>4 DEF Step

\* Every step of a run but its first is one of the run that is under way.
LEMMA StepIsOfAlive ==
    ASSUME TypeOK, NEW r \in Run, Step(r)
    PROVE  Alive(r) \/ Check(r)
BY DEF Step, Alive, Create, CreateFails, Write, Flushed, Sync, Close, Rename, SyncDir, GiveUp, Kill

LEMMA OneStep ==
    ASSUME apart', TypeOK, OneAtATime, NEW r \in Run, Step(r)
    PROVE  OneAtATime'
<1>1. \A s \in Run : s # r => (Alive(s)' <=> Alive(s))
  BY StepIsLocal DEF Alive
<1>2. \A s \in Run : s # r => ~Alive(s)
  BY StepIsOfAlive, StartsAlone DEF OneAtATime
<1> QED BY <1>1, <1>2 DEF OneAtATime

-----------------------------------------------------------------------------
(* What keeps the final name as it is.                                     *)

\* No directory of the new history has a final name that none of the old one had.
NoNewFinal ==
    \A k \in 1 .. Len(dirs)' : \E l \in 1 .. Len(dirs) : dirs'[k].final = dirs[l].final

\* What has the final name somewhere is not written to.
FinalsUntouched ==
    \A k \in 1 .. Len(dirs) :
        dirs[k].final # None => /\ cache'[dirs[k].final] = cache[dirs[k].final]
                                /\ disk'[dirs[k].final] = disk[dirs[k].final]

LEMMA FinalsKept ==
    ASSUME FinalsArePure, NoNewFinal, FinalsUntouched
    PROVE  FinalsArePure'
<1> SUFFICES ASSUME NEW k \in 1 .. Len(dirs)', dirs'[k].final # None
             PROVE  \E r \in Run \cup {Earlier} : Pure(dirs[k].final, r)'
  BY DEF FinalsArePure
<1>1. PICK l \in 1 .. Len(dirs) : dirs'[k].final = dirs[l].final
  BY DEF NoNewFinal
<1>2. PICK r \in Run \cup {Earlier} : Pure(dirs[l].final, r)
  BY <1>1 DEF FinalsArePure
<1> QED BY <1>1, <1>2 DEF FinalsUntouched, Pure

LEMMA DoneKept ==
    ASSUME TypeOK, DoneIsInEveryDir, NoNewFinal, FinalsUntouched, UNCHANGED renames,
           \A r \in Run : pc'[r] = "done" => pc[r] = "done"
    PROVE  DoneIsInEveryDir'
<1> SUFFICES ASSUME NEW i \in 1 .. Len(renames), pc'[renames[i]] = "done",
                    NEW k \in 1 .. Len(dirs)'
             PROVE  /\ dirs'[k].final # None
                    /\ \E j \in i .. Len(renames) : Pure(dirs[k].final, renames[j])'
  BY DEF DoneIsInEveryDir
<1>1. pc[renames[i]] = "done"
  BY DEF TypeOK
<1>2. PICK l \in 1 .. Len(dirs) : dirs'[k].final = dirs[l].final
  BY DEF NoNewFinal
<1>3. PICK j \in i .. Len(renames) : dirs[l].final # None /\ Pure(dirs[l].final, renames[j])
  BY <1>1 DEF DoneIsInEveryDir
<1> QED BY <1>2, <1>3 DEF FinalsUntouched, Pure

\* A new state of the directory that keeps the final name and has a temporary one that
\* is free, or has none.
LEMMA NewDirKeeps ==
    ASSUME TypeOK, TmpIsFresh, NEW d \in Dir, SetDir(d), d.final = dir.final,
           d.tmp # None => \A k \in 1 .. Len(dirs) : dirs[k].final # d.tmp
    PROVE  NoNewFinal /\ TmpIsFresh'
<1>1. /\ Len(dirs) \in Nat \ {0} /\ Len(dirs') = Len(dirs) + 1
      /\ \A k \in 1 .. Len(dirs) : dirs'[k] = dirs[k]
      /\ dirs'[Len(dirs) + 1] = d
      /\ dir = dirs[Len(dirs)]
  BY SetDirEffect, DirTyped
<1>2. NoNewFinal
  <2> SUFFICES ASSUME NEW k \in 1 .. Len(dirs) + 1
               PROVE  \E l \in 1 .. Len(dirs) : dirs'[k].final = dirs[l].final
    BY <1>1 DEF NoNewFinal
  <2> QED BY <1>1
<1>3. TmpIsFresh'
  <2> SUFFICES ASSUME NEW k \in 1 .. Len(dirs) + 1, NEW l \in 1 .. k, dirs'[k].tmp # None
               PROVE  dirs'[l].final # dirs'[k].tmp
    BY <1>1 DEF TmpIsFresh
  <2>1. CASE k = Len(dirs) + 1 /\ l = Len(dirs) + 1
    BY <1>1, <2>1
  <2>2. CASE k = Len(dirs) + 1 /\ l # Len(dirs) + 1
    BY <1>1, <2>2
  <2>3. CASE k # Len(dirs) + 1
    BY <1>1, <2>3 DEF TmpIsFresh
  <2> QED BY <2>1, <2>2, <2>3
<1> QED BY <1>2, <1>3

LEMMA SameDirKeeps ==
    ASSUME TypeOK, TmpIsFresh, UNCHANGED dirs
    PROVE  NoNewFinal /\ TmpIsFresh' /\ dir' = dir
BY DEF NoNewFinal, TmpIsFresh, dir, Last

LEMMA RemoveTmpKeeps ==
    ASSUME TypeOK, TmpIsFresh, RemoveTmp
    PROVE  NoNewFinal /\ TmpIsFresh'
<1>1. CASE dir.tmp = None
  BY <1>1, SameDirKeeps DEF RemoveTmp
<1>2. CASE dir.tmp # None
  BY <1>2, NewDirKeeps, DirTyped, DirFields DEF RemoveTmp
<1> QED BY <1>1, <1>2

\* A write to the current temporary file, or to an unused one, touches no final one.
LEMMA TmpIsNoFinal ==
    ASSUME TypeOK, TmpIsFresh, dir.tmp # None
    PROVE  \A k \in 1 .. Len(dirs) : dirs[k].final # dir.tmp
BY DirTyped DEF TmpIsFresh

-----------------------------------------------------------------------------
(* The inductive invariant, action by action.                              *)

\* What has to be shown of a step: the rest concerns the other runs.
LEMMA StepKeeps ==
    ASSUME apart', AInv, NEW r \in Run, Step(r),
           Progress(r)', FinalsArePure', TmpIsFresh', DoneIsInEveryDir'
    PROVE  AInv'
<1>1. TypeOK'
  BY StepTyped DEF AInv, Next
<1>2. OneAtATime'
  BY OneStep DEF AInv
<1>3. ASSUME NEW s \in Run, s # r PROVE Progress(s)'
  <2>1. ~Alive(s)
    BY <1>3, StepIsOfAlive, StartsAlone DEF AInv, OneAtATime
  <2> QED BY <1>3, <2>1, StepIsLocal, RestingProgress DEF AInv
<1> QED BY <1>1, <1>2, <1>3 DEF AInv

LEMMA InitAInv == Init => AInv
<1> SUFFICES ASSUME Init PROVE AInv
  OBVIOUS
<1>1. TypeOK
  BY InitTyped
<1>2. PICK there \in Inode \cup {None} : dirs = <<[final |-> there, tmp |-> None]>>
  BY DEF Init
<1>3. Len(dirs) = 1 /\ dirs[1].final = there /\ dirs[1].tmp = None /\ dir = dirs[1]
  BY <1>2, DirTyped, <1>1
<1>4. FinalsArePure
  <2>1. there # None => Pure(there, Earlier)
    BY <1>3 DEF Init, Pure
  <2> QED BY <1>3, <2>1 DEF FinalsArePure
<1>5. OneAtATime /\ (\A r \in Run : Progress(r)) /\ DoneIsInEveryDir
  BY DEF Init, OneAtATime, Alive, Progress, DoneIsInEveryDir
<1>6. TmpIsFresh
  BY <1>3 DEF TmpIsFresh
<1> QED BY <1>1, <1>4, <1>5, <1>6 DEF AInv

\* The steps that change neither the directory nor the content of an inode.
LEMMA QuietKeeps ==
    ASSUME apart', AInv, NEW r \in Run,
           \/ Check(r) \/ CreateFails(r) \/ Flushed(r) \/ Close(r) \/ Kill(r)
    PROVE  AInv'
<1>1. /\ UNCHANGED <<dirs, cache, disk, force, off, renames>>
      /\ \E l : Goto(r, l) /\ l # "done"
      /\ Step(r)
  <2>1. UNCHANGED <<dirs, cache, disk, force, off, renames>> /\ Step(r)
    BY DEF Check, CreateFails, Flushed, Close, Kill, Step
  <2>2. \E l \in {"checked", "refused", "failed", "flushed", "closed", "killed"} : Goto(r, l)
    BY DEF Check, CreateFails, Flushed, AfterFlush, Close, Kill
  <2> QED BY <2>1, <2>2
<1>2. FinalsUntouched /\ (\A s \in Run : pc'[s] = "done" => pc[s] = "done")
  BY <1>1 DEF FinalsUntouched, Goto, AInv, TypeOK
<1>3. NoNewFinal /\ TmpIsFresh' /\ dir' = dir
  BY <1>1, SameDirKeeps DEF AInv
<1>4. FinalsArePure' /\ DoneIsInEveryDir'
  BY <1>1, <1>2, <1>3, FinalsKept, DoneKept DEF AInv
<1>5. Progress(r)'
  <2> USE <1>1, <1>3 DEF AInv, Progress, Pure, Goto, TypeOK
  <2>1. CASE Check(r)
    BY <2>1 DEF Check, MayStart
  <2>2. CASE CreateFails(r) \/ Kill(r)
    <3>1. pc'[r] \in {"failed", "killed"} /\ off' = off /\ (file'[r] = file[r] \/ file'[r] = None)
      BY <2>2 DEF CreateFails, Kill
    <3>2. file[r] # None => file[r] = dir.tmp
      OBVIOUS
    <3> QED BY <3>1, <3>2
  <2>3. CASE Flushed(r)
    BY <2>3 DEF Flushed, AfterFlush
  <2>4. CASE Close(r)
    BY <2>4 DEF Close
  <2> QED BY <2>1, <2>2, <2>3, <2>4
<1> QED BY <1>1, <1>3, <1>4, <1>5, StepKeeps

\* The temporary file a run opens is not one that has the final name anywhere.
LEMMA CreateKeeps == ASSUME apart', AInv, NEW r \in Run, Create(r) PROVE AInv'
<1>1. /\ pc[r] = "checked" /\ Goto(r, "writing") /\ Step(r)
      /\ UNCHANGED <<force, off, renames, crashes>>
  BY DEF Create, Step
<1>2. ASSUME NEW i \in Inode, i # None, file' = [file EXCEPT ![r] = i],
             \A j \in Inode : j # i => cache'[j] = cache[j] /\ disk'[j] = disk[j],
             \A k \in 1 .. Len(dirs) : dirs[k].final # i,
             dir'.tmp = i, dir'.final = dir.final, NoNewFinal, TmpIsFresh'
      PROVE  AInv'
  <2>1. FinalsUntouched
    BY <1>2, DirTyped, DirFields DEF FinalsUntouched, AInv
  <2>2. \A s \in Run : pc'[s] = "done" => pc[s] = "done"
    BY <1>1 DEF Goto, AInv, TypeOK
  <2>3. FinalsArePure' /\ DoneIsInEveryDir'
    BY <1>1, <1>2, <2>1, <2>2, FinalsKept, DoneKept DEF AInv
  <2>4. Progress(r)'
    BY <1>1, <1>2 DEF AInv, Progress, Goto, TypeOK
  <2> QED BY <1>1, <1>2, <2>3, <2>4, StepKeeps
<1>3. CASE /\ dir.tmp # None /\ file' = [file EXCEPT ![r] = dir.tmp]
           /\ cache' = [cache EXCEPT ![dir.tmp] = Blank] /\ UNCHANGED <<dirs, disk>>
  <2>1. dir.tmp \in Inode /\ \A k \in 1 .. Len(dirs) : dirs[k].final # dir.tmp
    BY <1>3, TmpIsNoFinal, DirTyped, DirFields DEF AInv
  <2>2. NoNewFinal /\ TmpIsFresh' /\ dir' = dir
    BY <1>3, SameDirKeeps DEF AInv
  <2>3. \A j \in Inode : j # dir.tmp => cache'[j] = cache[j] /\ disk'[j] = disk[j]
    BY <1>3 DEF AInv, TypeOK
  <2> QED BY <1>2, <1>3, <2>1, <2>2, <2>3
<1>4. ASSUME NEW i \in Unused, file' = [file EXCEPT ![r] = i],
             cache' = [cache EXCEPT ![i] = Blank], disk' = [disk EXCEPT ![i] = Blank],
             SetDir([dir EXCEPT !.tmp = i])
      PROVE  AInv'
  <2> DEFINE d == [dir EXCEPT !.tmp = i]
  <2>1. i \in Inode /\ i # None /\ \A k \in 1 .. Len(dirs) : dirs[k].final # i
    BY UnusedIsFree
  <2>2. d \in Dir /\ d.tmp = i /\ d.final = dir.final /\ SetDir(d)
    BY <1>4, <2>1, DirTyped, DirFields DEF AInv
  <2> HIDE DEF d
  <2>3. NoNewFinal /\ TmpIsFresh' /\ dir' = d
    BY <2>1, <2>2, NewDirKeeps, SetDirEffect DEF AInv
  <2>4. \A j \in Inode : j # i => cache'[j] = cache[j] /\ disk'[j] = disk[j]
    BY <1>4 DEF AInv, TypeOK
  <2> QED BY <1>2, <1>4, <2>1, <2>2, <2>3, <2>4
<1> QED BY <1>3, <1>4 DEF Create

\* The steps that change the content of the temporary file, and no name.
LEMMA WriteKeeps == ASSUME apart', AInv, NEW r \in Run, Write(r) \/ Sync(r) PROVE AInv'
<1> DEFINE i == dir.tmp
<1>1. /\ file[r] = i /\ i # None /\ i \in Inode /\ Step(r)
      /\ UNCHANGED <<dirs, force, file, renames>>
  <2>1. pc[r] \in {"writing", "flushed"}
    BY DEF Write, Sync
  <2>2. file[r] = i /\ i # None
    BY <2>1 DEF AInv, TypeOK, Progress
  <2>3. i \in Inode
    BY <2>2, DirTyped, DirFields DEF AInv
  <2> QED BY <2>2, <2>3 DEF Write, Sync, Step
<1>2. NoNewFinal /\ TmpIsFresh' /\ dir' = dir
  BY <1>1, SameDirKeeps DEF AInv
<1> HIDE DEF i
<1>3. \A j \in Inode : j # i => cache'[j] = cache[j] /\ disk'[j] = disk[j]
  BY <1>1 DEF Write, Sync, AInv, TypeOK
<1>4. \A k \in 1 .. Len(dirs) : dirs[k].final # i
  BY <1>1, TmpIsNoFinal DEF AInv, i
<1>5. FinalsUntouched
  BY <1>3, <1>4, DirTyped, DirFields DEF FinalsUntouched, AInv
<1>6. \A s \in Run : pc'[s] = "done" => pc[s] = "done"
  BY DEF Write, Sync, Goto, AInv, TypeOK
<1>7. FinalsArePure' /\ DoneIsInEveryDir'
  BY <1>1, <1>2, <1>5, <1>6, FinalsKept, DoneKept DEF AInv
<1>8. CASE Write(r)
  <2>1. /\ off'[r] = off[r] + 1 /\ off[r] \in 0 .. Chunks - 1
        /\ pc'[r] = "writing" /\ pc[r] = "writing"
    BY <1>8, AtomicFileAssumption DEF Write, MoreToWrite, AInv, TypeOK
  <2>2. \A k \in 1 .. off[r] + 1 : cache'[i][k] = r
    <3>1. cache' = [cache EXCEPT ![i] = [cache[i] EXCEPT ![off[r] + 1] = r]]
      BY <1>1, <1>8 DEF Write
    <3>2. cache[i] \in Content /\ cache'[i] = [cache[i] EXCEPT ![off[r] + 1] = r]
      BY <1>1, <3>1 DEF AInv, TypeOK
    <3>3. \A k \in 1 .. off[r] : cache[i][k] = r
      BY <2>1 DEF AInv, Progress, i
    <3> QED BY <2>1, <3>2, <3>3, AtomicFileAssumption DEF Content
  <2>3. Progress(r)
    BY DEF AInv
  <2>4. Progress(r)'
    BY <1>1, <1>2, <2>1, <2>2, <2>3 DEF Progress, i
  <2> QED BY <1>1, <1>2, <1>7, <2>4, StepKeeps
<1>9. CASE Sync(r)
  <2>1. pc[r] = "flushed" /\ pc'[r] = "synced" /\ off'[r] = off[r] /\ off[r] = Chunks
    BY <1>9 DEF Sync, Goto, AInv, TypeOK, Progress
  <2>2. cache'[i] = cache[i] /\ disk'[i] = cache[i]
    BY <1>1, <1>9 DEF Sync, AInv, TypeOK
  <2>3. \A k \in 1 .. Chunks : cache[i][k] = r
    BY <2>1 DEF AInv, Progress, i
  <2>4. Pure(dir.tmp, r)'
    BY <1>2, <2>2, <2>3 DEF Pure, i
  <2>5. Progress(r)
    BY DEF AInv
  <2>6. Progress(r)'
    BY <1>1, <1>2, <2>1, <2>4, <2>5 DEF Progress, i
  <2> QED BY <1>1, <1>2, <1>7, <2>6, StepKeeps
<1> QED BY <1>8, <1>9

\* The rename gives the final name to a file that is whole on disk.
LEMMA RenameKeeps == ASSUME apart', AInv, NEW r \in Run, Rename(r) PROVE AInv'
<1> DEFINE d == [final |-> dir.tmp, tmp |-> None]
<1>1. /\ pc[r] = "closed" /\ dir.tmp # None /\ SetDir(d) /\ Step(r)
      /\ renames' = Append(renames, r) /\ Goto(r, "renamed")
      /\ UNCHANGED <<cache, disk, force, file, off, looked, crashes>>
  BY DEF Rename, AfterRename, Step
<1>2. d \in Dir /\ d.final = dir.tmp /\ d.tmp = None
  BY DirTyped, DirFields DEF AInv
<1>3. Pure(dir.tmp, r)
  BY <1>1 DEF AInv, Progress
<1> HIDE DEF d
<1>4. /\ Len(dirs) \in Nat \ {0} /\ Len(dirs') = Len(dirs) + 1
      /\ \A k \in 1 .. Len(dirs) : dirs'[k] = dirs[k]
      /\ dirs'[Len(dirs) + 1] = d /\ dir' = d
  BY <1>1, <1>2, SetDirEffect, DirTyped DEF AInv
<1>5. /\ Len(renames) \in Nat /\ Len(renames') = Len(renames) + 1
      /\ \A k \in 1 .. Len(renames) : renames'[k] = renames[k]
      /\ renames'[Len(renames) + 1] = r /\ renames' # <<>> /\ Last(renames') = r
  <2>1. renames \in Seq(Run)
    BY DEF AInv, TypeOK
  <2>2. /\ Len(renames) \in Nat /\ Len(renames') = Len(renames) + 1 /\ renames' # <<>>
        /\ \A k \in 1 .. Len(renames) : renames'[k] = renames[k]
        /\ renames'[Len(renames) + 1] = r
    BY <1>1, <2>1, AppendProperties
  <2> QED BY <2>2 DEF Last
<1>6. FinalsArePure'
  <2> SUFFICES ASSUME NEW k \in 1 .. Len(dirs) + 1, dirs'[k].final # None
               PROVE  \E s \in Run \cup {Earlier} : Pure(dirs[k].final, s)'
    BY <1>4 DEF FinalsArePure
  <2>1. CASE k = Len(dirs) + 1
    BY <1>1, <1>2, <1>3, <1>4, <2>1 DEF Pure
  <2>2. CASE k # Len(dirs) + 1
    <3>1. PICK s \in Run \cup {Earlier} : Pure(dirs[k].final, s)
      BY <1>4, <2>2 DEF AInv, FinalsArePure
    <3>2. Pure(dirs[k].final, s)'
      BY <1>1, <1>4, <2>2, <3>1 DEF Pure
    <3> QED BY <3>2
  <2> QED BY <2>1, <2>2
<1>7. TmpIsFresh'
  <2> SUFFICES ASSUME NEW k \in 1 .. Len(dirs) + 1, NEW l \in 1 .. k, dirs'[k].tmp # None
               PROVE  dirs'[l].final # dirs'[k].tmp
    BY <1>4 DEF TmpIsFresh
  <2>1. k # Len(dirs) + 1
    BY <1>2, <1>4
  <2> QED BY <1>4, <2>1 DEF AInv, TmpIsFresh
<1>8. DoneIsInEveryDir'
  <2> SUFFICES ASSUME NEW i \in 1 .. Len(renames) + 1, pc'[renames'[i]] = "done",
                      NEW k \in 1 .. Len(dirs) + 1
               PROVE  /\ dirs'[k].final # None
                      /\ \E j \in i .. Len(renames) + 1 : Pure(dirs[k].final, renames[j])'
    BY <1>4, <1>5 DEF DoneIsInEveryDir
  <2>1. i \in 1 .. Len(renames) /\ renames'[i] = renames[i] /\ pc[renames[i]] = "done"
    <3>1. pc \in [Run -> {"new", "checked", "writing", "flushed", "synced", "closed", "renamed"}
                            \cup Ended] /\ renames \in Seq(Run)
      BY DEF AInv, TypeOK
    <3>2. pc' = [pc EXCEPT ![r] = "renamed"]
      BY <1>1 DEF Goto
    <3>3. i # Len(renames) + 1
      BY <1>5, <3>1, <3>2
    <3>4. i \in 1 .. Len(renames) /\ renames'[i] = renames[i] /\ renames[i] \in Run
      BY <1>5, <3>1, <3>3
    <3> QED BY <3>1, <3>2, <3>4
  <2>2. CASE k = Len(dirs) + 1
    <3>1. Pure(dirs[k].final, r)'
      BY <1>1, <1>2, <1>3, <1>4, <2>2 DEF Pure
    <3>2. PICK j \in i .. Len(renames) + 1 : renames'[j] = r
      BY <1>5, <2>1
    <3>3. Pure(dirs[k].final, renames[j])'
      BY <3>1, <3>2
    <3> QED BY <1>1, <1>2, <1>4, <2>2, <3>3
  <2>3. CASE k # Len(dirs) + 1
    <3>1. PICK j \in i .. Len(renames) : dirs[k].final # None /\ Pure(dirs[k].final, renames[j])
      BY <1>4, <2>1, <2>3 DEF AInv, DoneIsInEveryDir
    <3>2. dirs'[k] = dirs[k]
      BY <1>4, <2>3
    <3>3. renames'[j] = renames[j] /\ j \in i .. Len(renames) + 1
      BY <1>5, <2>1
    <3>4. Pure(dirs[k].final, renames[j])'
      BY <1>1, <3>1, <3>2, <3>3 DEF Pure
    <3> QED BY <3>1, <3>2, <3>3, <3>4
  <2> QED BY <2>2, <2>3
<1>9. Progress(r)'
  <2>1. pc'[r] = "renamed" /\ file'[r] = None
    BY <1>1 DEF Goto, AInv, TypeOK
  <2>2. Pure(dir.final, r)'
    BY <1>1, <1>2, <1>3, <1>4 DEF Pure
  <2> QED BY <1>1, <1>2, <1>4, <1>5, <2>1, <2>2 DEF Progress
<1> QED BY <1>1, <1>6, <1>7, <1>8, <1>9, StepKeeps

\* Once the directory is synced, no crash takes the file away again.
LEMMA SyncDirKeeps == ASSUME apart', AInv, NEW r \in Run, SyncDir(r) PROVE AInv'
<1>1. /\ UNCHANGED <<cache, disk, force, file, off, renames>> /\ Step(r)
      /\ pc[r] = "renamed" /\ Len(renames) \in Nat \ {0} /\ renames[Len(renames)] = r
      /\ dir.tmp = None /\ dir.final # None /\ Pure(dir.final, r)
  <2>1. pc[r] = "renamed" /\ Progress(r) /\ renames \in Seq(Run)
    BY DEF SyncDir, AInv, TypeOK
  <2> QED BY <2>1, EmptySeq DEF SyncDir, Step, Progress, Last
<1>2. FinalsUntouched
  BY <1>1 DEF FinalsUntouched
<1>3. Progress(r)' /\ pc'[r] \in {"done", "failed"}
  <2>1. pc'[r] \in {"done", "failed"} /\ file'[r] = None
    BY <1>1 DEF SyncDir, Goto, AInv, TypeOK
  <2> QED BY <2>1 DEF Progress
<1>4. CASE UNCHANGED dirs /\ Goto(r, "failed")
  <2>1. NoNewFinal /\ TmpIsFresh'
    BY <1>4, SameDirKeeps DEF AInv
  <2>2. \A s \in Run : pc'[s] = "done" => pc[s] = "done"
    BY <1>4 DEF Goto, AInv, TypeOK
  <2>3. FinalsArePure' /\ DoneIsInEveryDir'
    BY <1>1, <1>2, <2>1, <2>2, FinalsKept, DoneKept DEF AInv
  <2> QED BY <1>1, <1>3, <2>1, <2>3, StepKeeps
<1>5. CASE dirs' = <<dir>> /\ Goto(r, "done")
  <2>1. Len(dirs') = 1 /\ dirs'[1] = dir
    BY <1>5
  <2>2. NoNewFinal
    BY <2>1, DirTyped DEF NoNewFinal, AInv
  <2>3. TmpIsFresh'
    BY <1>1, <2>1 DEF TmpIsFresh
  <2>4. FinalsArePure'
    BY <1>2, <2>2, FinalsKept DEF AInv
  <2>5. Pure(dir.final, r) /\ Pure(dirs[1].final, r)'
    BY <1>1, <2>1 DEF Pure
  <2>6. DoneIsInEveryDir'
    <3> SUFFICES ASSUME NEW i \in 1 .. Len(renames)
                 PROVE  /\ dirs'[1].final # None
                        /\ \E j \in i .. Len(renames) : Pure(dirs[1].final, renames[j])'
      BY <1>1, <2>1 DEF DoneIsInEveryDir
    <3>1. Len(renames) \in i .. Len(renames) /\ renames'[Len(renames)] = r
      BY <1>1
    <3>2. PICK j \in i .. Len(renames) : renames'[j] = r
      BY <3>1
    <3>3. Pure(dirs[1].final, renames[j])'
      BY <2>5, <3>2
    <3> QED BY <1>1, <2>1, <3>3
  <2> QED BY <1>1, <1>3, <2>3, <2>4, <2>6, StepKeeps
<1> QED BY <1>4, <1>5 DEF SyncDir

LEMMA GiveUpKeeps == ASSUME apart', AInv, NEW r \in Run, GiveUp(r) PROVE AInv'
<1>1. NoNewFinal /\ TmpIsFresh'
  BY RemoveTmpKeeps DEF GiveUp, AInv
<1>2. FinalsUntouched
  BY DEF FinalsUntouched, GiveUp
<1>3. \A s \in Run : pc'[s] = "done" => pc[s] = "done"
  BY DEF GiveUp, Goto, AInv, TypeOK
<1>4. FinalsArePure' /\ DoneIsInEveryDir'
  BY <1>1, <1>2, <1>3, FinalsKept, DoneKept DEF AInv, GiveUp
<1>5. Progress(r)'
  <2>1. pc'[r] = "failed" /\ file'[r] = None
    BY DEF GiveUp, Goto, AInv, TypeOK
  <2> QED BY <2>1 DEF Progress
<1> QED BY <1>1, <1>4, <1>5, StepKeeps DEF Step

\* What is the same in the cache and on disk survives a crash.
LEMMA CrashKeeps == ASSUME AInv, Crash PROVE AInv'
<1>1. PICK n \in 1 .. Len(dirs) : dirs' = <<dirs[n]>>
  BY DEF Crash
<1>2. Len(dirs') = 1 /\ dirs'[1] = dirs[n] /\ dirs[n] \in Dir
  BY <1>1, DirTyped DEF AInv
<1>3. ASSUME NEW i \in Inode, NEW s, Pure(i, s) PROVE Pure(i, s)'
  BY <1>3 DEF Crash, Pure
<1>4. \A s \in Run : pc'[s] = "done" => pc[s] = "done"
  BY DEF Crash, Alive
<1>5. FinalsArePure'
  <2> SUFFICES ASSUME dirs'[1].final # None
               PROVE  \E s \in Run \cup {Earlier} : Pure(dirs[1].final, s)'
    BY <1>2 DEF FinalsArePure
  <2>1. PICK s \in Run \cup {Earlier} : Pure(dirs[n].final, s)
    BY <1>2 DEF AInv, FinalsArePure
  <2>2. dirs[n].final \in Inode
    BY <1>2, DirFields
  <2>3. Pure(dirs[n].final, s) /\ dirs'[1].final = dirs[n].final
    BY <1>2, <2>1
  <2>4. Pure(dirs[1].final, s)'
    BY <2>2, <2>3 DEF Crash, Pure
  <2> QED BY <2>4
<1>6. TmpIsFresh'
  BY <1>2 DEF AInv, TmpIsFresh
<1>7. \A s \in Run : ~Alive(s)' /\ Progress(s)'
  <2> SUFFICES ASSUME NEW s \in Run PROVE ~Alive(s)' /\ Progress(s)'
    OBVIOUS
  <2>1. pc'[s] = (IF Alive(s) THEN "killed" ELSE pc[s]) /\ file'[s] = None /\ off'[s] = off[s]
    BY DEF Crash
  <2>2. ~Alive(s)'
    BY <2>1 DEF Alive
  <2>3. pc'[s] = "new" => off'[s] = 0
    BY <2>1 DEF AInv, Progress
  <2> QED BY <2>1, <2>2, <2>3 DEF Alive, Progress
<1>8. DoneIsInEveryDir'
  <2> renames' = renames
    BY DEF Crash
  <2> SUFFICES ASSUME NEW i \in 1 .. Len(renames), pc'[renames[i]] = "done",
                      NEW k \in 1 .. Len(dirs)'
               PROVE  /\ dirs'[k].final # None
                      /\ \E j \in i .. Len(renames) : Pure(dirs[k].final, renames[j])'
    BY DEF DoneIsInEveryDir
  <2>1. pc[renames[i]] = "done"
    BY <1>4 DEF AInv, TypeOK, Crash
  <2>2. PICK j \in i .. Len(renames) : dirs[n].final # None /\ Pure(dirs[n].final, renames[j])
    BY <2>1 DEF AInv, DoneIsInEveryDir
  <2>3. dirs[n].final \in Inode
    BY <1>2, <2>2, DirFields
  <2>4. renames'[j] = renames[j] /\ k = 1 /\ dirs'[k].final = dirs[n].final
    BY <1>2 DEF Crash
  <2>5. Pure(dirs[k].final, renames[j])'
    BY <2>2, <2>3, <2>4 DEF Crash, Pure
  <2> QED BY <1>2, <2>2, <2>4, <2>5
<1> QED BY <1>5, <1>6, <1>7, <1>8, CrashTyped DEF AInv, OneAtATime

LEMMA NextKeeps == ASSUME apart', AInv, [Next]_vars PROVE AInv'
<1>1. CASE \E r \in Run : Step(r)
  BY <1>1, QuietKeeps, CreateKeeps, WriteKeeps, RenameKeeps, SyncDirKeeps, GiveUpKeeps DEF Step
<1>2. CASE UNCHANGED vars
  <2> USE <1>2 DEF vars
  <2>1. TypeOK' /\ OneAtATime' /\ TmpIsFresh'
    BY DEF AInv, TypeOK, OneAtATime, Alive, TmpIsFresh
  <2>2. FinalsArePure'
    BY DEF AInv, FinalsArePure, Pure
  <2>3. \A r \in Run : Progress(r)'
    BY DEF AInv, Progress, dir, Pure
  <2>4. DoneIsInEveryDir'
    BY DEF AInv, DoneIsInEveryDir, Pure
  <2> QED BY <2>1, <2>2, <2>3, <2>4 DEF AInv
<1> QED BY <1>1, <1>2, CrashKeeps DEF Next, Idle

\* The inductive invariant of the runs on one target (createAtomic, Commit, Abort): who owns
\* which file, what each directory entry may name, and how far the owner has come.
THEOREM AtomicAInvariant == Spec => [](apart => AInv)
<1>1. Init => (apart => AInv)
  BY InitAInv
<1>2. [Next]_vars /\ apart' => apart
  BY DEF Next, Step, Check, Create, CreateFails, Write, Flushed, Sync, Close, Rename, SyncDir,
         GiveUp, Kill, Crash, Idle, vars
<1>3. (apart => AInv) /\ [Next]_vars => (apart => AInv)'
  BY <1>2, NextKeeps
<1> QED BY <1>1, <1>3, PTL DEF Spec

-----------------------------------------------------------------------------
(* What the file promises.                                                 *)

\* The files, the names and the runs are what the types say, however many runs there are
\* at the same time.
THEOREM AtomicTypeOK == Spec => []TypeOK
<1>1. Init => TypeOK
  BY InitTyped
<1> QED BY <1>1, StepTyped, PTL DEF Spec

\* The final name is that of a whole file, whatever a run, a signal or a crash does
\* (Commit, Abort), as long as no two runs have written the same target at the same time.
THEOREM AtomicFinalIsWhole == Spec => []FinalIsWhole
<1>1. ASSUME AInv PROVE Complete
  <2>1. Len(dirs) \in 1 .. Len(dirs) /\ dir = dirs[Len(dirs)]
    BY <1>1, DirTyped DEF AInv
  <2> QED BY <1>1, <2>1 DEF AInv, FinalsArePure, Complete, Whole, Pure
<1> QED BY <1>1, AtomicAInvariant, PTL DEF FinalIsWhole

\* The file of a run that ended well is there, or a later one is (Commit, syncDir), as long
\* as no two runs have written the same target at the same time.
THEOREM AtomicDoneIsDurable == Spec => []DoneIsDurable
<1>1. ASSUME AInv, NEW i \in 1 .. Len(renames), pc[renames[i]] = "done"
      PROVE  dir.final # None /\ \E j \in i .. Len(renames) : Whole(dir.final, renames[j])
  <2>1. Len(dirs) \in 1 .. Len(dirs) /\ dir = dirs[Len(dirs)]
    BY <1>1, DirTyped DEF AInv
  <2>2. /\ dirs[Len(dirs)].final # None
        /\ \E j \in i .. Len(renames) : Pure(dirs[Len(dirs)].final, renames[j])
    BY <1>1, <2>1 DEF AInv, DoneIsInEveryDir
  <2>3. PICK j \in i .. Len(renames) : Pure(dir.final, renames[j])
    BY <2>1, <2>2
  <2>4. Whole(dir.final, renames[j])
    BY <2>3 DEF Pure, Whole
  <2> QED BY <2>1, <2>2, <2>4
<1>2. (apart => AInv) => DoneIsDurable
  BY <1>1 DEF DoneIsDurable
<1> QED BY <1>2, AtomicAInvariant, PTL

\* A run without --force that is under way has found no file, and there is none still, or
\* another run has renamed one there since.
Spares(r) ==
    /\ looked[r] <= Len(renames)
    /\ Alive(r) /\ r \notin force => dir.final = None \/ looked[r] < Len(renames)

FoundInv == TypeOK /\ \A r \in Run : Spares(r)

\* Only a rename gives the final name.
LEMMA FinalByRename ==
    ASSUME TypeOK, NEW r \in Run, Step(r), ~Rename(r)
    PROVE  dir'.final = dir.final /\ renames' = renames
<1>1. CASE UNCHANGED dirs
  BY <1>1 DEF Step, Check, Create, CreateFails, Write, Flushed, Sync, Close, SyncDir, GiveUp, Kill,
              dir
<1>2. CASE Create(r) /\ ~UNCHANGED dirs
  <2>1. PICK i \in Unused : SetDir([dir EXCEPT !.tmp = i])
    BY <1>2 DEF Create
  <2> DEFINE d == [dir EXCEPT !.tmp = i]
  <2>2. d \in Dir /\ d.final = dir.final
    BY UnusedIsFree, DirTyped, DirFields
  <2> HIDE DEF d
  <2> QED BY <1>2, <2>1, <2>2, SetDirEffect DEF Create, d
<1>3. CASE SyncDir(r) /\ dirs' = <<dir>>
  BY <1>3 DEF SyncDir, dir, Last
<1>4. CASE GiveUp(r)
  BY <1>4, RemoveTmpEffect DEF GiveUp
<1> QED BY <1>1, <1>2, <1>3, <1>4
        DEF Step, Check, CreateFails, Write, Flushed, Sync, Close, SyncDir, Kill

\* A step of a run spares what the others and itself have found.
LEMMA StepSpares == ASSUME FoundInv, NEW r \in Run, Step(r) PROVE \A s \in Run : Spares(s)'
<1> SUFFICES ASSUME NEW s \in Run PROVE Spares(s)'
  OBVIOUS
<1>1. /\ force' = force /\ renames \in Seq(Run) /\ Len(renames) \in Nat
      /\ looked[s] \in Nat /\ TypeOK /\ Spares(s)
  BY DEF Step, Check, Create, CreateFails, Write, Flushed, Sync, Close, Rename, SyncDir, GiveUp,
         Kill, FoundInv, TypeOK
<1>2. CASE Rename(r)
  <2>1. looked' = looked /\ Len(renames') = Len(renames) + 1
    BY <1>1, <1>2, AppendProperties DEF Rename
  <2> QED BY <1>1, <2>1 DEF Spares
<1>3. CASE Check(r)
  <2>1. /\ renames' = renames /\ dir' = dir
        /\ s # r => looked'[s] = looked[s] /\ pc'[s] = pc[s]
        /\ s = r => /\ looked'[s] = Len(renames)
                    /\ pc'[s] = "checked" => s \in force \/ dir.final = None
                    /\ pc'[s] \in {"checked", "refused"}
    BY <1>1, <1>3 DEF Check, Goto, MayStart, dir, TypeOK
  <2>2. CASE s = r
    <3>1. Alive(s)' => pc'[s] = "checked"
      BY <2>1, <2>2 DEF Alive
    <3> QED BY <1>1, <2>1, <2>2, <3>1 DEF Spares
  <2>3. CASE s # r
    <3>1. Alive(s)' <=> Alive(s)
      BY <2>1, <2>3 DEF Alive
    <3> QED BY <1>1, <2>1, <2>3, <3>1 DEF Spares
  <2> QED BY <2>2, <2>3
<1>4. CASE ~Rename(r) /\ ~Check(r)
  <2>1. dir'.final = dir.final /\ renames' = renames
    BY <1>1, <1>4, FinalByRename
  <2>2. looked' = looked
    BY <1>4 DEF Step, Create, CreateFails, Write, Flushed, Sync, Close, SyncDir, GiveUp, Kill
  <2>3. Alive(s)' => Alive(s)
    <3>1. s # r => pc'[s] = pc[s]
      BY <1>1, StepIsLocal
    <3>2. Alive(r)
      BY <1>1, <1>4, StepIsOfAlive
    <3> QED BY <3>1, <3>2 DEF Alive
  <2> QED BY <1>1, <2>1, <2>2, <2>3 DEF Spares
<1> QED BY <1>2, <1>3, <1>4

\* No step of a run, and no crash, puts a file before a run that has found none, but a
\* rename (runBaseline, Commit).
LEMMA FoundInvariant == Spec => []FoundInv
<1>1. Init => FoundInv
  <2> SUFFICES ASSUME Init PROVE FoundInv
    OBVIOUS
  <2>1. \A r \in Run : looked[r] = 0 /\ pc[r] = "new" /\ renames = <<>>
    BY DEF Init
  <2>2. Len(<<>>) = 0
    OBVIOUS
  <2>3. \A r \in Run : Spares(r)
    BY <2>1, <2>2 DEF Spares, Alive
  <2> QED BY <2>3, InitTyped DEF FoundInv
<1>2. FoundInv /\ [Next]_vars => FoundInv'
  <2> SUFFICES ASSUME FoundInv, [Next]_vars PROVE FoundInv'
    OBVIOUS
  <2>1. TypeOK'
    BY StepTyped DEF FoundInv
  <2>2. CASE \E r \in Run : Step(r)
    BY <2>1, <2>2, StepSpares DEF FoundInv
  <2>3. CASE Crash
    BY <2>1, <2>3 DEF Crash, FoundInv, Spares, Alive
  <2>4. CASE UNCHANGED vars
    BY <2>1, <2>4 DEF vars, FoundInv, Spares, Alive, dir
  <2> QED BY <2>2, <2>3, <2>4 DEF Next, Idle
<1> QED BY <1>1, <1>2, PTL DEF Spec

\* A run without --force replaces no file but one that another run has renamed there during
\* its scan, with any number of runs at the same time and any number of crashes
\* (runBaseline, Commit).
THEOREM AtomicNoForceSparesFound == Spec => NoForceSparesFound
<1>1. ASSUME FoundInv, [Next]_vars, NEW r \in Run, renames' = Append(renames, r), r \notin force
      PROVE  dir.final = None \/ looked[r] < Len(renames)
  <2>1. renames \in Seq(Run) /\ renames' # renames
    BY <1>1, AppendProperties DEF FoundInv, TypeOK
  <2>2. PICK s \in Run : Step(s)
    BY <1>1, <2>1 DEF Next, Crash, Idle, vars
  <2>3. Rename(s)
    BY <1>1, <2>1, <2>2, FinalByRename DEF FoundInv
  <2>4. s = r
    <3>1. renames' = Append(renames, s) /\ renames' = Append(renames, r)
      BY <1>1, <2>3 DEF Rename
    <3>2. \A x \in Run : Append(renames, x)[Len(renames) + 1] = x
      BY <2>1, AppendProperties
    <3> QED BY <3>1, <3>2, Zenon
  <2>5. Alive(r)
    BY <2>3, <2>4 DEF Rename, Alive
  <2> QED BY <1>1, <2>5 DEF FoundInv, Spares
<1>2. FoundInv /\ [Next]_vars
        => [\A r \in Run : renames' = Append(renames, r) /\ r \notin force
                             => dir.final = None \/ looked[r] < Len(renames)]_vars
  BY <1>1
<1> QED BY <1>2, FoundInvariant, PTL DEF Spec, NoForceSparesFound

\* A run that ends by itself leaves no temporary file (Abort, Commit), as long as no two
\* runs have written the same target at the same time.
THEOREM AtomicNoLeftover == Spec => NoLeftover
<1>1. ASSUME AInv, [Next]_vars, NEW r \in Run, Alive(r), pc[r] # "checked",
             pc'[r] \in {"failed", "done"}
      PROVE  dir'.tmp = None
  <2>1. pc'[r] # pc[r] /\ TypeOK
    BY <1>1 DEF Alive, AInv
  <2>2. PICK s \in Run : Step(s)
    BY <1>1, <2>1 DEF Next, Crash, Idle, vars
  <2>3. s = r
    BY <2>1, <2>2, StepIsLocal
  <2>4. GiveUp(r) \/ SyncDir(r)
    BY <1>1, <2>1, <2>2, <2>3 DEF Step, Check, Create, CreateFails, Write, Flushed, AfterFlush,
                             Sync, Close, Rename, AfterRename, Kill, Goto, TypeOK
  <2>5. CASE GiveUp(r)
    BY <2>1, <2>5, RemoveTmpEffect DEF GiveUp
  <2>6. CASE SyncDir(r)
    <3>1. dir.tmp = None
      BY <1>1, <2>6 DEF SyncDir, AInv, Progress
    <3>2. dirs' = <<dir>> \/ dirs' = dirs
      BY <2>6 DEF SyncDir
    <3>3. Last(<<dir>>) = dir
      BY DEF Last
    <3>4. dir' = dir
      BY <3>2, <3>3 DEF dir
    <3> QED BY <3>1, <3>4
  <2> QED BY <2>4, <2>5, <2>6
<1>2. (apart => AInv) /\ [Next]_vars
        => [\A r \in Run : apart /\ Alive(r) /\ pc[r] # "checked" /\ pc'[r] \in {"failed", "done"}
                             => dir'.tmp = None]_vars
  BY <1>1
<1> QED BY <1>2, AtomicAInvariant, PTL DEF Spec, NoLeftover
=============================================================================
