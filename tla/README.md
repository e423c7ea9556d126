# osfp, specified

TLA+ specifications of `osfp`, the TLC runs that check them on small instances,
and the theorems about them that TLAPS proves. Paths below are relative to the
repository (`internal/…`, `cmd/…`).

    tlc -workers 2 -config ScanOrder.cfg MCScan.tla    # any run: see "Runs"
    tlapm ScanProofs.tla                               # any *Proofs module

Contents: [the system](#the-system) · [modules](#the-modules) ·
[runs](#the-runs) · [disagreements](#where-the-code-and-its-documents-disagree) ·
[proofs](#the-proofs) · [limits](#what-is-not-modelled) · [plan](#the-plan)

## The system

`osfp baseline` walks a filesystem and writes a *fingerprint*; `osfp compare`
walks it again months later and reports the differences. Neither ever holds the
tree in memory: everything rests on two streams of entries in the same
*canonical order*.

    baseline:  Walk --emit--> Writer.Add --> atomicFile --> name.osfp

    compare:   Walk --emit--> Joiner.Feed --> report --> stdout or atomicFile
                                  ^
               name.osfp --> Cursor.Next

### Inventory

| Component | State it keeps | Operations | Talks to | What makes it correct |
|---|---|---|---|---|
| **scan** `walk.go` `reorder.go` `hash.go` | a ring of `4*jobs` cells and its two channels, the recursion of `visit`, a work channel, a wait group per cell, `walkErr`, `pruned`, `skipped` | `Walk`, `visit`, `mayDescend`, `emitError`, `acquire`/`commit`/`release`, `submit`/`hashEntry`/`stop` | calls `emit` and the `Descend` hook; reads the context; system calls | each path once, in order, with its hash; errors recorded and not fatal; returns after a cancel; nil means complete; mounts entered by policy |
| **scan types** `fstype*.go` `vfs.go` | tables | `classifyFS`, parsing of `/etc/vfs` | called by `crossMount` | an unknown type is not local |
| **canon** `key.go` | none | `CompareKey` | the walk, the writer, the decoder, `Seek`, the joiner | a strict total order in which a subtree is contiguous |
| **diff table** `classify.go` `op.go` | none | `Classify`, `opForMissing` | called by the joiner | a content change is claimed only when verified; dates decide only without hashes |
| **diff join** `merge.go` | the current old entry, the last live path, the counters | `NewJoiner`, `Feed`, `Finish`, `report` | pulls `Cursor.Next`, pushed by `emit`, calls back the report | exactly the differences, in order, counted once |
| **diff ignore** `ignore.go` | compiled rules | `ParseIgnore`, `Match` | uses the exclusion set | a rule covers its categories only |
| **store writer** `writer.go` | the block being built, the previous key, the last key, the index, the latched error | `Add`, `flushBlock`, `Close` | `io.Writer` | refuses what is out of order; loses nothing; a failed file does not read as whole |
| **store reader** `reader.go` `decode.go` | the index; per cursor a block, a decoder, `pending` | `NewReader`, `Verify`, `Cursor`, `Seek`, `Next` | `io.ReaderAt` | returns what was written; `EOF` only at the end; refuses damaged files, and no others |
| **exclude** `matcher.go` `defaults.go` | prefixes, globs, dropped and volatile lists | `New`, `Match`, `Volatile`, `Patterns` | walk, report, fingerprint header | the perimeter of the second scan is that of the first |
| **atomic file** `atomic.go` | temporary and final name, buffer, `done` | `createAtomic`, `Commit`, `Abort` | the filesystem | the final name is whole or absent, durable once reported, no leftover |
| **baseline** `baseline.go` | the run | check, create, walk, close, commit | all of the above | an interrupted scan writes nothing and exits 130; no overwrite without `--force`; the file is the whole perimeter and not itself |
| **compare** `compare.go` | the known directories, the expected count | verify, load, walk and join, summarise, close, commit | all of the above | a report that ends is complete; exit codes |
| **info, verify, version, dispatch** | none | one pass each | reader, stdout | exit codes |
| **report** `text.go` `json.go` | changes held by the text report | `Header`, `Change`, `Close` | the joiner's callback | every change once, in its section |
| **osdetect, humanize, cstr** | none | parsing, formatting | | |

### What is hard about it

* **Interleavings.** A walker, `jobs` workers and a consumer share cells without
  locks: a cell's owner is a matter of protocol. Cancellation may arrive between
  any two of their steps, from outside or from a failing `emit`.
* **Order.** Hashing is parallel, yet the stream must be in an order where `/`
  sorts below every other byte. The writer checks it, the decoder only within a
  block, and the join depends on it silently.
* **Failure.** Any system call of the walk may fail; the fingerprint may be
  unreadable half way; a write, a sync or a rename may fail; the machine may
  crash between two of them.
* **Boundaries.** Blocks and their first keys, the block a `Seek` starts in, the
  ends of the two streams of the join, the depth limit, a full ring.
* **Staleness.** A cell read after it was given away, a target checked minutes
  before it is replaced.

`PROJECT.json` lists these one by one under `hazards`, with the line and the
properties that watch it, and says of each uncovered one why it is.

## The modules

| Module | Models | Its variables and actions in the code |
|---|---|---|
| `Scan` | one call of `Walk` | `free`/`ordered`/`closed` are the ring's channels, `entry`/`wg` a slot's fields; `stack` is the recursion of `visit` with its locals; `wpc`, `job`, `cpc` say where the walker, each worker and the consumer are |
| `OrderedScan` | what `Walk` promises `emit` and its caller | the sequence emitted so far, whether `emit` has failed, the result. No goroutine and no cell |
| `ScanPlan` | the depth-first walk of the tree as a recursive function, the refinement mapping from `Scan` to `OrderedScan`, the condition it holds under, and the mount rule | `ChildrenPlan` is the loop over the children with the recursion in it: a function of the list of names that is left, the depth and the parent's device |
| `Canon` | `CompareKey` | paths are sequences of bytes |
| `PathNames` | the parts of `path/filepath` the code relies on, and the reference order of `key_test.go` | |
| `CanonCheck` | all pairs of short paths | |
| `Classify` | the decision table and `opForMissing` | mode, uid and gid are one value: every line of the table treats them alike |
| `ClassifyCheck` | one fact of a file changing at a time | |
| `Joiner` | the merge join | `at` is the index of `j.old`; an action per reported change, since both the callback and the read that follows it can fail there |
| `Writer` | the writer of a fingerprint file | `file` is what was written, piece by piece, each with its length on disk; `off`, `block`, `prev`, `lastKey`, `index` and the counters are the writer's fields |
| `Store` | that file, damaged or not, opened by `NewReader`, checked by `Verify` and read by one cursor | `reading` is how far the reader has come; `at`, `rest`, `before`, `entry` and `pending` are the cursor's and the decoder's fields |
| `Exclude` | how patterns become an exclusion set, and what it matches | a set is a record with the fields of `exclude.Set`; operators only |
| `Fingerprint` | what `osfp baseline` promises: the old file or the whole scan under the final name, and an exit code that tells | what is under the name, whether the run has begun, a fault, a signal. No writer, no walk |
| `Baseline` | one run of `baseline`, on top of `Exclude` and `Writer` | `phase` is the place in `runBaseline`; `set` and `plan` are the compiled exclusions and what the walk has to emit; `out` and `tmp` are the two names |
| `Report` | the sections and the summary of the text report, the lines of the JSON one | `Change`, which files one change, and what `Close` makes of all of them |
| `AtomicFile` | the output file and the runs that write it | `dirs` is the directory's history since its last sync, `cache` and `disk` the two contents of an inode; `apart` remembers whether any run began during another |
| `Compare` | one run of `compare -o`, on top of `Joiner` | `phase` is the place in `runCompare`; `base` is what `baseline` recorded of the tree `then`, `live` what the second walk produces of the tree `now` under the perimeter and the `Descend` hook; `out` is the report's name |
| `ScanProofs`, `CanonProofs`, `PairProofs`, `JoinerProofs`, `StoreProofs`, `AtomicFileProofs`, `CompareProofs`, `BaselineProofs` | the theorems: see [the proofs](#the-proofs) | |
| `MCScan`, `MCJoiner`, `MCStore`, `MCAtomicFile`, `MCCompare`, `MCBaseline` | constants for TLC | |

Beside an operator a run's property depends on stands a *mutant* of it, marked
as such: the form it would have with a plausible bug. No specification uses
them; they show that the properties notice.

### How `Scan` reads the code

* The answers of the system calls are drawn in the initial state (`world`): a
  walk asks each question at most once, so nothing is lost. `ReadDir` may fail
  after some entries, which the code then visits, and so does the model.
* `Acquire` is everything in `visit` from the acquired cell to the decision to
  hash. It touches only the cell, which nobody else has, and the walker's own
  locals, so nothing can interleave with it observably. Submission, commit, each
  child and the return are actions of their own.
* A frame holds the *cell*, not a copy of the device: `visit` evaluates `e.Dev`
  through the cell at each child (`walk.go:306`), after the cell was committed.
  The model reads whatever the cell holds at that moment. The read is a data race
  on top; the stale value is the outcome the runs need.
* The work channel has no buffer, so `Submit(w)` is the rendezvous with a worker
  that is waiting. Go's choice between a possible send and a closed `Done`
  channel is left open, as in the language: with both possible either action may
  happen.
* `Emit(fails)` is one call of `emit` with the `count` before it and the
  `cancel` after it. `Interrupt` is the caller's context, at any time.

### How `AtomicFile` reads the filesystem

The filesystem is not part of the repository; it is modelled from what
`atomic.go` assumes of it. Operations on names are ordered, and a crash may go
back to any state of the directory since its last sync; a crash keeps, for each
block, the cached or the synced content. `fsync` of the file makes its blocks
durable and `fsync` of the directory its names. `os.Remove` succeeds.

### How `Writer` and `Store` read the file format

A file is the sequence of its pieces: header, metadata, blocks, index, the
footer's fields, digest, closing magic. A piece has a kind, a length and what it
holds. The lengths are computed as the code's `off` is, so the footer and the
index record real offsets, and the reader finds a piece only at exactly the
offset and length it was told: anything else reads as garbage. The digest of some
pieces is these pieces. zstd is left out, and an entry's fields other than the
path take one byte together, or three for a long string (a link's target, an
error). The reader's limits on the metadata, a string and a block are constants:
they refuse a file whether it is damaged or not, and the writer knows nothing of
them.

`Damage` alters one piece or cuts the file, between two pieces or inside one,
after it was sealed; a write that fails leaves a file that stops anywhere. What
an altered piece decodes to is open: `NewReader` may accept such a file or refuse
it. It is `Verify` that must catch it, and both `compare` and `verify` call it
before they use an entry.

### How `Baseline` composes

`Baseline` drives `Writer`'s own `Add` and `Close` with the paths of a walk, as
`runBaseline` does. The walk stands for what `OrderedScan` allows: the paths of
the tree that no exclusion covers, in depth-first order with the names of a
directory in the order of their bytes, cut only if the context has ended before
the last of them or the root cannot be read. The run's own temporary file is in
the tree when the walk comes by, and so is a fingerprint that `--force` is to
replace. Paths are bytes, so that `CompareKey`, the glob and prefix rules and the
order of the walk are those of the code. A path given to the command and the path
the walk makes of the same file need not be the same: `given` and `real` keep
them apart. `Commit` is one step; its inside is `AtomicFile`.

What `compare` compiles is not the list of patterns but what `json.Unmarshal` makes
of what `json.Marshal` wrote of it. `Json` says what that does to bytes: it takes
the first character of what is left, or puts U+FFFD for the first byte if none
begins there. The constant `Character` holds the UTF-8 sequences an instance needs.

`Promise` maps this to `Fingerprint`. The scan to be recorded is computed from
the initial state (`intended`: everything the perimeter covers, without the
run's own files), so a path that is missed or added on the way shows. `Fail`
requires a fault, something outside of the command that did not work; an error
for another reason, such as the writer refusing the order of the walk, is not a
step of `Fingerprint`.

### How `Compare` composes

`Compare` instantiates `Joiner` and drives it as `runCompare` does: `Feed`,
`Removed`, `Both` and `Added` are the joiner's own actions, taken while the
command is in its walk or in `Finish`. The walk stands for what `OrderedScan`
allows: entries in order, a cut only if the context has ended before the last of
them. Both streams are computed from trees, by the rules of `visit` and
`mayDescend`, so a property can relate a line of the report to what is really at
its path. The tree does not change while the command runs. Mount points are
seen from the mount rule's answer only: a `share` is one the policy stops at. A
`locked` directory gives the names `ReadDir` returned before it failed; what it did
not return is `unlisted`. Each party counts for itself, as in the code: the joiner
after its filters, the callback the expected changes, the report its sections and
its summary. `commit` is one step here; its inside is `AtomicFile`.

## The runs

All of these must pass; the three runs of the next section must find a
violation.

| Run | What it shows | Bounds |
|---|---|---|
| `scan_order` | In every interleaving, `Walk` implements `OrderedScan`; its channels never block a sender; a cell has one owner; nothing is emitted half hashed; no goroutine and no cell outlives it; it returns | 8 paths, 2 workers, a ring of 4 cells, one failing system call of any kind at any path, interrupts at any step |
| `scan_mounts` | The same promise, and no share entered, under `--mounts=local` over shares, a second local filesystem and a depth limit, with devices read from reused cells | 11 paths, two shares each mounted once, 1 worker and the code's 4 cells, one failing system call |
| `canon` | `CompareKey` agrees with the order by names, and a subtree is contiguous | all pairs of paths up to 4 bytes over NUL, `.`, `/` and `a` |
| `classify` | The three rules of the table: content claims are verified, silence means equal, a touch is invisible | all pairs of entries over two values of each fact |
| `joiner` | The report is always a prefix of the right one, complete when the join ends, and the counters add up | both streams over 3 paths and 5 states of each, one unreadable entry anywhere, a callback failing at any change, a scan cut anywhere |
| `atomic_file` | Whatever overlaps, no run without `--force` replaces what it found; as long as no run began during another, the final name is whole, a success is durable and nothing is left over | 2 runs in any order and overlap, 2 blocks, 2 crashes, a kill or an error at any step |
| `compare` | A report gets its name only with every visible difference of a walk that ended; an unchanged tree is quiet; nothing is listed below a new directory; the exit code tells drift; a summary counts the directories and files of the perimeter, and beyond them only what finding 6 says; each change is a line of one section, and lines, counters and hidden differences add up | every pair of two trees of 6 paths in which a directory may be absent, listed, unreadable from some name on, a mount point or a file, and a path a file, a link or a directory; the three modes; `--exclude`; one unreadable fingerprint entry, a failing callback, `Close` or commit, a signal at any step |
| `store` | What is read back is what was written, from any `Seek`; the writer accepts only sorted input; a file that is whole is refused only where it is beyond a limit of the reader, and one that is not whole never reaches a cursor | 7 paths that share prefixes, readable or not, blocks of one to three records, limits that some paths, strings and indexes exceed, a write that fails at any flush or part of `Close`, each piece altered, the file cut at or inside each piece |
| `baseline` | The command implements `Fingerprint`; the recorded patterns, read back from their JSON and compiled again by a compare with any of the targets as its report, select the same paths | 9 paths, every list of at most two of twelve patterns (prefixes, one with a final slash, the root, globs on paths and on names, classes, one with a bracket in it, one malformed, a comment, one in spaces, a letter of two bytes), roots `/` and `/a`, a target in either, an earlier file or none, `--force`, an error or a signal at any step |

Why the bounds are enough to meet the interesting cases:

* `scan_order` has more paths than cells, so that cells are reused while others
  are in flight, both channels fill up and the walker blocks; with two workers a
  later file can finish first. It keeps all paths on one device.
* `scan_mounts` has one worker, hence the code's smallest ring, and three files
  in front of the mount points: by the first share the cell of the root holds a
  file, by the second the first share, by `n` the second. Every wrong device the
  code can read is read. Only a share mounted twice makes it enter one
  (finding 1), and `--mounts=same` skips what is no mount (`scan_stale_same`).
* `canon` has two bytes below the slash (NUL, the lowest, and `.`, the one just
  below it) and one above; paths of 4 bytes have several names, empty names and
  trailing slashes.
* `store` gives blocks one to three records, so that first, middle and last
  positions all occur and targets fall on, before, between and after them. The
  longest path is a byte beyond the limit of a string, but its suffix need not be;
  an index of three short keys is at the limit of a block.
* `compare` has a directory exactly as deep as the limit, a new directory with
  three levels below it, an excluded path, and volatile paths beside others
  that are not, so that each rule decides alone somewhere.
* `baseline` has a directory `/a` with content and a path `/a.` that comes
  between them as bytes, names of which one begins another (`/a`, `/ab`; `/o`,
  `/oo`), patterns that cover the root, the target or the binary, and blocks of
  a few entries, so that `Add` flushes during the walk and `Close` at its end.
* In `compare`, a category is hidden and another ignored at one path, so that
  every way a difference can stay out of the report occurs.
* In `atomic_file` the second run meets what the first left, including after a
  crash, which is what a retry is, or begins anywhere during the first.

`MaxCrashes`, `MaxFaults`, `MaxLen`, `Chunks`, `BlockSize`, `MetaLength`,
`MaxMetaSize`, `MaxStringSize` and `MaxBlockSize` are bounds or small values of
parameters; `4` in `CellsPerJob` and `20` in `MaxSkipped` are
the code's own numbers (`scan_order` makes the ring smaller, which the
specification and the proofs allow). `atomic_file` uses symmetry on runs and
inodes, which the specification does not tell apart; no liveness is checked
there.

### Deadlock and fairness

Deadlock checking is on except in `canon`, whose steps are only a way to
enumerate pairs. The other specifications stutter explicitly once they are over.
In `Scan` the interrupt may be repeated, so the absence of deadlock is weak
there: `WalkReturns` is the statement that matters.

`Scan` assumes weak fairness of the walker, of each worker and of the consumer:
the Go scheduler runs every goroutine that can run, and system calls and `emit`
return. The interrupt has no fairness, since it need not come. Weak fairness
suffices: what a goroutine waits for (a cell, a worker, a wait group, the end of
the stream) stays available until it takes it. Nothing is assumed of Go's
`select`: a walker that may both take a cell and see the cancellation may do
either, for ever, and the walk still ends because the tree does.

## Where the code and its documents disagree

The first three have a run that TLC must find violated.

1. **The parent's device is read from a cell that was given away**
   (`walk.go:306`; `scan_stale_same`). With `--jobs=1` the ring has four cells,
   and by the fifth entry after a directory its device is another's. A directory
   that follows a mount point is then taken for a mount and skipped; under
   `--mounts=local`, by the same read, a second mount point of a share is not
   recognised and is entered (see the end of this section). Line 289 says the cell "must not be read" any more;
   `walk_test.go` says that the number of workers is not observable in the
   output. Copying `e.Dev` before the commit removes both.
2. **A new path that cannot be read is a plain `+F`** (`merge.go:145`;
   `joiner_unreadable`). `hash.go:78` says that the classifier turns a non-empty
   `Err` into `?E`; `Feed` classifies a path missing from the fingerprint by its
   type alone.
3. **A fingerprint may record itself** (`baseline.go:77`; `baseline_itself`).
   `atomic.go` says of the final and the temporary name that the scan must
   exclude both, because "a fingerprint that recorded itself would never compare
   equal". They are excluded as patterns. A path with a `[` in it becomes a glob
   that does not match the path; `filepath.Abs` keeps a linked directory in the
   path, where the walk does not come by (the binary's own path is resolved, by
   `SelfPaths`); and under a relative `--root` the walk's paths are relative, which
   `Match` says they never are. In each case the temporary file is recorded,
   and reported as deleted by the next compare.

The others are properties that a module states and TLC refutes under the `.cfg`
named, which checks nothing else.

4. **Two runs on one target write one inode** (`atomic.go:38`; `Complete`,
   `AtomicShared.cfg`): the temporary name is fixed and opened with `O_TRUNC`, so
   the first rename publishes a file the other has truncated or is still writing.
   `atomic.go` says of the rename that "the file either is not there or is
   complete".
5. **The check behind `--force` is made once, before the scan**
   (`baseline.go:64`; `NoForceKeeps`, `AtomicForce.cfg`): a fingerprint that another
   run finishes during the scan is replaced without the flag.
6. **A summary leaves the perimeter** (`compare.go:322`;
   `SummaryWithinPerimeter`, `CompareSummary.cfg`). `osfp-compare(1)` speaks of
   "exactly the perimeter the fingerprint recorded". `summarizeDir` starts a walk
   at the new directory, where the mount rule does not apply and the depth counts
   from zero: a share mounted since is counted to its end, and so is what lies
   below the depth limit.
7. **What was not looked at is reported as deleted** (`merge.go:160`;
   `RemovedMeansGone`, `CompareRemoved.cfg`). `op.go` says of `-F` "absent from
   the system". The content of a directory that cannot be listed any more, or that
   has become a mount point, is not scanned, and every entry of it in the
   fingerprint is `-F` or `-D`. The man page says so of `--exclude`, which the
   property leaves out.
8. **A late signal is ignored, and costs a summary** (`compare.go:336`;
   `AddedDirHasCounters`, in the place of the invariants of `Compare.cfg`). A
   signal between the last entry of the walk and the end makes `summarizeDir`
   return nothing; the report is complete but for these counters and the command
   returns 0, although the repository's `README.md` says a new directory is
   reported "with counters".
9. **`--root .` is refused by the writer** (`walk.go:142`; `WalkIsCanonical`,
   `BaselineRelative.cfg`). The first path of that walk is `.`, and a child whose
   name starts with a smaller byte (`#`, `-`, `+`, a space) is below it in the
   canonical order, although `Walk` is documented to emit in that order: the
   command ends with `ErrOutOfOrder`. Making the root absolute removes this and a
   part of 3.
10. **The reader refuses what the writer writes** (`reader.go:122`, `:164`, `:190`,
    `decode.go`; `OnlyDamageIsRefused`, `StoreLimits.cfg`). Metadata, a block, an
    index or a string beyond the limits of `format.go` is `ErrCorrupt`, and the
    writer enforces none of them. `format.go` says of the error that it "covers
    every structural inconsistency": a long enough list of `--exclude` patterns
    gives a whole fingerprint that nothing can read.
11. **JSON changes a pattern that is not UTF-8** (`writer.go:78`, `reader.go:130`;
    `PerimeterIsKept`, `BaselineBytes.cfg`). Each such byte comes back as U+FFFD,
    so a path excluded by its name is scanned by `compare` and reported as added,
    although `defaults.go` says that the list is recorded for a comparison "on
    exactly the same perimeter".

Finding 1 has a second half: under `--mounts=local` the second mount point of a
share is entered (`SharesAreNotEntered`, `ScanShareTwice.cfg`).

Two smaller ones, no run: `key.go:31-33` says that a NUL byte would collide with
the slash, but `CompareKey` tells them apart and is a strict order on all bytes
(`CompareKeyIsTotalOrder`); `Seek` "reads one block", but reads the next one too
when the path lies past the last entry of the first (`SeekIsLocal` says two).

## The proofs

All are checked for every value of the constants under the named assumptions of
the modules: a finite, non-empty set of workers and at least one cell per worker;
a tree with its root a directory; exclusions that cover what is below what they
cover; streams in canonical order; `/` one of the bytes; metadata of at least a
byte and blocks of at least a record; patterns and targets whose names are bytes;
a path in one directory, whose listing names only its children.
TLC evaluates these assumptions on every run. Where the code breaks a promise for
some trees or names, the property or its theorem says for which it holds:
`DevicesSettled` and `SharesMountedOnce` of `ScanPlan` (finding 1), `PlainNames` of
`Baseline` (findings 3, 9 and 11), `Oversized` in `NeverCorrupt` (finding 10) and
`apart` in the properties of `AtomicFile` (finding 4). Each is explained below, and
`MCScan` and `MCBaseline` have TLC evaluate the hypotheses: true on the instances
whose run passes, false on those that show the finding.

| Module | Invariant | Theorems of properties |
|---|---|---|
| `ScanProofs` | `IInv`, `PlanInv`, `ShareInv` | `TypeOK`, `RingNeverBlocks`, `ExclusiveCells`, `EmittedFinished`, `NothingOutlivesWalk`; `ImplementsOrderedScan`, `SharesAreNotEntered` |
| `CanonProofs` | | `CompareKeyIsTotalOrder`, `SubtreeComesFirst` (of `CompareKey` itself) |
| `PairProofs` | `TwoPaths`, `Entries` | `AgreesWithNames`, `SubtreeIsContiguous`; `ContentClaimsAreVerified`, `UnchangedMeansEqual`, `TouchIsInvisible` |
| `JoinerProofs` | `JInv` | `TypeOK`, `ReportIsPrefix`, `DoneMeansComplete`, `CountersAddUp` |
| `StoreProofs` | `SInv` | `TypeOK`, `AcceptedIsSorted`, `ReadsBack`, `NeverCorrupt`, `DamageIsRefused`, `SeekIsLocal` |
| `AtomicFileProofs` | `AInv`, `FoundInv` | `TypeOK`, `FinalIsWhole`, `DoneIsDurable`, `NoForceSparesFound`, `NoLeftover` |
| `CompareProofs` | `CInv` | `TypeOK`, `ReportIsWhole`, `UnchangedIsQuiet`, `NewContentsUnlisted`, `ExitTellsDrift`, `SummaryCountsAll`, `ReportAddsUp` |
| `BaselineProofs` | `TypeInv`, `RunInv` | `TypeOK`, `ImplementsFingerprint`, `PerimeterIsKept` |

**`ScanProofs`**, for every tree, every number of workers, every ring size and
every failure. None of the first five is inductive alone. `IInv` adds where each
cell is:

* *Conservation*: the lengths of the two channels, plus one for a cell the walker
  holds and one for a cell the consumer holds, are the size of the ring. A walker
  about to commit holds a cell, hence `ordered` has room: `RingNeverBlocks`.
* *OnePlace*: no cell is in two of these places.
* *WaitGroups*: a cell's wait group is 1 exactly while it is owed to a worker or
  about to be, and no two workers have the same cell. With *Settled* (free and
  emitted cells are owed to nobody) this gives `ExclusiveCells`.
* *FinishedCells*: a committed cell with a wait group of 0 holds a finished
  entry, which `AwaitHash` turns into `EmittedFinished`.
* *Ending*: the order of the shutdown, which gives `NothingOutlivesWalk`.

The step lemma is split by the group of conjuncts concerned (types, places, wait
groups, entries, ending), each by action. The stale read of finding 1 does not
disturb any of this, and the five theorems hold with it.

`ImplementsOrderedScan` needs more: that the entries come out in the order of the
tree, and all of them. `PlanInv` says that the plan, the depth-first walk written
as a function of the tree, is at every moment

    what was emitted
      \o what the cells on their way will hold: in the consumer's hands,
          in ordered, in the walker's hands
      \o what the active calls of visit still owe

where a cell owed to a worker counts with the entry the hash will make of it, and a
call owes the plan of its path if it has not filled a cell yet, and that of its
remaining children otherwise, innermost call first (`Owes`). Each action moves the
border between two of the parts: `Acquire` takes the head off what is owed and puts
it in the walker's cell, `Commit`, `Receive` and `Emit` pass it on, `Hash` changes
nothing because the cell already counted as hashed, and a child that is excluded
owes nothing. After a failing `emit` or a cancelled walk something is owed for good,
and the context has ended: hence a nil result means all of it.

* *The plan exists.* `ChildrenPlan` recurs into the next directory and along the rest
  of the list. It stops at the depth limit, so the function is built by levels of
  the depth, each along the lists (`Recursion`, `AlongList`, `PlanExists`).
  `EveryNumber` and `EveryList` are induction on numbers and lists with the
  induction set as a parameter, so they can be cited where the library's, which
  take an operator, cannot.
* *`DevicesSettled`.* `visit` reads the device of a directory from a cell it gave
  away (finding 1), so the promise holds only where that does not matter: every
  mount is crossed whatever its device (`--mounts=all`, or `local` with only local devices); or
  all entries have one device, those of vanished paths included, which have 0; or
  the ring has a cell for each entry, so that none is used twice (`Enough`); or the
  walk stops at shares, none of them mounted twice, and then the rule decides as it
  would with the right device, with a ring of any size (`SharesStop`, `StopsAlike`,
  from the invariant of the next item). `scan_order` is an instance of the second
  and `scan_mounts` of the last; on the trees of `scan_stale_same` and
  `ScanShareTwice.cfg`, where the late device changes what is walked, none of the
  four holds.
* *Shares.* `SharesAreNotEntered` holds with a ring of any
  size, whatever device is read, if no share is mounted twice
  (`SharesMountedOnce`). `ShareInv` follows the paths that still wait for their
  visit, the names left in the calls of `visit`. Any two of them have disjoint
  subtrees (`Apart`), and no entry in a cell lies at or below one of them
  (`Beside`): a cell holds what was reached before. So when the walk comes to the
  mount point of a share, the entry whose device it reads, be it the directory or
  what took its cell, is not on that share, the rule sees two devices, and stops.

**`CanonProofs`**, for all paths of any length over any bytes. The loop of
`CompareKey` ends at a least index where two paths differ, whose existence is
the only induction, taken from the well-founded induction library
(`LeastElement`). The module also relates `CompareKey` to the order of the names,
which is the order of a depth-first walk. `Names` is a recursive function over the
bytes of a path. Up to the first byte where two paths differ they are split the
same way (`SameSplit`); a slash then closes a name for good, and any other byte is
part of it for good (`Continues`, which every later step of the recursion keeps).
So the path that `CompareKey` puts first has the lower name, or fewer names. The
converse follows because both orders are asymmetric and `CompareKey` is total.

**`PairProofs`** carries this to the two specifications whose states are pairs: the
pairs of paths of `CanonCheck`, and the pairs of entries of `ClassifyCheck` over any
sets of facts. The table is a case distinction, and so is the second proof.

**`JoinerProofs`**, for all streams, rules and `--show`. The inductive invariant
is a frontier: entries passed on either side are below all others of the other
side, and what was reported is exactly what is visible among the passed ones. At
the end the frontier has passed everything. Each counter is the cardinality of
the part of the passed paths that went its way, and these parts are disjoint.

**`StoreProofs`**, for any keys, any number of entries and any size of blocks and
metadata. The writer never looks back at what it wrote and the reader finds
everything by offsets, so the invariant relates the two layouts:

* *SortedInv*: the entries accepted so far are ascending and `lastKey` is the
  path of the last one, however many blocks lie between.
* *WritingInv*: the file is the header, the metadata and one piece per index
  entry; the index has the offset and length of each (`Sections`), and the
  records in the blocks, then in the block being built (`Remaining`), are the
  entries with each path cut by what it shares with the one before.
* *SealedInv*: a file that still ends with the magic has a digest, of pieces none
  of which is damaged. If nothing was altered the file is exactly what `Close`
  makes of the above (`WholeFile`): every offset the footer and the index record
  is the sum of the lengths in front of it, and every piece has a length, so a
  piece is found at its offset and nowhere else.
* *ReadInv*: the cursor stands between two entries. Its position `Pos` is the
  number of entries in the blocks up to the one it is in, less what is left of
  that; the path the next record is decoded against is that of the entry at
  `Pos`; what was returned is the entries after those `Seek` passed, up to `Pos`.
  While it seeks, it is in the block the index gave, or at the start of the next.

`NeverCorrupt` follows from the first three for a file within the limits: what it
adds is that nothing else can make the reader refuse, that the limits it meets are
those of the metadata, the index and the strings, and that a block is beyond its
own only if a path is; `DamageIsRefused` from the digest,
`SeekIsLocal` and `ReadsBack` from the last. `Sums`, the offsets, is a recursive
function: that the recursion has a solution is proved by the least place where
it would fail (`SumsExist`), as it is for `Names`. Paths are compared as in
`CanonProofs`.

**`AtomicFileProofs`**, for any number of runs, crashes and blocks, in any overlap.
`NoForceSparesFound` has an invariant of its own (`FoundInv`): for a run without
`--force` there is still nothing under the final name, or another run has renamed
its file there since the check, for only a rename puts one there (`FinalByRename`).
The other three are promises to runs that did not overlap, and are proved of the states and steps
up to the first overlap (`AtomicAInvariant`: `apart => AInv`): what has ever had the
final name, in any directory a crash may bring back, is the same in the cache and on
disk (`FinalsArePure`); the only inode anybody writes is the current temporary one,
which never had the final name (`TmpIsFresh`); each run has done what its place in
`Commit` says (`Progress`); and a rename that was followed by a sync of the directory
is in every directory since (`DoneIsInEveryDir`).

**`CompareProofs`**, for every set of pairs of trees, perimeter, depth limit and
mode. The module takes the theorems of `JoinerProofs` through an `INSTANCE` and
proves the assumptions they need: the streams the walks give are ascending and hold
exactly the paths scanned (`Rank` numbers the paths of a finite set). Every step
of the command is a step of the join or leaves it where it is, so `JInv` carries
over. `CInv` adds which streams are joined, what each way out of `runCompare`
leaves (`Outcome`) and where the summaries come from. `UnchangedIsQuiet` needs that
an equal tree under a smaller perimeter gives a part of the same stream with equal
entries; `NewContentsUnlisted`, that the `Descend` hook refuses exactly the
directories that a `+D` is reported for.

`ReportAddsUp` is about the lines of a finished report, which are a recursion over
the changes, a concatenation of sections and sums of counters.

* *Filing.* After each change the sections together with the noise hold the changes
  so far, each in the one list its category and its path name (`KeptFiled`).
* *Headings.* `Close` gives each list that is not empty one heading, and no other
  (`SectionsHead`), so the lines of the report are the changes (`LinesAreChanges`).
* *Sums.* The counters are sizes of disjoint sets of changes. `SumOfParts` says once
  that the library's sum of such sizes, a fold over a set, is the size of the union;
  it serves the headings, the three groups of the summary and the total.
* *The join.* The changes, the hidden and the ignored ones are all the differences
  by `DoneAddsUp` of `JoinerProofs`, since a final report comes of a join that ended.

**`BaselineProofs`**, for every tree, list of patterns, root, target and place of a
fault or a signal. `TypeOK` holds for all names (`TypeInv`). The refinement of
`Fingerprint` and `PerimeterIsKept` are false for some names, by findings 3, 9 and 11,
and are proved under `PlainNames`:

* patterns, roots and the run's own files divide into characters of UTF-8 (`Text`);
* the roots and targets are given by the paths the walk makes of them, and the
  root is absolute and clean;
* a path of the run's own (the target, its temporary file, the binary) has no
  glob byte and no blank at either end, is absolute and clean, is not the root
  itself, and no path of the tree is below it.

`MCBaseline` has TLC evaluate it: it is true on the instance of the run `baseline`,
and false on those of `baseline_itself` and the two other configurations. `RunInv` says that the compiled
set and the plan are those of the perimeter, that the writer holds the beginning of
the plan, that its `lastKey` is the path of the last of them, and that a file is
sealed only when it holds the whole plan. The argument has four parts.

* *Cleaning.* `Clean` is a recursion over the bytes of a path and leaves no slash
  twice and none at the end, so a clean path names itself (`PathAsItself`).
* *Compiling.* A pattern is trimmed, then dropped, or put among the prefixes or the
  globs, one after the other (`AddListed`, `AddAuto`). The patterns a set records
  compile to the same set again (`CompiledAgain`), and the automatic ones widen it by
  the run's own files and nothing else (`WidensMatch`). JSON
  puts together again what divides into characters, and no other character begins at
  the same place (`JsonOfText`). Hence the second scan sees
  what the first recorded, whatever the report of the second is called.
* *Order.* The walk lists the paths of a finite set in the order of their names
  (`WalkOrderLists`), which is the canonical one (`NamesLessIsLess`, from
  `AgreesWithNames`' lemmas), so `Add` never refuses what the walk gives it
  (`NeverRefused`). Without this step the refinement fails: an error without a
  fault is not a step of `Fingerprint`.
* *Steps.* Every action is then a step of `Fingerprint` or a stutter: `Commit` puts
  the whole plan under the name, and every other way out leaves the old file.

The folds and recursive functions in it are functions over an initial segment of the
numbers; that each has a solution is proved once, from the least number where it
would fail (`Climb`, `Recursion`).

**Model-checked only**:

* `WalkReturns`: liveness under fairness is out of the prover's reach.
* The three runs that must find a violation.

## What is not modelled

`PROJECT.json` gives the status and the reason for each component. In short:

* Not state: `osdetect`, `humanize`, `cstr`, the flag parsing and the printing
  commands; of `report`, the header, the layout and the mount notes.
* Data left out of modelled parts: the counters of `Stats` but for `Pruned`,
  modes, owners and dates in a scan, the detail texts, the byte encoding of the
  store's fields, zstd, the JSON of the header but for the patterns in it.
* The numbers an altered fingerprint may decode to, hence the 64-bit sums of the
  bounds checks. An altered file does not pass `Verify`, which is called before any
  entry is read; what is left out is how much work `NewReader` may do before.
* `?`, ranges, negated classes and escapes in globs; the default exclusions,
  which are a list; how the categories of an ignore rule are parsed.
* The filesystem changing during a walk, except for paths that vanish or cannot
  be read: a path's type and size do not change between its stat and its hash.
* A failing `os.Remove`, and a target whose stat fails for another reason than
  not being there.
* In `Compare`, standard output as the destination of the report (nothing is
  taken back there) and the inside of the checks before the report is opened,
  which only refuse. In `Baseline`, the inside of the walk and of the commit,
  which `Scan` and `AtomicFile` model, and a tree that changes meanwhile.

## The plan

Every component whose state matters has a module, and every safety invariant of a
passing run a theorem. What is left, in order of worth: a module `Ignore` on top of
`Exclude`, and the reader's bounds checks with their 64-bit arithmetic.
