-------------------------------- MODULE Scan --------------------------------
(***************************************************************************)
(* internal/scan: one call of Walk.                                        *)
(*                                                                         *)
(* Three kinds of goroutines share a ring of cells.  The walker visits the *)
(* tree in name order, fills a free cell per path, hands regular files to  *)
(* a hashing worker and commits the cell.  The workers hash in parallel.   *)
(* The consumer -- the goroutine that called Walk -- takes the cells back  *)
(* in commit order, waits for each one's worker, and calls emit.  The      *)
(* context may be cancelled at any moment, and emit may fail at any call.  *)
(*                                                                         *)
(* The recursion of visit is the variable stack: one frame per active      *)
(* call, its locals in it.  A frame keeps the CELL the call acquired, not  *)
(* a copy of the entry, because visit keeps the pointer e := &s.entry and  *)
(* reads e.Dev through it when it visits the children.                     *)
(***************************************************************************)
EXTENDS Integers, Sequences, FiniteSets

CONSTANTS
    Node,         \* the paths of the scanned tree
    Root,         \* opts.Root
    Kids,         \* the children of each directory, in name order
    Kind,         \* what lstat says a path is
    Dev,          \* the device each path is on
    LocalDev,     \* the devices classifyFS reports as FSLocal
    Excluded,     \* the paths opts.Exclude matches
    Big,          \* the files larger than opts.MaxFileSize
    Refused,      \* the directories the opts.Descend hook answers false for
    Mounts,       \* opts.Mounts
    MaxDepth,     \* opts.MaxDepth
    NoHash,       \* opts.NoHash
    MaxSkipped,   \* maxSkippedMounts
    Worker,       \* the hashing workers; opts.Jobs is their number
    CellsPerJob,  \* ring cells per worker: 4 in the code
    World         \* what the system calls may answer, see WorldAssumption

Kinds == {"dir", "file", "symlink", "other"}

ASSUME TreeAssumption ==
    /\ Root \in Node
    /\ Kids \in [Node -> Seq(Node)]
    /\ Kind \in [Node -> Kinds]
    /\ Kind[Root] = "dir"
    /\ Dev \in [Node -> Nat]

ASSUME OptionsAssumption ==
    /\ Mounts \in {"local", "same", "all"}
    /\ MaxDepth \in Nat \ {0}
    /\ NoHash \in BOOLEAN
    /\ MaxSkipped \in Nat

ASSUME PoolAssumption ==
    /\ IsFiniteSet(Worker)
    /\ Worker # {}
    /\ CellsPerJob \in Nat \ {0}

(***************************************************************************)
(* A walk makes each system call at most once per path, so the answers of  *)
(* one run can be drawn in the initial state: bad holds the paths whose    *)
(* readlink, ReadDir or read fails, gone the ones that vanish between      *)
(* their parent's listing and their stat, and listing what ReadDir returns *)
(* for each directory -- on failure, the entries read before the error.    *)
(***************************************************************************)
Answers == [bad: SUBSET Node, gone: SUBSET Node, listing: [Node -> Seq(Node)]]

ASSUME WorldAssumption == World \subseteq Answers

-----------------------------------------------------------------------------
RingSize == CellsPerJob * Cardinality(Worker)
Cell     == 1 .. RingSize
NoCell   == 0

\* The capacities of the two channels, in newRing.
FreeCap         == RingSize
OrderedCapShort == RingSize - 1   \* mutant: one place less than there are cells
OrderedCap      == RingSize

NoPath == "none"

\* Entry{}, reduced to the fields a walk decides on.
ZeroEntry == [path |-> NoPath, type |-> "unknown", dev |-> 0, hash |-> "none", err |-> FALSE]

Entry == [path: Node \cup {NoPath}, type: Kinds \cup {"unknown", "error"},
          dev: Nat, hash: {"none", "sum", "partial"}, err: BOOLEAN]

Frame == [path: Node, cell: Cell \cup {NoCell}, rest: Seq(Node), depth: Nat, parentDev: Nat]

VARIABLES
    world,      \* the answers of the system calls of this run
    cancelled,  \* ctx.Done() is closed
    free,       \* ring.free
    ordered,    \* ring.ordered
    closed,     \* ring.ordered has been closed
    entry,      \* slot.entry of each cell
    wg,         \* slot.wg of each cell
    wpc,        \* where the walker goroutine is
    stack,      \* its active calls of visit, outermost first
    cur,        \* the cell it holds: acquired and not yet committed
    walkErr,    \* Walk's walkErr
    pruned,     \* walker.pruned
    skipped,    \* walker.skipped
    job,        \* what each worker is doing
    workClosed, \* hasher.work has been closed
    cpc,        \* where the consumer is
    taken,      \* the cell the consumer holds
    emitErr,    \* Walk's emitErr
    emitted,    \* the entries handed to emit, in order
    result      \* what Walk returned

ringVars     == <<free, ordered, closed>>
slotVars     == <<entry, wg>>
walkerVars   == <<wpc, stack, cur, walkErr, pruned, skipped>>
workerVars   == <<job, workClosed>>
consumerVars == <<cpc, taken, emitErr, emitted, result>>
vars == <<world, cancelled, ringVars, slotVars, walkerVars, workerVars, consumerVars>>

Idle   == NoCell   \* a worker blocked on hasher.work
Exited == -1       \* a worker that has returned

Top == stack[Len(stack)]

\* A fresh activation of visit, as Walk and the loop over the children make one.
Call(path, depth, parentDev) ==
    [path |-> path, cell |-> NoCell, rest |-> <<>>, depth |-> depth, parentDev |-> parentDev]

Init ==
    /\ world \in World
    /\ cancelled = FALSE
    /\ free = [i \in 1 .. RingSize |-> i]
    /\ ordered = <<>>
    /\ closed = FALSE
    /\ entry = [c \in Cell |-> ZeroEntry]
    /\ wg = [c \in Cell |-> 0]
    /\ wpc = "visit"
    /\ stack = <<Call(Root, 0, Dev[Root])>>
    /\ cur = NoCell
    /\ walkErr = "none"
    /\ pruned = 0
    /\ skipped = <<>>
    /\ job = [w \in Worker |-> Idle]
    /\ workClosed = FALSE
    /\ cpc = "receive"
    /\ taken = NoCell
    /\ emitErr = FALSE
    /\ emitted = <<>>
    /\ result = "none"

-----------------------------------------------------------------------------
(* What visit decides about the path it is given.                          *)

\* crossMount: may the walk enter the filesystem newly reached at path?
\* Mutant: only the policy is looked at, not the type of the filesystem.
CrossMountAny(path) == Mounts # "same"
CrossMount(path) ==
    \/ Mounts = "all"
    \/ Mounts = "local" /\ Dev[path] \in LocalDev

\* The first case of mayDescend, the one that also calls noteMount.
StopsAtMount(path, depth, parentDev) ==
    depth > 0 /\ Dev[path] # parentDev /\ ~CrossMount(path)

MayDescend(path, depth, parentDev) ==
    \/ depth = 0
    \/ /\ ~StopsAtMount(path, depth, parentDev)
       /\ depth < MaxDepth
       /\ path \notin Refused

\* The entry visit builds from the stat, the readlink and the listing.
VisitEntry(w, path, descend) ==
    [path |-> path, type |-> Kind[path], dev |-> Dev[path], hash |-> "none",
     err  |-> path \in w.bad /\ (Kind[path] = "symlink" \/ descend)]

\* The entry emitError builds for a path that could not be stat'ed at all.
LostEntry(path) == [ZeroEntry EXCEPT !.path = path, !.type = "error", !.err = TRUE]

\* hashEntry.  Mutant: a failing read leaves no trace in the entry.
HashEntrySilent(w, e) ==
    IF e.path \in Big THEN [e EXCEPT !.hash = "partial"]
    ELSE IF e.path \in w.bad THEN e
    ELSE [e EXCEPT !.hash = "sum"]

HashEntry(w, e) ==
    IF e.path \in Big THEN [e EXCEPT !.hash = "partial"]
    ELSE IF e.path \in w.bad THEN [e EXCEPT !.err = TRUE]
    ELSE [e EXCEPT !.hash = "sum"]

-----------------------------------------------------------------------------
(* The wait group of a slot.                                               *)

\* s.wg.Add(1), in visit before submit.  Mutant: it is forgotten.
WgAddForgotten(c) == wg
WgAdd(c)  == [wg EXCEPT ![c] = @ + 1]

WgDone(c) == [wg EXCEPT ![c] = @ - 1]

\* s.wg.Wait() may return.  Mutant: nobody waits.
WgFreeAlways(c) == TRUE
WgFree(c) == wg[c] = 0

-----------------------------------------------------------------------------
(* The walker goroutine.                                                   *)

\* visit: the check of ctx.Err() on entry.
Visit ==
    /\ wpc = "visit"
    /\ ~cancelled
    /\ wpc' = "acquire"
    /\ UNCHANGED <<world, cancelled, ringVars, slotVars, stack, cur, walkErr, pruned, skipped,
                   workerVars, consumerVars>>

\* ring.acquire, the case of a free cell.
TakeFree ==
    /\ free # <<>>
    /\ cur' = Head(free)
    /\ free' = Tail(free)

\* visit, from the acquired cell to the decision whether the file is hashed.
Acquire ==
    /\ wpc = "acquire"
    /\ TakeFree
    /\ LET isDir   == Kind[Top.path] = "dir"
           descend == isDir /\ MayDescend(Top.path, Top.depth, Top.parentDev)
           hashed  == Kind[Top.path] = "file" /\ ~NoHash
           mount   == isDir /\ StopsAtMount(Top.path, Top.depth, Top.parentDev)
       IN  /\ entry' = [entry EXCEPT ![Head(free)] = VisitEntry(world, Top.path, descend)]
           /\ stack' = [stack EXCEPT
                          ![Len(stack)].cell = Head(free),
                          ![Len(stack)].rest = IF descend THEN world.listing[Top.path] ELSE <<>>]
           /\ pruned' = IF isDir /\ ~descend THEN pruned + 1 ELSE pruned
           /\ skipped' = IF mount /\ Len(skipped) < MaxSkipped
                         THEN Append(skipped, Top.path) ELSE skipped
           /\ wg' = IF hashed THEN WgAdd(Head(free)) ELSE wg
           /\ wpc' = IF hashed THEN "submit" ELSE "commit"
    /\ UNCHANGED <<world, cancelled, ordered, closed, walkErr, workerVars, consumerVars>>

\* hasher.submit: the cell goes to a worker that is waiting on the channel.
Submit(w) ==
    /\ wpc = "submit"
    /\ job[w] = Idle
    /\ job' = [job EXCEPT ![w] = cur]
    /\ wpc' = "commit"
    /\ UNCHANGED <<world, cancelled, ringVars, slotVars, stack, cur, walkErr, pruned, skipped,
                   workClosed, consumerVars>>

\* ring.commit.  It is called from visit and from emitError.
Commit ==
    /\ wpc = "commit"
    /\ Len(ordered) < OrderedCap
    /\ ordered' = Append(ordered, cur)
    /\ cur' = NoCell
    /\ wpc' = "children"
    /\ UNCHANGED <<world, cancelled, free, closed, slotVars, stack, walkErr, pruned, skipped,
                   workerVars, consumerVars>>

\* The loop over the children: the next one, when it is not excluded.
NextChild == Head(Top.rest)
StackAfterChild == [stack EXCEPT ![Len(stack)].rest = Tail(Top.rest)]

AtChild ==
    /\ wpc = "children"
    /\ Top.rest # <<>>

SkipExcluded ==
    /\ AtChild
    /\ NextChild \in Excluded
    /\ stack' = StackAfterChild
    /\ UNCHANGED <<world, cancelled, ringVars, slotVars, wpc, cur, walkErr, pruned, skipped,
                   workerVars, consumerVars>>

\* The recursive call.  e.Dev is read through the cell of the parent, which was
\* committed before the loop.  Mutant: the depth is passed on unchanged.
ChildCallSameDepth(child) == Call(child, Top.depth, entry[Top.cell].dev)
ChildCall(child) == Call(child, Top.depth + 1, entry[Top.cell].dev)

VisitChild ==
    /\ AtChild
    /\ NextChild \notin Excluded \cup world.gone
    /\ stack' = Append(StackAfterChild, ChildCall(NextChild))
    /\ wpc' = "visit"
    /\ UNCHANGED <<world, cancelled, ringVars, slotVars, cur, walkErr, pruned, skipped,
                   workerVars, consumerVars>>

\* c.Info failed: emitError, up to its commit.
EmitError ==
    /\ AtChild
    /\ NextChild \in world.gone \ Excluded
    /\ TakeFree
    /\ entry' = [entry EXCEPT ![Head(free)] = LostEntry(NextChild)]
    /\ stack' = StackAfterChild
    /\ wpc' = "commit"
    /\ UNCHANGED <<world, cancelled, ordered, closed, wg, walkErr, pruned, skipped,
                   workerVars, consumerVars>>

\* visit returns nil; from the outermost call, so does the walk.
Leave ==
    /\ wpc = "children"
    /\ Top.rest = <<>>
    /\ stack' = SubSeq(stack, 1, Len(stack) - 1)
    /\ wpc' = IF Len(stack) = 1 THEN "stop" ELSE "children"
    /\ UNCHANGED <<world, cancelled, ringVars, slotVars, cur, walkErr, pruned, skipped,
                   workerVars, consumerVars>>

\* An error of ctx is returned through every active call.
Unwind ==
    /\ stack' = <<>>
    /\ walkErr' = "cancelled"
    /\ wpc' = "stop"

\* ctx.Err() in visit, or ctx.Done() in an acquire of visit or of emitError.
Cancelled ==
    /\ cancelled
    /\ \/ wpc \in {"visit", "acquire"}
       \/ AtChild /\ NextChild \in world.gone \ Excluded
    /\ Unwind
    /\ UNCHANGED <<world, cancelled, ringVars, slotVars, cur, pruned, skipped,
                   workerVars, consumerVars>>

\* ctx.Done() in submit.  The cell is never committed and never released.
SubmitCancelled ==
    /\ cancelled
    /\ wpc = "submit"
    /\ wg' = WgDone(cur)
    /\ Unwind
    /\ UNCHANGED <<world, cancelled, ringVars, entry, cur, pruned, skipped,
                   workerVars, consumerVars>>

\* The deferred hasher.stop: close(h.work), then h.wg.Wait().
\* Mutant: the channel is never closed.
StopHasherNoClose ==
    /\ wpc = "stop"
    /\ wpc' = "drain"
    /\ UNCHANGED <<world, cancelled, ringVars, slotVars, stack, cur, walkErr, pruned, skipped,
                   workerVars, consumerVars>>

StopHasher ==
    /\ wpc = "stop"
    /\ workClosed' = TRUE
    /\ wpc' = "drain"
    /\ UNCHANGED <<world, cancelled, ringVars, slotVars, stack, cur, walkErr, pruned, skipped,
                   job, consumerVars>>

\* h.wg.Wait() may return.  Mutant: the ring is closed without waiting for it.
WorkersGoneUnchecked == TRUE
WorkersGone == \A w \in Worker : job[w] = Exited

\* The deferred ring.close, the goroutine's last step.
CloseRing ==
    /\ wpc = "drain"
    /\ WorkersGone
    /\ closed' = TRUE
    /\ wpc' = "done"
    /\ UNCHANGED <<world, cancelled, free, ordered, slotVars, stack, cur, walkErr, pruned, skipped,
                   workerVars, consumerVars>>

-----------------------------------------------------------------------------
(* A worker.                                                               *)

Hash(w) ==
    /\ job[w] \in Cell
    /\ entry' = [entry EXCEPT ![job[w]] = HashEntry(world, @)]
    /\ wg' = WgDone(job[w])
    /\ job' = [job EXCEPT ![w] = Idle]
    /\ UNCHANGED <<world, cancelled, ringVars, walkerVars, workClosed, consumerVars>>

Exit(w) ==
    /\ job[w] = Idle
    /\ workClosed
    /\ job' = [job EXCEPT ![w] = Exited]
    /\ UNCHANGED <<world, cancelled, ringVars, slotVars, walkerVars, workClosed, consumerVars>>

-----------------------------------------------------------------------------
(* The consumer: Walk's own loop.                                          *)

Receive ==
    /\ cpc = "receive"
    /\ ordered # <<>>
    /\ taken' = Head(ordered)
    /\ ordered' = Tail(ordered)
    /\ cpc' = "wait"
    /\ UNCHANGED <<world, cancelled, free, closed, slotVars, walkerVars, workerVars,
                   emitErr, emitted, result>>

\* s.wg.Wait().
AwaitHash ==
    /\ cpc = "wait"
    /\ WgFree(taken)
    /\ cpc' = "emit"
    /\ UNCHANGED <<world, cancelled, ringVars, slotVars, walkerVars, workerVars,
                   taken, emitErr, emitted, result>>

\* stats.count and emit, unless an earlier emit failed; on failure, cancel().
Emit(fails) ==
    /\ cpc = "emit"
    /\ IF emitErr
       THEN /\ ~fails
            /\ UNCHANGED <<emitted, emitErr, cancelled>>
       ELSE /\ emitted' = Append(emitted, entry[taken])
            /\ emitErr' = fails
            /\ cancelled' = (cancelled \/ fails)
    /\ cpc' = "release"
    /\ UNCHANGED <<world, ringVars, slotVars, walkerVars, workerVars, taken, result>>

\* ring.release.
Release ==
    /\ cpc = "release"
    /\ Len(free) < FreeCap
    /\ free' = Append(free, taken)
    /\ taken' = NoCell
    /\ cpc' = "receive"
    /\ UNCHANGED <<world, cancelled, ordered, closed, slotVars, walkerVars, workerVars,
                   emitErr, emitted, result>>

\* What Walk returns: an error of emit comes before one of the walk, which it
\* caused.  Mutant: the two are tested in the other order.
OutcomeWalkFirst == IF walkErr # "none" THEN walkErr ELSE IF emitErr THEN "emit" ELSE "nil"
Outcome == IF emitErr THEN "emit" ELSE IF walkErr # "none" THEN walkErr ELSE "nil"

\* The range over ordered ends.
Return ==
    /\ cpc = "receive"
    /\ closed
    /\ ordered = <<>>
    /\ cpc' = "done"
    /\ result' = Outcome
    /\ UNCHANGED <<world, cancelled, ringVars, slotVars, walkerVars, workerVars,
                   taken, emitErr, emitted>>

\* The caller's context: an interrupt of the command, which may be repeated.
Interrupt ==
    /\ cpc # "done"
    /\ cancelled' = TRUE
    /\ UNCHANGED <<world, ringVars, slotVars, walkerVars, workerVars, consumerVars>>

\* Walk has returned: nothing is left to run.
Returned ==
    /\ cpc = "done"
    /\ UNCHANGED vars

-----------------------------------------------------------------------------
Walker ==
    \/ Visit \/ Acquire \/ Commit
    \/ SkipExcluded \/ VisitChild \/ EmitError \/ Leave
    \/ Cancelled \/ SubmitCancelled \/ StopHasher \/ CloseRing
    \/ \E w \in Worker : Submit(w)

Hasher(w) == Hash(w) \/ Exit(w)

Consumer ==
    \/ Receive \/ AwaitHash \/ Release \/ Return
    \/ \E fails \in BOOLEAN : Emit(fails)

Next ==
    \/ Walker
    \/ \E w \in Worker : Hasher(w)
    \/ Consumer
    \/ Interrupt
    \/ Returned

\* Each goroutine that can run is eventually run: the Go scheduler is fair, a
\* channel operation that stays possible is eventually made, and neither the
\* system calls nor emit block for ever.  An interrupt need not come.
Fairness ==
    /\ WF_vars(Walker)
    /\ \A w \in Worker : WF_vars(Hasher(w))
    /\ WF_vars(Consumer)

Spec == Init /\ [][Next]_vars /\ Fairness

-----------------------------------------------------------------------------
(* Properties.                                                             *)

TypeOK ==
    /\ world \in Answers
    /\ cancelled \in BOOLEAN /\ closed \in BOOLEAN /\ workClosed \in BOOLEAN /\ emitErr \in BOOLEAN
    /\ free \in Seq(Cell) /\ ordered \in Seq(Cell)
    /\ entry \in [Cell -> Entry]
    /\ wg \in [Cell -> Nat]
    /\ wpc \in {"visit", "acquire", "submit", "commit", "children", "stop", "drain", "done"}
    /\ stack \in Seq(Frame)
    /\ cur \in Cell \cup {NoCell} /\ taken \in Cell \cup {NoCell}
    /\ walkErr \in {"none", "cancelled"}
    /\ pruned \in Nat
    /\ skipped \in Seq(Node)
    /\ job \in [Worker -> Cell \cup {Idle, Exited}]
    /\ cpc \in {"receive", "wait", "emit", "release", "done"}
    /\ emitted \in Seq(Entry)
    /\ result \in {"none", "nil", "emit", "cancelled"}

\* "ordered holds at most every existing cell, so committing never blocks and
\* the walker can only ever wait on free" (newRing): the send in commit and the
\* send in release always find room in their channel.
RingNeverBlocks ==
    /\ wpc = "commit" => Len(ordered) < OrderedCap
    /\ cpc = "release" => Len(free) < FreeCap

\* The consumer never hands out an entry that a worker is still writing
\* (submit: "the consumer cannot read the entry early"), and the walker never
\* reuses the cell of an entry that is waiting, being hashed or being emitted.
ExclusiveCells ==
    /\ cpc \in {"emit", "release"} => \A w \in Worker : job[w] # taken
    /\ cur # NoCell => cur # taken /\ \A i \in 1 .. Len(ordered) : ordered[i] # cur
    /\ \A i \in 1 .. Len(free) : \A w \in Worker : job[w] # free[i]

\* "Every committed cell has been through a worker by the time the consumer
\* reaches" it (Walk): a regular file is handed to emit with its hash, with the
\* mark that it was too large, or with the error of reading it.
Finished(e) == e.type = "file" /\ ~NoHash => e.hash # "none" \/ e.err

EmittedFinished == \A i \in 1 .. Len(emitted) : Finished(emitted[i])

\* No goroutine outlives Walk, so walkErr, pruned and skipped are final when it
\* reads them; and every cell is back in the pool, except the one a cancelled
\* submit left behind.
NothingOutlivesWalk ==
    cpc = "done" =>
        /\ wpc = "done"
        /\ \A w \in Worker : job[w] = Exited
        /\ Len(free) = IF cur = NoCell THEN RingSize ELSE RingSize - 1
        /\ result = "nil" => cur = NoCell

\* Walk returns: the walker, the workers and the consumer never wait on each
\* other for ever, whenever the context is cancelled and whichever emit fails
\* ("the walker is likely blocked on a free cell and would never notice").
WalkReturns == <>(result # "none")
=============================================================================
