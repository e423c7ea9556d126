----------------------------- MODULE ScanProofs -----------------------------
(***************************************************************************)
(* Theorems about Scan, for every tree, every set of options, every number *)
(* of workers and every size of the ring.                                  *)
(*                                                                         *)
(* The invariants of Scan follow from one inductive invariant, IInv.  Its  *)
(* heart is the whereabouts of the cells: each cell is in the free list,   *)
(* in the ordered queue, with the walker or with the consumer, never in    *)
(* two of these places, and its wait group is 1 exactly while it is owed   *)
(* to a worker.                                                            *)
(***************************************************************************)
EXTENDS ScanPlan, SequenceTheorems, FiniteSetTheorems, WellFoundedInduction, TLAPS

Active   == {"visit", "acquire", "submit", "commit", "children"}
Filled   == {"submit", "commit", "children"}
Stopping == {"stop", "drain", "done"}

Held(c) == IF c = NoCell THEN 0 ELSE 1

\* The calls of visit: every frame but a fresh one on top has its cell.
StackShape ==
    /\ wpc \in Active => stack # <<>>
    /\ \A i \in 1 .. Len(stack) :
          i < Len(stack) \/ wpc \in Filled => stack[i].cell \in Cell

\* Who holds a cell, by program counter.
Holding ==
    /\ wpc \in {"submit", "commit"} => cur \in Cell
    /\ wpc \in {"visit", "acquire", "children"} => cur = NoCell
    /\ cpc \in {"wait", "emit", "release"} <=> taken \in Cell

\* No cell is lost and none is duplicated.
Conservation ==
    Len(free) + Len(ordered) + Held(cur) + Held(taken) = RingSize

\* A cell is in one place.
OnePlace ==
    /\ \A i, j \in 1 .. Len(free) : free[i] = free[j] => i = j
    /\ \A i, j \in 1 .. Len(ordered) : ordered[i] = ordered[j] => i = j
    /\ \A i \in 1 .. Len(free), j \in 1 .. Len(ordered) : free[i] # ordered[j]
    /\ \A i \in 1 .. Len(free) : free[i] # cur /\ free[i] # taken
    /\ \A i \in 1 .. Len(ordered) : ordered[i] # cur /\ ordered[i] # taken
    /\ cur \in Cell => cur # taken

\* The wait group of a cell counts the worker that hashes it, or is about to.
WaitGroups ==
    /\ \A w \in Worker : job[w] \in Cell => wg[job[w]] = 1
    /\ \A v, w \in Worker : job[v] \in Cell /\ job[v] = job[w] => v = w
    /\ wpc = "submit" => wg[cur] = 1 /\ \A w \in Worker : job[w] # cur
    /\ \A c \in Cell : wg[c] \in {0, 1}

\* Nothing is owed to a worker for a free cell, nor for one being emitted.
Settled ==
    /\ \A i \in 1 .. Len(free) : wg[free[i]] = 0
    /\ cpc \in {"emit", "release"} => wg[taken] = 0

\* A cell on its way to emit that no worker is owed is finished.
FinishedCells ==
    /\ wpc = "commit" /\ wg[cur] = 0 => Finished(entry[cur])
    /\ \A i \in 1 .. Len(ordered) : wg[ordered[i]] = 0 => Finished(entry[ordered[i]])
    /\ taken \in Cell /\ wg[taken] = 0 => Finished(entry[taken])

\* The end of the walk.
Ending ==
    /\ closed => wpc = "done"
    /\ workClosed => wpc \in {"drain", "done"}
    /\ wpc \in Stopping /\ cur # NoCell => walkErr = "cancelled"
    /\ wpc = "done" => closed /\ \A w \in Worker : job[w] = Exited
    /\ cpc = "done" => closed /\ ordered = <<>> /\ taken = NoCell
    /\ cpc # "done" => result = "none"
    /\ result = "nil" => walkErr = "none"

IInv ==
    /\ TypeOK
    /\ StackShape
    /\ Holding
    /\ Conservation
    /\ OnePlace
    /\ WaitGroups
    /\ Settled
    /\ FinishedCells
    /\ EmittedFinished
    /\ Ending

-----------------------------------------------------------------------------
(* The ring has at least one cell. *)
LEMMA RingSizeType == RingSize \in Nat \ {0}
<1>1. Cardinality(Worker) \in Nat
  BY PoolAssumption, FS_CardinalityType
<1>2. Cardinality(Worker) # 0
  BY PoolAssumption, FS_EmptySet
<1>3. CellsPerJob \in Nat \ {0}
  BY PoolAssumption
<1> QED
  BY <1>1, <1>2, <1>3 DEF RingSize

(* The entries visit, emitError and hashEntry build are entries. *)
LEMMA EntryTypes ==
    /\ \A w \in Answers, n \in Node, d \in BOOLEAN : VisitEntry(w, n, d) \in Entry
    /\ \A n \in Node : LostEntry(n) \in Entry
    /\ \A w \in Answers, e \in Entry : HashEntry(w, e) \in Entry /\ Finished(HashEntry(w, e))
<1>1. \A w \in Answers, n \in Node, d \in BOOLEAN : VisitEntry(w, n, d) \in Entry
  BY TreeAssumption DEF VisitEntry, Entry, Kinds
<1>2. \A n \in Node : LostEntry(n) \in Entry
  BY DEF LostEntry, ZeroEntry, Entry
<1>3. \A w \in Answers, e \in Entry : HashEntry(w, e) \in Entry /\ Finished(HashEntry(w, e))
  BY DEF HashEntry, Entry, Finished
<1> QED
  BY <1>1, <1>2, <1>3

LEMMA InitIInv == Init => IInv
<1> SUFFICES ASSUME Init PROVE IInv
  OBVIOUS
<1> USE RingSizeType DEF Init
<1>1. TypeOK
  <2>1. free \in Seq(Cell) /\ ordered \in Seq(Cell)
    BY DEF Cell
  <2>2. Call(Root, 0, Dev[Root]) \in Frame
    BY TreeAssumption DEF Call, Frame
  <2>3. stack \in Seq(Frame)
    BY <2>2
  <2>4. entry \in [Cell -> Entry] /\ wg \in [Cell -> Nat]
    BY DEF Entry, ZeroEntry
  <2>5. job \in [Worker -> Cell \cup {Idle, Exited}]
    OBVIOUS
  <2>6. emitted \in Seq(Entry) /\ skipped \in Seq(Node)
    OBVIOUS
  <2>7. world \in Answers
    BY WorldAssumption
  <2> QED
    BY <2>1, <2>3, <2>4, <2>5, <2>6, <2>7, Zenon DEF TypeOK
<1>2. StackShape /\ Holding /\ Ending /\ EmittedFinished
  BY DEF StackShape, Holding, Ending, EmittedFinished, Call, Active, Filled, Stopping, Cell, NoCell
<1>3. Conservation
  BY DEF Conservation, Held
<1>4. OnePlace
  BY DEF OnePlace, Cell, NoCell
<1>5. WaitGroups /\ Settled
  BY DEF WaitGroups, Settled, Cell, NoCell, Idle
<1>6. FinishedCells
  BY DEF FinishedCells, Cell, NoCell
<1> QED
  BY <1>1, <1>2, <1>3, <1>4, <1>5, <1>6 DEF IInv

-----------------------------------------------------------------------------
(* Type correctness, with the shape of the stack and the holders of cells. *)

Typed == TypeOK /\ StackShape /\ Holding

\* An active call has a frame on top of the stack.
LEMMA TopFrame ==
    ASSUME Typed, wpc \in Active
    PROVE  /\ Len(stack) \in Nat \ {0}
           /\ Top \in Frame
           /\ wpc \in Filled => Top.cell \in Cell
  BY DEF Typed, TypeOK, StackShape, Active, Filled, Top

\* The steps of the walker that only move within the stack.
LEMMA TypedWalk ==
    ASSUME Typed, Visit \/ SkipExcluded \/ VisitChild \/ Leave
    PROVE  Typed'
<1> USE DEF ringVars, slotVars, walkerVars, workerVars, consumerVars
<1>a. wpc \in Active
  BY DEF Visit, SkipExcluded, VisitChild, Leave, AtChild, Active
<1>b. Len(stack) \in Nat \ {0} /\ Top \in Frame /\ stack \in Seq(Frame)
  BY <1>a, TopFrame DEF Typed, TypeOK
<1>c. ASSUME Top.rest # <<>>
      PROVE  /\ NextChild \in Node
             /\ StackAfterChild \in Seq(Frame)
             /\ Len(StackAfterChild) = Len(stack)
             /\ \A i \in 1 .. Len(stack) : StackAfterChild[i].cell = stack[i].cell
  <2>1. Top.rest \in Seq(Node) /\ NextChild \in Node /\ Tail(Top.rest) \in Seq(Node)
    BY <1>b, <1>c DEF Frame, NextChild
  <2>2. [Top EXCEPT !.rest = Tail(Top.rest)] \in Frame
    BY <1>b, <2>1 DEF Frame
  <2>3. StackAfterChild = [stack EXCEPT ![Len(stack)] = [Top EXCEPT !.rest = Tail(Top.rest)]]
    BY <1>b DEF StackAfterChild, Top
  <2> QED
    BY <1>b, <2>1, <2>2, <2>3 DEF Top, Frame
<1>1. CASE Visit
  BY <1>1, <1>b DEF Visit, Typed, TypeOK, StackShape, Holding, Active, Filled
<1>2. CASE SkipExcluded
  BY <1>2, <1>b, <1>c DEF SkipExcluded, AtChild, Typed, TypeOK, StackShape, Holding, Active, Filled
<1>3. CASE VisitChild
  <2>1. wpc = "children" /\ Top.rest # <<>>
    BY <1>3 DEF VisitChild, AtChild
  <2>2. Top.cell \in Cell
    BY <2>1, TopFrame DEF Filled, Active
  <2>3. ChildCall(NextChild) \in Frame
    <3>1. entry[Top.cell] \in Entry
      BY <2>2 DEF Typed, TypeOK
    <3>2. entry[Top.cell].dev \in Nat /\ Top.depth + 1 \in Nat
      BY <3>1, <1>b DEF Entry, Frame
    <3> QED
      BY <1>c, <2>1, <3>2 DEF ChildCall, Call, Frame
  <2>4. stack' = Append(StackAfterChild, ChildCall(NextChild))
    BY <1>3 DEF VisitChild
  <2>5. stack' \in Seq(Frame) /\ Len(stack') = Len(stack) + 1
    BY <1>b, <1>c, <2>1, <2>3, <2>4
  <2>6. \A i \in 1 .. Len(stack) : stack'[i].cell = stack[i].cell
    BY <1>b, <1>c, <2>1, <2>3, <2>4
  <2>7. \A i \in 1 .. Len(stack) : stack[i].cell \in Cell
    BY <2>1 DEF Typed, StackShape, Filled
  <2>8. StackShape'
    BY <1>b, <1>3, <2>5, <2>6, <2>7 DEF StackShape, VisitChild, Active, Filled
  <2> QED
    BY <1>3, <2>5, <2>8 DEF VisitChild, AtChild, Typed, TypeOK, Holding
<1>4. CASE Leave
  <2>1. /\ stack' = SubSeq(stack, 1, Len(stack) - 1)
        /\ wpc = "children"
    BY <1>4 DEF Leave
  <2>2. /\ stack' \in Seq(Frame)
        /\ Len(stack') = Len(stack) - 1
        /\ \A i \in 1 .. Len(stack') : stack'[i] = stack[i]
    <3>1. \A i \in 1 .. Len(stack) - 1 : stack[i] \in Frame
      BY <1>b
    <3>2. Len(stack) - 1 \in Int /\ 1 \in Int
      BY <1>b
    <3>3. /\ SubSeq(stack, 1, Len(stack) - 1) \in Seq(Frame)
          /\ Len(SubSeq(stack, 1, Len(stack) - 1)) = IF 1 <= Len(stack) - 1 THEN (Len(stack) - 1) - 1 + 1 ELSE 0
          /\ \A i \in 1 .. (Len(stack) - 1) - 1 + 1 : SubSeq(stack, 1, Len(stack) - 1)[i] = stack[1 + i - 1]
      BY ONLY <3>1, <3>2, SubSeqProperties
    <3> DEFINE n == Len(stack) - 1
               popped == SubSeq(stack, 1, n)
    <3>4. n \in Nat /\ n - 1 + 1 = n /\ \A i \in 1 .. n : 1 + i - 1 = i
      BY <1>b
    <3>5. Len(popped) = n
      BY <3>3, <3>4
    <3>6. \A i \in 1 .. n : popped[i] = stack[i]
      BY <3>3, <3>4
    <3> QED
      BY <2>1, <3>3, <3>5, <3>6
  <2>3. ASSUME wpc' \in Active PROVE stack' # <<>>
    <3>1. Len(stack) # 1
      BY <1>4, <2>3 DEF Leave, Active
    <3> QED
      BY <1>b, <2>2, <3>1
  <2>4. \A i \in 1 .. Len(stack) : stack[i].cell \in Cell
    BY <2>1 DEF Typed, StackShape, Filled
  <2>5. StackShape'
    BY <1>b, <2>2, <2>3, <2>4 DEF StackShape
  <2> QED
    BY <1>4, <2>2, <2>5 DEF Leave, Typed, TypeOK, Holding
<1> QED
  BY <1>1, <1>2, <1>3, <1>4

\* The steps of the walker that touch the ring or a slot.
LEMMA TypedRing ==
    ASSUME Typed, \/ Acquire \/ EmitError \/ Commit \/ \E w \in Worker : Submit(w)
    PROVE  Typed'
<1> USE DEF ringVars, slotVars, walkerVars, workerVars, consumerVars
<1>a. wpc \in Active
  BY DEF Acquire, EmitError, Commit, Submit, AtChild, Active
<1>b. Len(stack) \in Nat \ {0} /\ Top \in Frame /\ stack \in Seq(Frame)
  BY <1>a, TopFrame DEF Typed, TypeOK
<1>c. ASSUME TakeFree PROVE cur' \in Cell /\ cur' = Head(free) /\ free' \in Seq(Cell)
  BY <1>c DEF TakeFree, Typed, TypeOK
<1>1. CASE Acquire
  <2> DEFINE path == Top.path
             descend == Kind[path] = "dir" /\ MayDescend(path, Top.depth, Top.parentDev)
             children == IF descend THEN world.listing[path] ELSE <<>>
             frame == [Top EXCEPT !.cell = Head(free), !.rest = children]
  <2>1. TakeFree /\ wpc = "acquire" /\ wpc' \in {"submit", "commit"}
    BY <1>1 DEF Acquire
  <2>2. path \in Node /\ world.listing[path] \in Seq(Node)
    BY <1>b DEF Frame, Typed, TypeOK, Answers
  <2>3. frame \in Frame /\ frame.cell \in Cell
    <3>1. children \in Seq(Node)
      BY <2>2
    <3>2. Head(free) \in Cell
      BY <1>c, <2>1
    <3> HIDE DEF children
    <3> QED
      BY <1>b, <3>1, <3>2 DEF Frame
  <2>4. stack' = [stack EXCEPT ![Len(stack)] = frame]
    BY <1>1, <1>b DEF Acquire, Top
  <2>5. /\ stack' \in Seq(Frame) /\ Len(stack') = Len(stack)
        /\ \A j \in 1 .. Len(stack) : stack'[j].cell = IF j = Len(stack) THEN frame.cell ELSE stack[j].cell
    <3> HIDE DEF frame
    <3> QED
      BY <1>b, <2>3, <2>4
  <2>6. StackShape'
    <3>1. \A j \in 1 .. Len(stack) : j < Len(stack) => stack[j].cell \in Cell
      BY DEF Typed, StackShape
    <3>2. \A j \in 1 .. Len(stack') : stack'[j].cell \in Cell
      <4> HIDE DEF frame
      <4> QED
        BY <1>b, <2>3, <2>5, <3>1
    <3>3. stack' # <<>>
      BY <1>b, <2>5
    <3> QED
      BY <3>2, <3>3 DEF StackShape
  <2>7. descend \in BOOLEAN
    BY DEF MayDescend
  <2>8. VisitEntry(world, path, descend) \in Entry
    BY <2>2, <2>7, EntryTypes DEF Typed, TypeOK
  <2>9. entry' \in [Cell -> Entry]
    BY <1>1, <1>c, <2>1, <2>8 DEF Acquire, Typed, TypeOK
  <2>10. wg' \in [Cell -> Nat]
    BY <1>1, <1>c, <2>1 DEF Acquire, WgAdd, Typed, TypeOK
  <2>11. pruned' \in Nat /\ skipped' \in Seq(Node)
    BY <1>1, <2>2 DEF Acquire, Typed, TypeOK
  <2>12. UNCHANGED <<world, cancelled, ordered, closed, walkErr, workerVars, consumerVars>>
    BY <1>1 DEF Acquire
  <2>13. TypeOK'
    BY <1>c, <2>1, <2>5, <2>9, <2>10, <2>11, <2>12 DEF Typed, TypeOK
  <2>14. Holding'
    BY <1>c, <2>1, <2>12 DEF Typed, Holding
  <2> QED
    BY <2>6, <2>13, <2>14 DEF Typed
<1>2. CASE EmitError
  <2>1. TakeFree /\ wpc = "children" /\ wpc' = "commit" /\ Top.rest # <<>>
    BY <1>2 DEF EmitError, AtChild
  <2>2. Tail(Top.rest) \in Seq(Node) /\ NextChild \in Node
    BY <1>b, <2>1 DEF Frame, NextChild
  <2> DEFINE frame == [Top EXCEPT !.rest = Tail(Top.rest)]
  <2>3. frame \in Frame /\ frame.cell = Top.cell
    BY <1>b, <2>2 DEF Frame
  <2>4. stack' = [stack EXCEPT ![Len(stack)] = frame]
    BY <1>2, <1>b DEF EmitError, StackAfterChild, Top
  <2>5. /\ stack' \in Seq(Frame) /\ Len(stack') = Len(stack)
        /\ \A j \in 1 .. Len(stack) : stack'[j].cell = stack[j].cell
    BY <1>b, <2>3, <2>4 DEF Top
  <2>6. StackShape'
    BY <1>b, <2>1, <2>5 DEF Typed, StackShape, Active, Filled
  <2>7. entry' \in [Cell -> Entry]
    BY <1>2, <1>c, <2>1, <2>2, EntryTypes DEF EmitError, Typed, TypeOK
  <2>8. UNCHANGED <<world, cancelled, ordered, closed, wg, walkErr, pruned, skipped, workerVars, consumerVars>>
    BY <1>2 DEF EmitError
  <2> QED
    BY <1>c, <2>1, <2>5, <2>6, <2>7, <2>8 DEF Typed, TypeOK, Holding
<1>3. CASE Commit
  <2>1. ordered' \in Seq(Cell)
    BY <1>3 DEF Commit, Typed, TypeOK, Holding
  <2> QED
    BY <1>3, <1>b, <2>1 DEF Commit, Typed, TypeOK, StackShape, Holding, Active, Filled
<1>4. CASE \E w \in Worker : Submit(w)
  <2> PICK w \in Worker : Submit(w)
    BY <1>4
  <2>1. job' \in [Worker -> Cell \cup {Idle, Exited}]
    BY DEF Submit, Typed, TypeOK, Holding
  <2> QED
    BY <1>b, <2>1 DEF Submit, Typed, TypeOK, StackShape, Holding, Active, Filled
<1> QED
  BY <1>1, <1>2, <1>3, <1>4

\* The end of the walk, the workers, the consumer and the interrupt.
LEMMA TypedRest ==
    ASSUME Typed, WaitGroups,
           \/ Cancelled \/ SubmitCancelled \/ StopHasher \/ CloseRing
           \/ \E w \in Worker : Hasher(w)
           \/ Consumer \/ Interrupt \/ Returned
    PROVE  Typed'
<1> USE DEF Typed, ringVars, slotVars, walkerVars, workerVars, consumerVars
<1>1. CASE Cancelled
  BY <1>1 DEF Cancelled, Unwind, TypeOK, StackShape, Holding, Active, Filled
<1>2. CASE SubmitCancelled
  <2>1. cur \in Cell /\ wg[cur] = 1
    BY <1>2 DEF SubmitCancelled, WaitGroups, Holding
  <2>2. wg' \in [Cell -> Nat]
    BY <1>2, <2>1 DEF SubmitCancelled, WgDone, TypeOK
  <2> QED
    BY <1>2, <2>2 DEF SubmitCancelled, Unwind, TypeOK, StackShape, Holding, Active, Filled
<1>3. CASE StopHasher
  BY <1>3 DEF StopHasher, TypeOK, StackShape, Holding, Active, Filled
<1>4. CASE CloseRing
  BY <1>4 DEF CloseRing, TypeOK, StackShape, Holding, Active, Filled
<1>5. CASE \E w \in Worker : Hash(w)
  <2> PICK w \in Worker : Hash(w)
    BY <1>5
  <2>1. job[w] \in Cell /\ wg[job[w]] = 1
    BY DEF Hash, WaitGroups
  <2>2. wg' \in [Cell -> Nat]
    BY <2>1 DEF Hash, WgDone, TypeOK
  <2>3. entry' \in [Cell -> Entry]
    BY <2>1, EntryTypes DEF Hash, TypeOK
  <2>4. job' \in [Worker -> Cell \cup {Idle, Exited}]
    BY DEF Hash, TypeOK
  <2> QED
    BY <2>2, <2>3, <2>4 DEF Hash, TypeOK, StackShape, Holding
<1>6. CASE \E w \in Worker : Exit(w)
  <2> PICK w \in Worker : Exit(w)
    BY <1>6
  <2>1. job' \in [Worker -> Cell \cup {Idle, Exited}]
    BY DEF Exit, TypeOK
  <2> QED
    BY <2>1 DEF Exit, TypeOK, StackShape, Holding
<1>7. CASE Receive
  <2>1. taken' \in Cell /\ ordered' \in Seq(Cell)
    BY <1>7 DEF Receive, TypeOK
  <2> QED
    BY <1>7, <2>1 DEF Receive, TypeOK, StackShape, Holding
<1>8. CASE AwaitHash
  BY <1>8 DEF AwaitHash, TypeOK, StackShape, Holding
<1>9. CASE \E fails \in BOOLEAN : Emit(fails)
  <2> PICK fails \in BOOLEAN : Emit(fails)
    BY <1>9
  <2>1. entry[taken] \in Entry
    BY DEF Emit, TypeOK, Holding
  <2>2. emitted' \in Seq(Entry) /\ emitErr' \in BOOLEAN /\ cancelled' \in BOOLEAN
    <3>1. CASE emitErr
      BY <3>1 DEF Emit, TypeOK
    <3>2. CASE ~emitErr
      <4>1. emitted' = Append(emitted, entry[taken]) /\ emitErr' = fails /\ cancelled' = (cancelled \/ fails)
        BY <3>2 DEF Emit
      <4>2. emitted' \in Seq(Entry)
        BY <2>1, <4>1 DEF TypeOK
      <4>3. emitErr' \in BOOLEAN /\ cancelled' \in BOOLEAN
        BY <4>1, Zenon DEF TypeOK
      <4> QED
        BY <4>2, <4>3
    <3> QED
      BY <3>1, <3>2
  <2> QED
    BY <2>2 DEF Emit, TypeOK, StackShape, Holding
<1>10. CASE Release
  <2>1. free' \in Seq(Cell)
    BY <1>10 DEF Release, TypeOK, Holding
  <2> QED
    BY <1>10, <2>1 DEF Release, TypeOK, StackShape, Holding, Cell, NoCell
<1>11. CASE Return
  BY <1>11 DEF Return, Outcome, TypeOK, StackShape, Holding
<1>12. CASE Interrupt
  BY <1>12 DEF Interrupt, TypeOK, StackShape, Holding
<1>13. CASE Returned
  BY <1>13 DEF Returned, vars, TypeOK, StackShape, Holding
<1> QED
  BY <1>1, <1>2, <1>3, <1>4, <1>5, <1>6, <1>7, <1>8, <1>9, <1>10, <1>11, <1>12, <1>13
     DEF Hasher, Consumer

-----------------------------------------------------------------------------
(* Where the cells are.                                                      *)

LEMMA NoCellNotACell == NoCell \notin Cell
  BY RingSizeType DEF Cell, NoCell

\* Only these steps move a cell.
LEMMA CellMoves ==
    ASSUME [Next]_vars
    PROVE  \/ TakeFree /\ (Acquire \/ EmitError)
           \/ Commit \/ Receive \/ Release
           \/ UNCHANGED <<free, ordered, cur, taken>>
  BY DEF Next, Walker, Hasher, Consumer, vars, ringVars, slotVars, walkerVars, workerVars,
         consumerVars, Visit, Acquire, Submit, SkipExcluded, VisitChild, EmitError, Leave,
         Cancelled, SubmitCancelled, Unwind, StopHasher, CloseRing, Hash, Exit, AwaitHash,
         Emit, Return, Interrupt, Returned

LEMMA CellsStep ==
    ASSUME Typed, Conservation, OnePlace, [Next]_vars
    PROVE  Conservation' /\ OnePlace'
<1> USE NoCellNotACell, RingSizeType
<1>t. /\ free \in Seq(Cell) /\ ordered \in Seq(Cell)
      /\ cur \in Cell \cup {NoCell} /\ taken \in Cell \cup {NoCell}
  BY DEF Typed, TypeOK
<1>1. CASE TakeFree /\ (Acquire \/ EmitError)
  <2>1. /\ free # <<>> /\ cur' = Head(free) /\ free' = Tail(free)
        /\ cur = NoCell
        /\ UNCHANGED <<ordered, taken>>
    BY <1>1 DEF TakeFree, Acquire, EmitError, AtChild, Typed, Holding, consumerVars
  <2>2. /\ cur' = free[1] /\ Len(free') = Len(free) - 1 /\ Len(free) \in Nat \ {0}
        /\ \A k \in 1 .. Len(free') : k + 1 \in 1 .. Len(free) /\ free'[k] = free[k + 1]
    BY <1>t, <2>1
  <2>3. Conservation'
    BY <1>t, <2>1, <2>2 DEF Conservation, Held
  <2>4. OnePlace'
    BY <1>t, <2>1, <2>2 DEF OnePlace
  <2> QED
    BY <2>3, <2>4
<1>2. CASE Commit
  <2>1. /\ cur \in Cell /\ ordered' = Append(ordered, cur) /\ cur' = NoCell
        /\ UNCHANGED <<free, taken>>
    BY <1>2 DEF Commit, Typed, Holding, consumerVars
  <2>2. /\ Len(ordered') = Len(ordered) + 1 /\ Len(ordered) \in Nat
        /\ \A k \in 1 .. Len(ordered') : ordered'[k] = IF k = Len(ordered) + 1 THEN cur ELSE ordered[k]
    BY <1>t, <2>1
  <2>3. Conservation'
    BY <1>t, <2>1, <2>2 DEF Conservation, Held
  <2>4. OnePlace'
    BY <1>t, <2>1, <2>2 DEF OnePlace
  <2> QED
    BY <2>3, <2>4
<1>3. CASE Receive
  <2>1. /\ ordered # <<>> /\ taken' = Head(ordered) /\ ordered' = Tail(ordered)
        /\ taken = NoCell
        /\ UNCHANGED <<free, cur>>
    BY <1>3 DEF Receive, Typed, TypeOK, Holding, walkerVars
  <2>2. /\ taken' = ordered[1] /\ Len(ordered') = Len(ordered) - 1 /\ Len(ordered) \in Nat \ {0}
        /\ \A k \in 1 .. Len(ordered') : k + 1 \in 1 .. Len(ordered) /\ ordered'[k] = ordered[k + 1]
    BY <1>t, <2>1
  <2>3. Conservation'
    BY <1>t, <2>1, <2>2 DEF Conservation, Held
  <2>4. OnePlace'
    BY <1>t, <2>1, <2>2 DEF OnePlace
  <2> QED
    BY <2>3, <2>4
<1>4. CASE Release
  <2>1. /\ taken \in Cell /\ free' = Append(free, taken) /\ taken' = NoCell
        /\ UNCHANGED <<ordered, cur>>
    BY <1>4 DEF Release, Typed, Holding, walkerVars
  <2>2. /\ Len(free') = Len(free) + 1 /\ Len(free) \in Nat
        /\ \A k \in 1 .. Len(free') : free'[k] = IF k = Len(free) + 1 THEN taken ELSE free[k]
    BY <1>t, <2>1
  <2>3. Conservation'
    BY <1>t, <2>1, <2>2 DEF Conservation, Held
  <2>4. OnePlace'
    BY <1>t, <2>1, <2>2 DEF OnePlace
  <2> QED
    BY <2>3, <2>4
<1>5. CASE UNCHANGED <<free, ordered, cur, taken>>
  BY <1>5 DEF Conservation, Held, OnePlace
<1> QED
  BY <1>1, <1>2, <1>3, <1>4, <1>5, CellMoves

-----------------------------------------------------------------------------
(* Who is hashing.                                                           *)

Owed == WaitGroups /\ Settled

\* A worker never has a free cell, nor the one being emitted.
LEMMA OwedExclusive ==
    ASSUME Typed, Owed
    PROVE  /\ \A i \in 1 .. Len(free), w \in Worker : job[w] # free[i]
           /\ cpc \in {"emit", "release"} => \A w \in Worker : job[w] # taken
<1>1. free \in Seq(Cell)
  BY DEF Typed, TypeOK
<1> QED
  BY <1>1 DEF Typed, Holding, Owed, WaitGroups, Settled

LEMMA OwedWalker ==
    ASSUME Typed, OnePlace, Owed, Walker
    PROVE  Owed'
<1> USE NoCellNotACell DEF Owed, slotVars, ringVars, workerVars, consumerVars
<1>t. /\ free \in Seq(Cell) /\ wg \in [Cell -> Nat] /\ job \in [Worker -> Cell \cup {Idle, Exited}]
      /\ taken \in Cell \cup {NoCell}
  BY DEF Typed, TypeOK
<1>f. ASSUME TakeFree
      PROVE  /\ cur' = free[1] /\ cur' \in Cell /\ 1 \in 1 .. Len(free) /\ wg[cur'] = 0
             /\ \A k \in 1 .. Len(free') : k + 1 \in 1 .. Len(free) /\ free'[k] = free[k + 1]
             /\ \A k \in 1 .. Len(free') : free'[k] # cur' /\ wg[free'[k]] = 0
             /\ cur' # taken
             /\ \A w \in Worker : job[w] # cur'
  <2>1. /\ cur' = free[1] /\ cur' \in Cell /\ 1 \in 1 .. Len(free)
        /\ \A k \in 1 .. Len(free') : k + 1 \in 1 .. Len(free) /\ free'[k] = free[k + 1]
    BY <1>t, <1>f DEF TakeFree
  <2>2. \A k \in 1 .. Len(free') : free'[k] # cur' /\ wg[free'[k]] = 0
    BY <2>1 DEF OnePlace, Settled
  <2> QED
    BY <2>1, <2>2, OwedExclusive DEF OnePlace, Settled
<1>1. CASE Acquire
  <2>1. /\ TakeFree /\ UNCHANGED <<job, cpc, taken>> /\ wpc' \in {"submit", "commit"}
        /\ wpc' = "submit" => wg' = WgAdd(cur')
        /\ wpc' = "commit" => wg' = wg
    BY <1>1 DEF Acquire, TakeFree
  <2>2. CASE wpc' = "submit"
    <3>1. \A c \in Cell : wg'[c] = IF c = cur' THEN 1 ELSE wg[c]
      BY <1>t, <1>f, <2>1, <2>2 DEF WgAdd
    <3>2. WaitGroups'
      BY <1>t, <1>f, <2>1, <3>1 DEF WaitGroups
    <3>3. \A k \in 1 .. Len(free') : wg'[free'[k]] = 0
      BY <1>t, <1>f, <2>1, <3>1
    <3>4. cpc \in {"emit", "release"} => wg'[taken] = 0
      BY <1>f, <2>1, <3>1 DEF Settled, Typed, Holding
    <3> QED
      BY <2>1, <3>2, <3>3, <3>4 DEF Settled
  <2>3. CASE wpc' = "commit"
    BY <1>f, <2>1, <2>3 DEF WaitGroups, Settled
  <2> QED
    BY <2>1, <2>2, <2>3
<1>2. CASE EmitError
  <2>1. TakeFree /\ UNCHANGED <<job, cpc, taken, wg>> /\ wpc' = "commit"
    BY <1>2 DEF EmitError
  <2> QED
    BY <1>f, <2>1 DEF WaitGroups, Settled
<1>3. CASE \E w \in Worker : Submit(w)
  <2> PICK w \in Worker : Submit(w)
    BY <1>3
  <2>1. /\ job' = [job EXCEPT ![w] = cur] /\ UNCHANGED <<free, wg, cpc, taken>>
        /\ wpc = "submit" /\ wpc' = "commit" /\ cur \in Cell
    BY DEF Submit, Typed, Holding
  <2>2. WaitGroups'
    BY <1>t, <2>1 DEF WaitGroups
  <2> QED
    BY <2>1, <2>2 DEF Settled
<1>4. CASE SubmitCancelled
  <2>1. /\ wg' = [wg EXCEPT ![cur] = @ - 1] /\ UNCHANGED <<free, job, cpc, taken>>
        /\ wpc = "submit" /\ wpc' = "stop" /\ cur \in Cell
    BY <1>4 DEF SubmitCancelled, Unwind, WgDone, Typed, Holding
  <2>2. \A c \in Cell : wg'[c] = IF c = cur THEN 0 ELSE wg[c]
    BY <1>t, <2>1 DEF WaitGroups
  <2>3. WaitGroups'
    BY <1>t, <2>1, <2>2 DEF WaitGroups
  <2>4. Settled'
    BY <1>t, <2>1, <2>2 DEF Settled, Typed, Holding
  <2> QED
    BY <2>3, <2>4
<1>5. CASE Visit \/ Commit \/ SkipExcluded \/ VisitChild \/ Leave \/ Cancelled \/ StopHasher \/ CloseRing
  <2>1. UNCHANGED <<free, wg, job, cpc, taken>> /\ wpc' # "submit"
    BY <1>5 DEF Visit, Commit, SkipExcluded, VisitChild, Leave, Cancelled, Unwind, StopHasher,
                CloseRing, AtChild
  <2> QED
    BY <2>1 DEF WaitGroups, Settled
<1> QED
  BY <1>1, <1>2, <1>3, <1>4, <1>5 DEF Walker

LEMMA OwedStep ==
    ASSUME Typed, OnePlace, Owed, [Next]_vars
    PROVE  Owed'
<1> USE NoCellNotACell DEF Owed, slotVars, ringVars, workerVars, walkerVars, consumerVars
<1>t. /\ free \in Seq(Cell) /\ wg \in [Cell -> Nat] /\ job \in [Worker -> Cell \cup {Idle, Exited}]
      /\ taken \in Cell \cup {NoCell}
  BY DEF Typed, TypeOK
<1>1. CASE Walker
  BY <1>1, OwedWalker
<1>2. CASE \E w \in Worker : Hash(w)
  <2> PICK w \in Worker : Hash(w)
    BY <1>2
  <2> DEFINE c == job[w]
  <2>1. /\ c \in Cell /\ job' = [job EXCEPT ![w] = Idle] /\ wg[c] = 1
        /\ wg' = [wg EXCEPT ![c] = @ - 1]
        /\ UNCHANGED <<free, cpc, taken, wpc, cur>>
    BY DEF Hash, WgDone, WaitGroups
  <2>2. \A d \in Cell : wg'[d] = IF d = c THEN 0 ELSE wg[d]
    BY <1>t, <2>1
  <2>3. WaitGroups'
    BY <1>t, <2>1, <2>2 DEF WaitGroups, Typed, Holding, Idle
  <2>4. Settled'
    BY <1>t, <2>1, <2>2 DEF Settled, Typed, Holding
  <2> QED
    BY <2>3, <2>4
<1>3. CASE \E w \in Worker : Exit(w)
  <2> PICK w \in Worker : Exit(w)
    BY <1>3
  <2>1. job' = [job EXCEPT ![w] = Exited] /\ UNCHANGED <<free, wg, cpc, taken, wpc, cur>>
    BY DEF Exit
  <2>2. Exited \notin Cell
    BY RingSizeType DEF Exited, Cell
  <2>3. WaitGroups'
    BY <1>t, <2>1, <2>2 DEF WaitGroups, Typed, Holding
  <2> QED
    BY <2>1, <2>3 DEF Settled
<1>4. CASE Release
  <2>1. /\ free' = Append(free, taken) /\ taken \in Cell /\ wg[taken] = 0
        /\ cpc' = "receive" /\ UNCHANGED <<wg, job, wpc, cur>>
    BY <1>4 DEF Release, Typed, Holding, Settled
  <2>2. \A k \in 1 .. Len(free') : wg[free'[k]] = 0
    BY <1>t, <2>1 DEF Settled
  <2> QED
    BY <2>1, <2>2 DEF WaitGroups, Settled
<1>5. CASE AwaitHash
  BY <1>5 DEF AwaitHash, WgFree, WaitGroups, Settled
<1>6. CASE \E fails \in BOOLEAN : Emit(fails)
  BY <1>6 DEF Emit, WaitGroups, Settled
<1>7. CASE Receive \/ Return
  BY <1>7 DEF Receive, Return, WaitGroups, Settled
<1>8. CASE Interrupt \/ Returned \/ UNCHANGED vars
  BY <1>8 DEF Interrupt, Returned, vars, WaitGroups, Settled
<1> QED
  BY <1>1, <1>2, <1>3, <1>4, <1>5, <1>6, <1>7, <1>8 DEF Next, Hasher, Consumer

-----------------------------------------------------------------------------
(* Entries are finished before they are emitted.                             *)

Emits == FinishedCells /\ EmittedFinished

LEMMA EmitsWalker ==
    ASSUME Typed, OnePlace, Owed, Emits, Walker
    PROVE  Emits'
<1> USE NoCellNotACell DEF Emits, slotVars, ringVars, workerVars, consumerVars
<1>t. /\ free \in Seq(Cell) /\ ordered \in Seq(Cell)
      /\ wg \in [Cell -> Nat] /\ entry \in [Cell -> Entry]
      /\ taken \in Cell \cup {NoCell}
  BY DEF Typed, TypeOK
<1>f. ASSUME TakeFree
      PROVE  /\ cur' = Head(free) /\ cur' \in Cell /\ cur' # taken
             /\ \A k \in 1 .. Len(ordered) : ordered[k] \in Cell /\ ordered[k] # cur'
  BY <1>t, <1>f DEF TakeFree, OnePlace
<1>1. CASE Acquire
  <2> DEFINE isDir == Kind[Top.path] = "dir"
             e == VisitEntry(world, Top.path, isDir /\ MayDescend(Top.path, Top.depth, Top.parentDev))
             hashed == Kind[Top.path] = "file" /\ ~NoHash
  <2>1. /\ TakeFree /\ UNCHANGED <<ordered, taken, emitted>>
        /\ entry' = [entry EXCEPT ![Head(free)] = e]
        /\ wg' = IF hashed THEN WgAdd(Head(free)) ELSE wg
        /\ wpc' = IF hashed THEN "submit" ELSE "commit"
    BY <1>1 DEF Acquire
  <2>2. ~hashed => Finished(e)
    BY DEF Finished, VisitEntry
  <2>3. \A c \in Cell : c # cur' => wg'[c] = wg[c] /\ entry'[c] = entry[c]
    BY <1>t, <1>f, <2>1 DEF WgAdd
  <2>4. wpc' = "commit" => Finished(entry'[cur'])
    BY <1>t, <1>f, <2>1, <2>2
  <2> QED
    BY <1>t, <1>f, <2>1, <2>3, <2>4 DEF FinishedCells, EmittedFinished
<1>2. CASE EmitError
  <2>1. /\ TakeFree /\ UNCHANGED <<ordered, taken, emitted, wg>>
        /\ entry' = [entry EXCEPT ![Head(free)] = LostEntry(NextChild)]
    BY <1>2 DEF EmitError
  <2>2. Finished(LostEntry(NextChild))
    BY DEF Finished, LostEntry, ZeroEntry
  <2>3. /\ Finished(entry'[cur'])
        /\ \A c \in Cell : c # cur' => entry'[c] = entry[c]
    BY <1>t, <1>f, <2>1, <2>2
  <2> QED
    BY <1>t, <1>f, <2>1, <2>3 DEF FinishedCells, EmittedFinished
<1>3. CASE Commit
  <2>1. /\ ordered' = Append(ordered, cur) /\ wpc = "commit" /\ wpc' = "children" /\ cur \in Cell
        /\ UNCHANGED <<taken, emitted, wg, entry>>
    BY <1>3 DEF Commit, Typed, Holding
  <2> QED
    BY <1>t, <2>1 DEF FinishedCells, EmittedFinished
<1>4. CASE \E w \in Worker : Submit(w)
  <2>1. /\ wpc = "submit" /\ UNCHANGED <<taken, emitted, wg, entry, ordered, cur>>
    BY <1>4 DEF Submit
  <2>2. wg[cur] = 1
    BY <2>1 DEF Owed, WaitGroups
  <2> QED
    BY <2>1, <2>2 DEF FinishedCells, EmittedFinished
<1>5. CASE SubmitCancelled
  <2>1. /\ wg' = [wg EXCEPT ![cur] = @ - 1] /\ UNCHANGED <<entry, ordered, taken, cur, emitted>>
        /\ wpc = "submit" /\ wpc' = "stop" /\ cur \in Cell
    BY <1>5 DEF SubmitCancelled, Unwind, WgDone, Typed, Holding
  <2>2. \A c \in Cell : c # cur => wg'[c] = wg[c]
    BY <1>t, <2>1
  <2>3. cur # taken /\ \A k \in 1 .. Len(ordered) : ordered[k] \in Cell /\ ordered[k] # cur
    BY <1>t, <2>1 DEF OnePlace
  <2> QED
    BY <1>t, <2>1, <2>2, <2>3 DEF FinishedCells, EmittedFinished
<1>6. CASE Visit \/ SkipExcluded \/ VisitChild \/ Leave \/ Cancelled \/ StopHasher \/ CloseRing
  <2>1. UNCHANGED <<ordered, wg, entry, cur, taken, emitted>> /\ wpc' # "commit"
    BY <1>6 DEF Visit, SkipExcluded, VisitChild, Leave, Cancelled, Unwind, StopHasher,
                CloseRing, AtChild
  <2> QED
    BY <2>1 DEF FinishedCells, EmittedFinished
<1> QED
  BY <1>1, <1>2, <1>3, <1>4, <1>5, <1>6 DEF Walker

LEMMA EmitsStep ==
    ASSUME Typed, OnePlace, Owed, Emits, [Next]_vars
    PROVE  Emits'
<1> USE NoCellNotACell DEF Emits, slotVars, ringVars, workerVars, walkerVars, consumerVars
<1>t. /\ ordered \in Seq(Cell) /\ wg \in [Cell -> Nat] /\ entry \in [Cell -> Entry]
      /\ taken \in Cell \cup {NoCell} /\ cur \in Cell \cup {NoCell}
      /\ emitted \in Seq(Entry)
  BY DEF Typed, TypeOK
<1>1. CASE Walker
  BY <1>1, EmitsWalker
<1>2. CASE \E w \in Worker : Hash(w)
  <2> PICK w \in Worker : Hash(w)
    BY <1>2
  <2> DEFINE c == job[w]
  <2>1. /\ c \in Cell
        /\ entry' = [entry EXCEPT ![c] = HashEntry(world, @)]
        /\ wg' = [wg EXCEPT ![c] = @ - 1]
        /\ UNCHANGED <<ordered, taken, cur, wpc, emitted>>
    BY DEF Hash, WgDone
  <2>2. entry[c] \in Entry /\ world \in Answers
    BY <1>t, <2>1 DEF Typed, TypeOK
  <2>3. Finished(entry'[c])
    BY <1>t, <2>1, <2>2, EntryTypes
  <2>4. \A d \in Cell : d # c => wg'[d] = wg[d] /\ entry'[d] = entry[d]
    BY <1>t, <2>1
  <2>5. wpc = "commit" => cur \in Cell
    BY DEF Typed, Holding
  <2> HIDE DEF c
  <2> QED
    BY <1>t, <2>1, <2>3, <2>4, <2>5 DEF FinishedCells, EmittedFinished
<1>3. CASE Receive
  <2>1. /\ ordered # <<>> /\ taken' = Head(ordered) /\ ordered' = Tail(ordered)
        /\ UNCHANGED <<wg, entry, cur, wpc, emitted>>
    BY <1>3 DEF Receive
  <2>2. /\ taken' = ordered[1] /\ 1 \in 1 .. Len(ordered)
        /\ \A k \in 1 .. Len(ordered') : k + 1 \in 1 .. Len(ordered) /\ ordered'[k] = ordered[k + 1]
    BY <1>t, <2>1
  <2> QED
    BY <2>1, <2>2 DEF FinishedCells, EmittedFinished
<1>4. CASE \E fails \in BOOLEAN : Emit(fails)
  <2> PICK fails \in BOOLEAN : Emit(fails)
    BY <1>4
  <2>1. /\ UNCHANGED <<ordered, wg, entry, cur, wpc, taken>>
        /\ \/ emitted' = emitted
           \/ emitted' = Append(emitted, entry[taken])
    BY DEF Emit
  <2>2. entry[taken] \in Entry /\ Finished(entry[taken])
    BY <1>t DEF Emit, Typed, Holding, Owed, Settled, FinishedCells
  <2>3. EmittedFinished'
    BY <1>t, <2>1, <2>2 DEF EmittedFinished
  <2> QED
    BY <2>1, <2>3 DEF FinishedCells
<1>5. CASE Release
  <2>1. taken' = NoCell /\ UNCHANGED <<ordered, wg, entry, cur, wpc, emitted>>
    BY <1>5 DEF Release
  <2> QED
    BY <2>1 DEF FinishedCells, EmittedFinished
<1>6. CASE \/ \E w \in Worker : Exit(w)
           \/ AwaitHash \/ Return \/ Interrupt \/ Returned \/ UNCHANGED vars
  <2>1. UNCHANGED <<ordered, wg, entry, cur, wpc, taken, emitted>>
    BY <1>6 DEF Exit, AwaitHash, Return, Interrupt, Returned, vars
  <2> QED
    BY <2>1 DEF FinishedCells, EmittedFinished
<1> QED
  BY <1>1, <1>2, <1>3, <1>4, <1>5, <1>6 DEF Next, Hasher, Consumer

-----------------------------------------------------------------------------
(* The end of the walk.                                                      *)

LEMMA EndingStep ==
    ASSUME Typed, Ending, [Next]_vars
    PROVE  Ending'
<1> USE NoCellNotACell DEF Ending, Stopping, slotVars, ringVars, workerVars, walkerVars, consumerVars
<1>t. job \in [Worker -> Cell \cup {Idle, Exited}] /\ Idle # Exited /\ Exited \notin Cell
  BY RingSizeType DEF Typed, TypeOK, Idle, Exited, NoCell, Cell
<1>1. CASE Visit \/ Acquire \/ SkipExcluded \/ VisitChild \/ EmitError
  BY <1>1 DEF Visit, Acquire, SkipExcluded, VisitChild, EmitError, AtChild, Typed, TypeOK
<1>2. CASE \E w \in Worker : Submit(w)
  BY <1>2 DEF Submit
<1>3. CASE Commit
  BY <1>3 DEF Commit
<1>4. CASE Leave
  BY <1>4 DEF Leave, Typed, Holding
<1>5. CASE Cancelled \/ SubmitCancelled
  <2>1. wpc \in Active
    BY <1>5 DEF Cancelled, SubmitCancelled, AtChild, Active
  <2>2. ~closed /\ ~workClosed /\ result # "nil" /\ cpc # "done"
    BY <2>1 DEF Active, Typed, TypeOK
  <2> QED
    BY <1>5, <2>2 DEF Cancelled, SubmitCancelled, Unwind, AtChild
<1>6. CASE StopHasher
  BY <1>6 DEF StopHasher
<1>7. CASE CloseRing
  BY <1>7 DEF CloseRing, WorkersGone
<1>8. CASE \E w \in Worker : Hash(w)
  BY <1>8, <1>t DEF Hash
<1>9. CASE \E w \in Worker : Exit(w)
  BY <1>9, <1>t DEF Exit
<1>10. CASE Receive \/ AwaitHash \/ Release \/ \E fails \in BOOLEAN : Emit(fails)
  <2>1. /\ cpc # "done" /\ cpc' # "done"
        /\ UNCHANGED <<closed, workClosed, wpc, cur, walkErr, job, result>>
    BY <1>10 DEF Receive, AwaitHash, Release, Emit
  <2> QED
    BY <2>1
<1>11. CASE Return
  <2>1. /\ closed /\ ordered = <<>> /\ cpc = "receive" /\ cpc' = "done" /\ result' = Outcome
        /\ UNCHANGED <<closed, workClosed, wpc, cur, walkErr, job, ordered, taken>>
    BY <1>11 DEF Return
  <2>2. taken = NoCell
    BY <2>1 DEF Typed, TypeOK, Holding
  <2>3. result' = "nil" => walkErr' = "none"
    BY <2>1 DEF Outcome, Typed, TypeOK
  <2> QED
    BY <2>1, <2>2, <2>3
<1>12. CASE Interrupt \/ Returned \/ UNCHANGED vars
  BY <1>12 DEF Interrupt, Returned, vars
<1> QED
  BY <1>1, <1>2, <1>3, <1>4, <1>5, <1>6, <1>7, <1>8, <1>9, <1>10, <1>11, <1>12
     DEF Next, Walker, Hasher, Consumer

-----------------------------------------------------------------------------
(* The theorems.                                                             *)

LEMMA TypedStep ==
    ASSUME Typed, WaitGroups, [Next]_vars
    PROVE  Typed'
<1>1. CASE UNCHANGED vars
  BY <1>1 DEF vars, ringVars, slotVars, walkerVars, workerVars, consumerVars,
              Typed, TypeOK, StackShape, Holding
<1> QED
  BY <1>1, TypedWalk, TypedRing, TypedRest DEF Next, Walker, Hasher

LEMMA IInvStep == IInv /\ [Next]_vars => IInv'
<1> SUFFICES ASSUME IInv, [Next]_vars PROVE IInv'
  OBVIOUS
<1>1. Typed /\ Conservation /\ OnePlace /\ Owed /\ Emits /\ Ending
  BY DEF IInv, Typed, Owed, Emits
<1>2. Typed'
  BY <1>1, TypedStep DEF Owed
<1>3. Conservation' /\ OnePlace' /\ Owed' /\ Emits' /\ Ending'
  BY <1>1, CellsStep, OwedStep, EmitsStep, EndingStep
<1> QED
  BY <1>2, <1>3 DEF IInv, Typed, Owed, Emits

\* IInv is an invariant of every walk.
THEOREM IInvInvariant == Spec => []IInv
<1>1. Init => IInv
  BY InitIInv
<1>2. IInv /\ [Next]_vars => IInv'
  BY IInvStep
<1> QED
  BY <1>1, <1>2, PTL DEF Spec

\* Type correctness of Walk's state, whatever the tree, the options, the number
\* of workers and the system calls' answers.
THEOREM ScanTypeOK == Spec => []TypeOK
<1>1. IInv => TypeOK
  BY DEF IInv
<1> QED
  BY <1>1, IInvInvariant, PTL

\* newRing: a commit and a release always find room in their channel, so the
\* walker can only ever wait on the free list, and the consumer on no channel
\* but ordered.
THEOREM ScanRingNeverBlocks == Spec => []RingNeverBlocks
<1>1. IInv => RingNeverBlocks
  <2> SUFFICES ASSUME IInv PROVE RingNeverBlocks
    OBVIOUS
  <2>1. /\ Len(free) \in Nat /\ Len(ordered) \in Nat /\ RingSize \in Nat
        /\ Len(free) + Len(ordered) + Held(cur) + Held(taken) = RingSize
    BY RingSizeType DEF IInv, TypeOK, Conservation
  <2>2. wpc = "commit" => Held(cur) = 1
    BY NoCellNotACell DEF IInv, Holding, Held
  <2>3. cpc = "release" => Held(taken) = 1
    BY NoCellNotACell DEF IInv, Holding, Held
  <2>4. Held(cur) \in {0, 1} /\ Held(taken) \in {0, 1}
    BY DEF Held
  <2> QED
    BY <2>1, <2>2, <2>3, <2>4 DEF RingNeverBlocks, OrderedCap, FreeCap
<1> QED
  BY <1>1, IInvInvariant, PTL

\* submit and the ring: no entry is handed out while a worker writes it, and no
\* cell is reused while its entry is waiting, being hashed or being emitted.
THEOREM ScanExclusiveCells == Spec => []ExclusiveCells
<1>1. IInv => ExclusiveCells
  <2> SUFFICES ASSUME IInv PROVE ExclusiveCells
    OBVIOUS
  <2>1. Typed /\ Owed
    BY DEF IInv, Typed, Owed
  <2>2. cur # NoCell => cur \in Cell
    BY DEF IInv, TypeOK
  <2> QED
    BY <2>1, <2>2, OwedExclusive DEF ExclusiveCells, IInv, OnePlace
<1> QED
  BY <1>1, IInvInvariant, PTL

\* Walk: every regular file reaches emit hashed, marked too large, or with the
\* reason why it could not be read.
THEOREM ScanEmittedFinished == Spec => []EmittedFinished
<1>1. IInv => EmittedFinished
  BY DEF IInv
<1> QED
  BY <1>1, IInvInvariant, PTL

\* Walk returns after its walker and all its workers, with every cell accounted
\* for.
THEOREM ScanNothingOutlivesWalk == Spec => []NothingOutlivesWalk
<1>1. IInv => NothingOutlivesWalk
  <2> SUFFICES ASSUME IInv, cpc = "done"
               PROVE  /\ wpc = "done"
                      /\ \A w \in Worker : job[w] = Exited
                      /\ Len(free) = IF cur = NoCell THEN RingSize ELSE RingSize - 1
                      /\ result = "nil" => cur = NoCell
    BY DEF NothingOutlivesWalk
  <2>1. /\ wpc = "done" /\ ordered = <<>> /\ taken = NoCell
        /\ \A w \in Worker : job[w] = Exited
    BY DEF IInv, Ending
  <2>2. Len(free) + 0 + Held(cur) + 0 = RingSize /\ Len(free) \in Nat /\ RingSize \in Nat
    BY <2>1, RingSizeType DEF IInv, TypeOK, Conservation, Held
  <2>3. Len(free) = IF cur = NoCell THEN RingSize ELSE RingSize - 1
    BY <2>2 DEF Held
  <2>4. result = "nil" => cur = NoCell
    BY <2>1 DEF IInv, Ending, Stopping
  <2> QED
    BY <2>1, <2>3, <2>4
<1> QED
  BY <1>1, IInvInvariant, PTL

-----------------------------------------------------------------------------
(* The plan is well defined: its recursion goes down a list and down the   *)
(* tree, and stops at the depth limit.                                     *)

\* A set of numbers has a least element.
LEMMA LeastNumber ==
    ASSUME NEW S \in SUBSET Nat, S # {}
    PROVE  \E m \in S : \A n \in S : m <= n
<1>1. PICK m \in S : \A n \in S : ~ (<<n, m>> \in OpToRel(<, Nat))
  BY NatLessThanWellFounded, WFMin
<1>2. \A n \in S : ~ (n < m)
  BY <1>1 DEF OpToRel
<1> QED BY <1>2

\* A set with 0, and with each number the next one, has all of them.
LEMMA EveryNumber ==
    ASSUME NEW S, 0 \in S, \A n \in Nat : n \in S => n + 1 \in S
    PROVE  \A n \in Nat : n \in S
<1> DEFINE Out == {n \in Nat : n \notin S}
<1>1. SUFFICES ASSUME Out # {} PROVE FALSE
  OBVIOUS
<1>2. PICK m \in Out : \A n \in Out : m <= n
  <2>1. Out \in SUBSET Nat
    OBVIOUS
  <2> HIDE DEF Out
  <2> QED BY <1>1, <2>1, LeastNumber
<1>3. m \in Nat /\ m \notin S /\ m # 0
  OBVIOUS
<1>4. m - 1 \in Nat /\ m - 1 \notin Out /\ (m - 1) + 1 = m
  <2> HIDE DEF Out
  <2> QED BY <1>2, <1>3
<1> QED BY <1>3, <1>4

\* f takes a step from each of the first n numbers to the next.
Steps(f, n, T, v, step) ==
    /\ f \in [0 .. n -> T]
    /\ f[0] = v
    /\ \A k \in 0 .. n - 1 : f[k + 1] = step[<<f[k], k>>]

\* And from every number.
StepsForEver(f, T, v, step) ==
    /\ f \in [Nat -> T]
    /\ f[0] = v
    /\ \A k \in Nat : f[k + 1] = step[<<f[k], k>>]

\* There is such an f, if no step leaves T.
LEMMA Recursion ==
    ASSUME NEW T, NEW v \in T, NEW step \in [T \X Nat -> T]
    PROVE  \E f : StepsForEver(f, T, v, step)
<1> DEFINE Up(f, n) == Steps(f, n, T, v, step)
           S == {n \in Nat : \E f : Up(f, n)}
           c(n) == CHOOSE f : Up(f, n)
<1>1. 0 \in S
  <2>1. Up([k \in 0 .. 0 |-> v], 0)
    BY DEF Steps
  <2> QED BY <2>1
<1>2. ASSUME NEW n \in Nat, n \in S PROVE n + 1 \in S
  <2>1. PICK g : Up(g, n)
    BY <1>2
  <2> DEFINE h == [k \in 0 .. n + 1 |-> IF k = n + 1 THEN step[<<g[n], n>>] ELSE g[k]]
  <2>2. g[n] \in T /\ step[<<g[n], n>>] \in T
    BY <2>1 DEF Steps
  <2>3. h \in [0 .. n + 1 -> T] /\ h[0] = v
    BY <2>1, <2>2 DEF Steps
  <2>4. ASSUME NEW k \in 0 .. (n + 1) - 1 PROVE h[k + 1] = step[<<h[k], k>>]
    <3>1. h[k] = g[k] /\ k \in 0 .. n
      OBVIOUS
    <3>2. CASE k = n
      <4>1. n + 1 \in 0 .. n + 1 /\ h[n + 1] = step[<<g[n], n>>]
        OBVIOUS
      <4>2. h[n] = g[n]
        BY <3>1, <3>2
      <4> HIDE DEF h
      <4> QED BY <3>2, <4>1, <4>2
    <3>3. CASE k # n
      <4>1. k \in 0 .. n - 1 /\ h[k + 1] = g[k + 1]
        BY <3>1, <3>3
      <4> QED BY <2>1, <3>1, <4>1 DEF Steps
    <3> QED BY <3>2, <3>3
  <2>5. Up(h, n + 1)
    BY <2>3, <2>4 DEF Steps
  <2> QED BY <2>5
<1>3. \A n \in Nat : Up(c(n), n)
  <2>1. \A n \in Nat : n \in S
    <3> HIDE DEF S
    <3> QED BY <1>1, <1>2, EveryNumber
  <2> QED BY <2>1
<1>4. ASSUME NEW n \in Nat PROVE \A k \in 0 .. n : c(n)[k] = c(n + 1)[k]
  <2> DEFINE Agree == {k \in Nat : k <= n => c(n)[k] = c(n + 1)[k]}
  <2>1. Up(c(n), n) /\ Up(c(n + 1), n + 1)
    BY <1>3
  <2> HIDE DEF c
  <2>2. 0 \in Agree
    BY <2>1 DEF Steps
  <2>3. ASSUME NEW k \in Nat, k \in Agree PROVE k + 1 \in Agree
    <3> SUFFICES ASSUME k + 1 <= n PROVE c(n)[k + 1] = c(n + 1)[k + 1]
      OBVIOUS
    <3>1. c(n)[k] = c(n + 1)[k]
      BY <2>3
    <3>2. c(n)[k + 1] = step[<<c(n)[k], k>>] /\ c(n + 1)[k + 1] = step[<<c(n + 1)[k], k>>]
      BY <2>1 DEF Steps
    <3> QED BY <3>1, <3>2
  <2>4. \A k \in Nat : k \in Agree
    <3> HIDE DEF Agree
    <3> QED BY <2>2, <2>3, EveryNumber
  <2> QED BY <2>4
<1> DEFINE f == [n \in Nat |-> c(n)[n]]
<1>5. f \in [Nat -> T] /\ f[0] = v
  <2> HIDE DEF c
  <2> QED BY <1>3 DEF Steps
<1>6. ASSUME NEW k \in Nat PROVE f[k + 1] = step[<<f[k], k>>]
  <2>1. Up(c(k + 1), k + 1) /\ c(k)[k] = c(k + 1)[k]
    BY <1>3, <1>4
  <2> HIDE DEF c
  <2>2. c(k + 1)[k + 1] = step[<<c(k + 1)[k], k>>]
    BY <2>1 DEF Steps
  <2> QED BY <2>1, <2>2
<1> HIDE DEF f
<1> QED BY <1>5, <1>6 DEF StepsForEver

\* h gives for a list what g gives for its elements, one after the other.
Along(h, g, S, E) ==
    /\ h \in [Seq(S) -> Seq(E)]
    /\ \A l \in Seq(S) : h[l] = IF l = <<>> THEN <<>> ELSE g[Head(l)] \o h[Tail(l)]

LEMMA AlongList ==
    ASSUME NEW S, NEW E, NEW g \in [S -> Seq(E)]
    PROVE  \E h : Along(h, g, S, E)
<1> DEFINE T == [Seq(S) -> Seq(E)]
           v == [l \in Seq(S) |-> <<>>]
           add(t) == [l \in Seq(S) |-> IF l = <<>> THEN <<>> ELSE g[Head(l)] \o t[Tail(l)]]
           step == [x \in T \X Nat |-> add(x[1])]
<1>1. v \in T
  <2>1. <<>> \in Seq(E)
    OBVIOUS
  <2> QED BY <2>1
<1>2. \A l \in Seq(S) : l # <<>> => /\ Head(l) \in S /\ Tail(l) \in Seq(S)
                                    /\ Len(l) \in Nat \ {0} /\ Len(Tail(l)) = Len(l) - 1
  OBVIOUS
<1>3. \A t \in T : add(t) \in T
  <2> SUFFICES ASSUME NEW t \in T PROVE add(t) \in T
    OBVIOUS
  <2>1. ASSUME NEW l \in Seq(S), l # <<>> PROVE g[Head(l)] \o t[Tail(l)] \in Seq(E)
    <3>1. g[Head(l)] \in Seq(E) /\ t[Tail(l)] \in Seq(E)
      BY <1>2, <2>1
    <3> QED BY <3>1, ConcatProperties
  <2>2. <<>> \in Seq(E)
    OBVIOUS
  <2> QED BY <2>1, <2>2
<1>4. step \in [T \X Nat -> T]
  <2> HIDE DEF T, add
  <2> QED BY <1>3
<1>5. PICK f : f \in [Nat -> T] /\ f[0] = v /\ \A k \in Nat : f[k + 1] = step[<<f[k], k>>]
  <2> HIDE DEF T, v, step
  <2>1. \E f : StepsForEver(f, T, v, step)
    BY <1>1, <1>4, Recursion
  <2> QED BY <2>1 DEF StepsForEver
<1>6. \A k \in Nat : f[k + 1] = add(f[k])
  <2> HIDE DEF T, add
  <2>1. \A k \in Nat : <<f[k], k>> \in T \X Nat
    BY <1>5
  <2> QED BY <1>5, <2>1
<1> DEFINE h == [l \in Seq(S) |-> f[Len(l)][l]]
<1>7. h \in [Seq(S) -> Seq(E)]
  <2>1. \A l \in Seq(S) : Len(l) \in Nat
    OBVIOUS
  <2> QED BY <1>5, <2>1
<1>8. ASSUME NEW l \in Seq(S) PROVE h[l] = IF l = <<>> THEN <<>> ELSE g[Head(l)] \o h[Tail(l)]
  <2>1. CASE l = <<>>
    <3>1. h[l] = v[l] /\ v[l] = <<>>
      BY <1>5, <2>1
    <3> QED BY <2>1, <3>1
  <2>2. CASE l # <<>>
    <3>1. Len(l) - 1 \in Nat /\ (Len(l) - 1) + 1 = Len(l) /\ Tail(l) \in Seq(S)
      BY <1>2, <2>2
    <3>2. f[Len(l)] = add(f[Len(l) - 1])
      BY <1>6, <3>1
    <3>3. add(f[Len(l) - 1])[l] = g[Head(l)] \o f[Len(l) - 1][Tail(l)]
      BY <2>2
    <3>4. h[Tail(l)] = f[Len(l) - 1][Tail(l)]
      BY <1>2, <2>2, <3>1
    <3> HIDE DEF add
    <3> QED BY <2>2, <3>2, <3>3, <3>4
  <2> QED BY <2>1, <2>2
<1> HIDE DEF h
<1> QED BY <1>7, <1>8 DEF Along

LEMMA FinalEntryType ==
    ASSUME NEW w \in Answers, NEW n \in Node, NEW d \in BOOLEAN
    PROVE  FinalEntry(w, n, d) \in Entry
BY EntryTypes DEF FinalEntry

LEMMA EnteredType == \A n, d, p : Entered(n, d, p) \in BOOLEAN
BY DEF Entered

LEMMA PlanTypes ==
    ASSUME NEW w \in Answers, NEW f, NEW n \in Node, NEW d \in Nat, NEW p \in Nat,
           Entered(n, d, p) => f[<<w.listing[n], d + 1, Dev[n]>>] \in Seq(Entry)
    PROVE  /\ VisitPlan(w, f, n, d, p) \in Seq(Entry)
           /\ ChildPlan(w, f, n, d, p) \in Seq(Entry)
<1> DEFINE e == FinalEntry(w, n, Entered(n, d, p))
           below == IF Entered(n, d, p) THEN f[<<w.listing[n], d + 1, Dev[n]>>] ELSE <<>>
<1>1. e \in Entry
  BY FinalEntryType, EnteredType
<1>2. below \in Seq(Entry)
  BY EnteredType
<1>3. LostEntry(n) \in Entry
  BY EntryTypes
<1>4. VisitPlan(w, f, n, d, p) = <<e>> \o below
  BY DEF VisitPlan
<1> HIDE DEF e, below
<1>5. <<e>> \in Seq(Entry) /\ <<>> \in Seq(Entry) /\ <<LostEntry(n)>> \in Seq(Entry)
  BY <1>1, <1>3
<1>6. VisitPlan(w, f, n, d, p) \in Seq(Entry)
  BY <1>2, <1>4, <1>5, ConcatProperties
<1> QED BY <1>5, <1>6 DEF ChildPlan

\* What is asked of a plan for the children of n.
LEMMA ListOfNode ==
    ASSUME NEW w \in Answers, NEW n \in Node, NEW d \in Nat
    PROVE  <<w.listing[n], d + 1, Dev[n]>> \in Lists
BY TreeAssumption DEF Lists, Answers

\* What the plan of a list is, given those of the shorter and the deeper ones.
ListPlan(w, f, names, d, p) ==
    IF names = <<>> THEN <<>>
    ELSE ChildPlan(w, f, Head(names), d, p) \o f[<<Tail(names), d, p>>]

Solves(f, w) ==
    /\ f \in [Lists -> Seq(Entry)]
    /\ \A names \in Seq(Node), d \in Nat, p \in Nat :
          f[<<names, d, p>>] = ListPlan(w, f, names, d, p)

\* The plans of the lists at one depth, given the deeper ones.
Level(h, w, g, d) ==
    /\ h \in [Seq(Node) \X Nat -> Seq(Entry)]
    /\ \A names \in Seq(Node), p \in Nat :
          h[<<names, p>>] = IF names = <<>> THEN <<>>
                            ELSE ChildPlan(w, g, Head(names), d, p) \o h[<<Tail(names), p>>]

\* The same as a plan of lists at every depth.
Flat(h, w, g, d) ==
    /\ h \in [Lists -> Seq(Entry)]
    /\ \A names \in Seq(Node), p \in Nat, e \in Nat :
          h[<<names, e, p>>] = IF names = <<>> THEN <<>>
                               ELSE ChildPlan(w, g, Head(names), d, p) \o h[<<Tail(names), e, p>>]

LEMMA LevelExists ==
    ASSUME NEW w \in Answers, NEW g \in [Lists -> Seq(Entry)], NEW d \in Nat
    PROVE  \E h : Level(h, w, g, d)
<1> DEFINE child(p) == [n \in Node |-> ChildPlan(w, g, n, d, p)]
           at(p) == CHOOSE h : Along(h, child(p), Node, Entry)
           h == [x \in Seq(Node) \X Nat |-> at(x[2])[x[1]]]
<1>1. ASSUME NEW p \in Nat PROVE Along(at(p), child(p), Node, Entry)
  <2>1. child(p) \in [Node -> Seq(Entry)]
    BY PlanTypes, ListOfNode
  <2> HIDE DEF child
  <2>2. \E f : Along(f, child(p), Node, Entry)
    BY <2>1, AlongList
  <2> QED BY <2>2
<1>2. \A names \in Seq(Node), p \in Nat : h[<<names, p>>] = at(p)[names]
  <2> HIDE DEF at
  <2> QED OBVIOUS
<1>3. h \in [Seq(Node) \X Nat -> Seq(Entry)]
  <2> HIDE DEF at, child
  <2>1. \A p \in Nat, names \in Seq(Node) : at(p)[names] \in Seq(Entry)
    BY <1>1 DEF Along
  <2> QED BY <2>1
<1>4. ASSUME NEW names \in Seq(Node), NEW p \in Nat
      PROVE  h[<<names, p>>] = IF names = <<>> THEN <<>>
                               ELSE ChildPlan(w, g, Head(names), d, p) \o h[<<Tail(names), p>>]
  <2> HIDE DEF at, h
  <2>1. at(p)[names] = IF names = <<>> THEN <<>> ELSE child(p)[Head(names)] \o at(p)[Tail(names)]
    <3> HIDE DEF child
    <3> QED BY <1>1 DEF Along
  <2>2. CASE names = <<>>
    BY <1>2, <2>1, <2>2
  <2>3. CASE names # <<>>
    <3>1. Head(names) \in Node /\ Tail(names) \in Seq(Node)
      BY <2>3
    <3>2. child(p)[Head(names)] = ChildPlan(w, g, Head(names), d, p)
      BY <3>1
    <3>3. h[<<names, p>>] = at(p)[names] /\ h[<<Tail(names), p>>] = at(p)[Tail(names)]
      BY <1>2, <3>1
    <3> HIDE DEF child
    <3> QED BY <2>1, <2>3, <3>2, <3>3
  <2> QED BY <2>2, <2>3
<1> HIDE DEF h
<1> QED BY <1>3, <1>4 DEF Level

\* Two plans that agree one level down give the same for a child.
LEMMA SameBelow ==
    ASSUME NEW w \in Answers, NEW f, NEW g, NEW n \in Node, NEW d \in Nat, NEW p \in Nat,
           Entered(n, d, p) => f[<<w.listing[n], d + 1, Dev[n]>>] = g[<<w.listing[n], d + 1, Dev[n]>>]
    PROVE  ChildPlan(w, f, n, d, p) = ChildPlan(w, g, n, d, p)
BY DEF ChildPlan, VisitPlan

\* At the depth limit no directory is entered, whatever the depth.
LEMMA SameAtLimit ==
    ASSUME NEW w \in Answers, NEW f, NEW n \in Node, NEW d \in Nat, NEW e \in Nat, NEW p \in Nat,
           d >= MaxDepth, e >= MaxDepth
    PROVE  ChildPlan(w, f, n, d, p) = ChildPlan(w, f, n, e, p) /\ ~Entered(n, d, p)
<1>1. Entered(n, d, p) = FALSE /\ Entered(n, e, p) = FALSE
  BY OptionsAssumption DEF Entered, MayDescend
<1>2. VisitPlan(w, f, n, d, p) = VisitPlan(w, f, n, e, p)
  BY <1>1, Zenon DEF VisitPlan
<1> QED BY <1>1, <1>2 DEF ChildPlan

LEMMA PlanExists ==
    ASSUME NEW w \in Answers
    PROVE  \E f : Solves(f, w)
<1> DEFINE T == [Lists -> Seq(Entry)]
           level(g, d) == CHOOSE h : Level(h, w, g, d)
           flat(g, d) == [x \in Lists |-> level(g, d)[<<x[1], x[3]>>]]
           depth(j) == IF j <= MaxDepth THEN MaxDepth - j ELSE 0
           nothing == [x \in Lists |-> <<>>]
           v == flat(nothing, MaxDepth)
           step == [x \in T \X Nat |-> flat(x[1], depth(x[2] + 1))]
<1>1. MaxDepth \in Nat \ {0}
  BY OptionsAssumption
<1>2. ASSUME NEW g \in T, NEW d \in Nat
      PROVE  Flat(flat(g, d), w, g, d) /\ flat(g, d) \in T
  <2>1. Level(level(g, d), w, g, d)
    <3>1. \E h : Level(h, w, g, d)
      BY LevelExists
    <3> QED BY <3>1
  <2> DEFINE h == level(g, d)
  <2>2. h \in [Seq(Node) \X Nat -> Seq(Entry)]
    BY <2>1 DEF Level
  <2>3. \A names \in Seq(Node), p \in Nat, e \in Nat : flat(g, d)[<<names, e, p>>] = h[<<names, p>>]
    <3> HIDE DEF level
    <3> QED BY DEF Lists
  <2>4. flat(g, d) \in T
    <3> HIDE DEF level
    <3> QED BY <2>2 DEF Lists
  <2>5. ASSUME NEW names \in Seq(Node), NEW p \in Nat, NEW e \in Nat
        PROVE  flat(g, d)[<<names, e, p>>] =
                  IF names = <<>> THEN <<>>
                  ELSE ChildPlan(w, g, Head(names), d, p) \o flat(g, d)[<<Tail(names), e, p>>]
    <3> HIDE DEF flat, level
    <3>1. h[<<names, p>>] = IF names = <<>> THEN <<>>
                            ELSE ChildPlan(w, g, Head(names), d, p) \o h[<<Tail(names), p>>]
      BY <2>1 DEF Level
    <3>2. names # <<>> => Tail(names) \in Seq(Node)
      OBVIOUS
    <3> QED BY <2>3, <3>1, <3>2
  <2> HIDE DEF flat
  <2> QED BY <2>4, <2>5 DEF Flat
<1>3. nothing \in T
  <2>1. <<>> \in Seq(Entry)
    OBVIOUS
  <2> QED BY <2>1
<1>4. \A j \in Nat : depth(j) \in Nat
  BY <1>1
<1>5. v \in T /\ step \in [T \X Nat -> T]
  <2> HIDE DEF flat, T, depth, nothing
  <2>1. \A x \in T \X Nat : x[1] \in T /\ depth(x[2] + 1) \in Nat
    BY <1>4
  <2>2. \A x \in T \X Nat : flat(x[1], depth(x[2] + 1)) \in T
    BY <1>2, <2>1
  <2> QED BY <1>1, <1>2, <1>3, <2>2
<1>6. PICK f : StepsForEver(f, T, v, step)
  <2> HIDE DEF T, v, step
  <2> QED BY <1>5, Recursion
<1>7. f[0] = v /\ \A j \in Nat : f[j] \in T /\ f[j + 1] = flat(f[j], depth(j + 1))
  <2> HIDE DEF flat, T, depth, v
  <2>1. f \in [Nat -> T] /\ f[0] = v /\ \A j \in Nat : f[j + 1] = step[<<f[j], j>>]
    BY <1>6 DEF StepsForEver
  <2> QED BY <2>1
<1> DEFINE j(d) == IF d < MaxDepth THEN MaxDepth - d ELSE 0
           plan == [x \in Lists |-> f[j(x[2])][x]]
<1> HIDE DEF flat, level
<1>8. \A d \in Nat : j(d) \in Nat
  BY <1>1
<1>9. plan \in T
  <2>1. \A x \in Lists : x[2] \in Nat
    BY DEF Lists
  <2> HIDE DEF j
  <2>2. \A x \in Lists : f[j(x[2])] \in T
    BY <1>7, <1>8, <2>1
  <2> QED BY <2>2
<1>10. \A names \in Seq(Node), d \in Nat, p \in Nat : plan[<<names, d, p>>] = f[j(d)][<<names, d, p>>]
  <2> HIDE DEF j
  <2> QED BY DEF Lists
<1>11. ASSUME NEW names \in Seq(Node), NEW d \in Nat, NEW p \in Nat
       PROVE  plan[<<names, d, p>>] = ListPlan(w, plan, names, d, p)
  <2> HIDE DEF plan
  <2>1. CASE names = <<>>
    <3>1. f[j(d)][<<names, d, p>>] = <<>>
      <4>1. PICK g, e : Flat(f[j(d)], w, g, e)
        <5>1. CASE j(d) = 0
          <6> HIDE DEF j, nothing
          <6>1. Flat(f[0], w, nothing, MaxDepth)
            BY <1>1, <1>2, <1>3, <1>7
          <6> QED BY <5>1, <6>1
        <5>2. CASE j(d) # 0
          <6>1. j(d) - 1 \in Nat /\ j(d) = (j(d) - 1) + 1
            BY <1>8, <5>2
          <6> HIDE DEF j, depth
          <6>2. f[j(d)] = flat(f[j(d) - 1], depth(j(d))) /\ f[j(d) - 1] \in T /\ depth(j(d)) \in Nat
            BY <1>4, <1>7, <1>8, <6>1
          <6> QED BY <1>2, <6>2
        <5> QED BY <5>1, <5>2
      <4> QED BY <2>1, <4>1 DEF Flat
    <3> QED BY <1>10, <2>1, <3>1 DEF ListPlan
  <2>2. CASE names # <<>> /\ d >= MaxDepth
    <3>1. j(d) = 0 /\ Head(names) \in Node /\ Tail(names) \in Seq(Node)
      BY <1>1, <2>2
    <3>2. Flat(f[j(d)], w, nothing, MaxDepth)
      <4> HIDE DEF j, nothing
      <4> QED BY <1>1, <1>2, <1>3, <1>7, <3>1
    <3>3. f[j(d)][<<names, d, p>>] =
             ChildPlan(w, nothing, Head(names), MaxDepth, p) \o f[j(d)][<<Tail(names), d, p>>]
      BY <2>2, <3>2 DEF Flat
    <3>4. ChildPlan(w, nothing, Head(names), MaxDepth, p) = ChildPlan(w, nothing, Head(names), d, p)
      BY <1>1, <2>2, <3>1, SameAtLimit
    <3>5. ~Entered(Head(names), d, p)
      BY <1>1, <2>2, <3>1, SameAtLimit
    <3>6. ChildPlan(w, nothing, Head(names), d, p) = ChildPlan(w, plan, Head(names), d, p)
      <4> HIDE DEF nothing, plan
      <4>1. VisitPlan(w, nothing, Head(names), d, p) = VisitPlan(w, plan, Head(names), d, p)
        BY <3>5 DEF VisitPlan
      <4> QED BY <4>1 DEF ChildPlan
    <3> HIDE DEF j, nothing
    <3> QED BY <1>10, <2>2, <3>1, <3>3, <3>4, <3>6 DEF ListPlan
  <2>3. CASE names # <<>> /\ d < MaxDepth
    <3> DEFINE k == MaxDepth - (d + 1)
    <3>1. /\ k \in Nat /\ j(d) = k + 1 /\ depth(k + 1) = d /\ k = j(d + 1)
          /\ Head(names) \in Node /\ Tail(names) \in Seq(Node)
      BY <1>1, <2>3
    <3>2. Flat(f[j(d)], w, f[k], d)
      <4> HIDE DEF j, depth, k
      <4>1. f[j(d)] = flat(f[k], d) /\ f[k] \in T
        BY <1>7, <3>1
      <4> QED BY <1>2, <4>1
    <3>3. f[j(d)][<<names, d, p>>] =
             ChildPlan(w, f[k], Head(names), d, p) \o f[j(d)][<<Tail(names), d, p>>]
      <4> HIDE DEF j, k
      <4> QED BY <2>3, <3>2 DEF Flat
    <3>4. ChildPlan(w, f[k], Head(names), d, p) = ChildPlan(w, plan, Head(names), d, p)
      <4>1. w.listing[Head(names)] \in Seq(Node) /\ Dev[Head(names)] \in Nat /\ d + 1 \in Nat
        BY <3>1, TreeAssumption DEF Answers
      <4>2. plan[<<w.listing[Head(names)], d + 1, Dev[Head(names)]>>] =
               f[k][<<w.listing[Head(names)], d + 1, Dev[Head(names)]>>]
        <5> HIDE DEF j, k
        <5> QED BY <1>10, <3>1, <4>1
      <4> HIDE DEF k
      <4> QED BY <3>1, <4>2, SameBelow
    <3> HIDE DEF j, k
    <3> QED BY <1>10, <2>3, <3>1, <3>3, <3>4 DEF ListPlan
  <2> QED BY <1>1, <2>1, <2>2, <2>3
<1> HIDE DEF plan
<1> QED BY <1>9, <1>11 DEF Solves

\* What holds of every list of children: by the depth from the limit upwards, as nothing
\* is entered at the limit, and at each depth by the length of the list.
LEMMA EveryList ==
    ASSUME NEW T,
           \A d \in Nat :
              (d < MaxDepth => \A names \in Seq(Node), p \in Nat : <<names, d + 1, p>> \in T) =>
                 \A p \in Nat :
                    /\ <<<<>>, d, p>> \in T
                    /\ \A names \in Seq(Node) :
                          names # <<>> /\ <<Tail(names), d, p>> \in T => <<names, d, p>> \in T
    PROVE  \A names \in Seq(Node), d \in Nat, p \in Nat : <<names, d, p>> \in T
<1> DEFINE At(d) == \A names \in Seq(Node), p \in Nat : <<names, d, p>> \in T
           Reach(j) == \A d \in Nat : d + j >= MaxDepth => At(d)
           S == {j \in Nat : Reach(j)}
<1>1. MaxDepth \in Nat \ {0}
  BY OptionsAssumption
<1>2. ASSUME NEW d \in Nat, d < MaxDepth => At(d + 1) PROVE At(d)
  <2> DEFINE Short(k) == \A names \in Seq(Node), p \in Nat : Len(names) = k => <<names, d, p>> \in T
             K == {k \in Nat : Short(k)}
  <2>1. 0 \in K
    <3>1. \A names \in Seq(Node) : Len(names) = 0 => names = <<>>
      OBVIOUS
    <3>2. \A p \in Nat : <<<<>>, d, p>> \in T
      BY <1>2
    <3> QED BY <3>1, <3>2
  <2>2. ASSUME NEW k \in Nat, k \in K PROVE k + 1 \in K
    <3>1. ASSUME NEW names \in Seq(Node), NEW p \in Nat, Len(names) = k + 1
          PROVE  <<names, d, p>> \in T
      <4>1. names # <<>> /\ Tail(names) \in Seq(Node) /\ Len(Tail(names)) = k
        BY <3>1
      <4>2. <<Tail(names), d, p>> \in T
        BY <2>2, <4>1
      <4> QED BY <1>2, <4>1, <4>2
    <3> QED BY <3>1
  <2>3. \A k \in Nat : k \in K
    <3> HIDE DEF K
    <3> QED BY <2>1, <2>2, EveryNumber
  <2>4. \A names \in Seq(Node) : Len(names) \in Nat
    OBVIOUS
  <2> QED BY <2>3, <2>4
<1>3. 0 \in S
  <2> HIDE DEF At
  <2> QED BY <1>1, <1>2
<1>4. ASSUME NEW j \in Nat, j \in S PROVE j + 1 \in S
  <2> HIDE DEF At
  <2>1. ASSUME NEW d \in Nat, d + (j + 1) >= MaxDepth PROVE At(d)
    <3>1. (d + 1) + j >= MaxDepth /\ d + 1 \in Nat
      BY <1>1, <2>1
    <3>2. At(d + 1)
      BY <1>4, <3>1
    <3> QED BY <1>2, <3>2
  <2> QED BY <2>1
<1>5. \A j \in Nat : j \in S
  <2> HIDE DEF S
  <2> QED BY <1>3, <1>4, EveryNumber
<1>6. \A d \in Nat : At(d)
  <2>1. Reach(MaxDepth)
    <3> HIDE DEF Reach
    <3> QED BY <1>1, <1>5
  <2> HIDE DEF At
  <2> QED BY <1>1, <2>1
<1> QED BY <1>6

\* What obeys the equations of a plan has sequences of entries for values.
LEMMA PlanTyped ==
    ASSUME NEW w \in Answers, NEW c,
           \A names \in Seq(Node), d \in Nat, p \in Nat :
              c[<<names, d, p>>] = ListPlan(w, c, names, d, p)
    PROVE  \A l \in Lists : c[l] \in Seq(Entry)
<1> DEFINE T == {l \in Lists : c[l] \in Seq(Entry)}
<1>1. \A names \in Seq(Node), d \in Nat, p \in Nat : <<names, d, p>> \in T <=> c[<<names, d, p>>] \in Seq(Entry)
  BY DEF Lists
<1> HIDE DEF T
<1>2. ASSUME NEW d \in Nat,
             d < MaxDepth => \A names \in Seq(Node), p \in Nat : <<names, d + 1, p>> \in T,
             NEW p \in Nat
      PROVE  /\ <<<<>>, d, p>> \in T
             /\ \A names \in Seq(Node) :
                   names # <<>> /\ <<Tail(names), d, p>> \in T => <<names, d, p>> \in T
  <2>1. <<<<>>, d, p>> \in T
    <3>1. <<>> \in Seq(Node) /\ <<>> \in Seq(Entry)
      OBVIOUS
    <3> QED BY <1>1, <3>1 DEF ListPlan
  <2>2. ASSUME NEW names \in Seq(Node), names # <<>>, <<Tail(names), d, p>> \in T
        PROVE  <<names, d, p>> \in T
    <3>1. Head(names) \in Node /\ Tail(names) \in Seq(Node)
      BY <2>2
    <3>2. ChildPlan(w, c, Head(names), d, p) \in Seq(Entry)
      <4>1. Entered(Head(names), d, p) => d < MaxDepth \/ d = 0
        BY DEF Entered, MayDescend
      <4>2. w.listing[Head(names)] \in Seq(Node) /\ Dev[Head(names)] \in Nat /\ MaxDepth \in Nat \ {0}
        BY <3>1, TreeAssumption, OptionsAssumption DEF Answers
      <4>3. Entered(Head(names), d, p) => c[<<w.listing[Head(names)], d + 1, Dev[Head(names)]>>] \in Seq(Entry)
        BY <1>1, <1>2, <4>1, <4>2
      <4> QED BY <3>1, <4>3, PlanTypes
    <3>3. c[<<Tail(names), d, p>>] \in Seq(Entry)
      BY <1>1, <2>2, <3>1
    <3>4. c[<<names, d, p>>] = ChildPlan(w, c, Head(names), d, p) \o c[<<Tail(names), d, p>>]
      BY <2>2 DEF ListPlan
    <3>5. c[<<names, d, p>>] \in Seq(Entry)
      BY <3>2, <3>3, <3>4, ConcatProperties
    <3> QED BY <1>1, <3>5
  <2> QED BY <2>1, <2>2
<1>3. \A names \in Seq(Node), d \in Nat, p \in Nat : <<names, d, p>> \in T
  BY <1>2, EveryList
<1>4. \A l \in Lists : /\ l[1] \in Seq(Node) /\ l[2] \in Nat /\ l[3] \in Nat
                       /\ l = <<l[1], l[2], l[3]>>
  BY DEF Lists
<1> QED BY <1>1, <1>3, <1>4

LEMMA PlanSolves == ASSUME NEW w \in Answers PROVE Solves(ChildrenPlan(w), w)
<1> DEFINE Is(f) == f = [l \in Lists |-> ListPlan(w, f, l[1], l[2], l[3])]
<1>1. ChildrenPlan(w) = CHOOSE f : Is(f)
  BY DEF ChildrenPlan, ListPlan
<1>2. PICK f : Solves(f, w)
  BY PlanExists
<1>3. Is(f)
  <2>1. \A l \in Lists : f[l] = ListPlan(w, f, l[1], l[2], l[3])
    <3>1. \A l \in Lists : /\ l[1] \in Seq(Node) /\ l[2] \in Nat /\ l[3] \in Nat
                            /\ l = <<l[1], l[2], l[3]>>
      BY DEF Lists
    <3> QED BY <1>2, <3>1 DEF Solves
  <2> QED BY <1>2, <2>1 DEF Solves
<1> DEFINE c == ChildrenPlan(w)
<1>4. Is(c)
  <2> HIDE DEF Is
  <2> QED BY <1>1, <1>3
<1>5. ASSUME NEW names \in Seq(Node), NEW d \in Nat, NEW p \in Nat
      PROVE  c[<<names, d, p>>] = ListPlan(w, c, names, d, p)
  <2>1. <<names, d, p>> \in Lists
    BY DEF Lists
  <2> HIDE DEF c
  <2> QED BY <1>4, <2>1
<1>6. \A l \in Lists : c[l] \in Seq(Entry)
  <2> HIDE DEF c
  <2> QED BY <1>5, PlanTyped
<1> QED BY <1>4, <1>5, <1>6 DEF Solves

-----------------------------------------------------------------------------
(* What the calls of visit still owe.                                      *)

\* One call: all of its subtree before it has a cell, then the children left.
FrameOwes(w, f) ==
    IF f.cell = NoCell
    THEN VisitPlan(w, ChildrenPlan(w), f.path, f.depth, f.parentDev)
    ELSE ChildrenPlan(w)[<<f.rest, f.depth + 1, Dev[f.path]>>]

\* The entries that the calls on st owe, the innermost first: sums adds them up from
\* the outermost.
Sums(w, sums, st) ==
    /\ sums \in [0 .. Len(st) -> Seq(Entry)]
    /\ sums[0] = <<>>
    /\ \A k \in 1 .. Len(st) : sums[k] = FrameOwes(w, st[k]) \o sums[k - 1]

Owes(w, st, rem) == \E sums : Sums(w, sums, st) /\ rem = sums[Len(st)]

LEMMA PlanIsTyped ==
    ASSUME NEW w \in Answers
    PROVE  /\ \A names \in Seq(Node), d \in Nat, p \in Nat :
                 /\ ChildrenPlan(w)[<<names, d, p>>] \in Seq(Entry)
                 /\ ChildrenPlan(w)[<<names, d, p>>] = ListPlan(w, ChildrenPlan(w), names, d, p)
           /\ \A n \in Node, d \in Nat, p \in Nat :
                 /\ VisitPlan(w, ChildrenPlan(w), n, d, p) \in Seq(Entry)
                 /\ ChildPlan(w, ChildrenPlan(w), n, d, p) \in Seq(Entry)
<1>1. Solves(ChildrenPlan(w), w)
  BY PlanSolves
<1>2. \A names \in Seq(Node), d \in Nat, p \in Nat : <<names, d, p>> \in Lists
  BY DEF Lists
<1>3. \A l \in Lists : ChildrenPlan(w)[l] \in Seq(Entry)
  BY <1>1 DEF Solves
<1>4. \A n \in Node, d \in Nat, p \in Nat :
                 /\ VisitPlan(w, ChildrenPlan(w), n, d, p) \in Seq(Entry)
                 /\ ChildPlan(w, ChildrenPlan(w), n, d, p) \in Seq(Entry)
  BY <1>3, PlanTypes, ListOfNode
<1> QED BY <1>1, <1>2, <1>3, <1>4 DEF Solves

LEMMA FrameOwesTyped ==
    ASSUME NEW w \in Answers, NEW f \in Frame
    PROVE  FrameOwes(w, f) \in Seq(Entry)
<1>1. f.path \in Node /\ f.depth \in Nat /\ f.parentDev \in Nat /\ f.rest \in Seq(Node)
  BY DEF Frame
<1>2. Dev[f.path] \in Nat /\ f.depth + 1 \in Nat
  BY <1>1, TreeAssumption
<1> QED BY <1>1, <1>2, PlanIsTyped DEF FrameOwes

\* Nobody owes anything when there is no call.
LEMMA OwesNothing == ASSUME NEW w, NEW rem PROVE Owes(w, <<>>, rem) <=> rem = <<>>
<1>1. ASSUME Owes(w, <<>>, rem) PROVE rem = <<>>
  BY <1>1 DEF Owes, Sums
<1>2. Owes(w, <<>>, <<>>)
  <2>1. Sums(w, [k \in 0 .. 0 |-> <<>>], <<>>)
    BY DEF Sums
  <2> QED BY <2>1 DEF Owes
<1> QED BY <1>1, <1>2

\* One more call owes what it owes by itself, and then what the others do.
LEMMA OwesPush ==
    ASSUME NEW w \in Answers, NEW st \in Seq(Frame), NEW f \in Frame, NEW rem, Owes(w, st, rem)
    PROVE  Owes(w, Append(st, f), FrameOwes(w, f) \o rem) /\ rem \in Seq(Entry)
<1> DEFINE n == Len(st)
           top == Append(st, f)
<1>1. PICK sums : /\ sums \in [0 .. n -> Seq(Entry)] /\ sums[0] = <<>> /\ rem = sums[n]
                  /\ \A k \in 1 .. n : sums[k] = FrameOwes(w, st[k]) \o sums[k - 1]
  BY DEF Owes, Sums
<1>2. n \in Nat /\ Len(top) = n + 1 /\ top[n + 1] = f /\ \A k \in 1 .. n : top[k] = st[k]
  OBVIOUS
<1>3. rem \in Seq(Entry) /\ FrameOwes(w, f) \in Seq(Entry)
  <2>1. rem \in Seq(Entry)
    BY <1>1, <1>2
  <2> QED BY <2>1, FrameOwesTyped
<1>4. FrameOwes(w, f) \o rem \in Seq(Entry)
  BY <1>3, ConcatProperties
<1> DEFINE more == [k \in 0 .. n + 1 |-> IF k = n + 1 THEN FrameOwes(w, f) \o rem ELSE sums[k]]
<1> HIDE DEF n, top
<1>5. more \in [0 .. n + 1 -> Seq(Entry)] /\ more[0] = <<>> /\ more[n + 1] = FrameOwes(w, f) \o rem
  <2> DEFINE all == FrameOwes(w, f) \o rem
  <2>1. all \in Seq(Entry)
    BY <1>4
  <2>2. more = [k \in 0 .. n + 1 |-> IF k = n + 1 THEN all ELSE sums[k]]
    OBVIOUS
  <2> HIDE DEF all, more
  <2>3. more \in [0 .. n + 1 -> Seq(Entry)] /\ more[0] = <<>> /\ more[n + 1] = all
    BY <1>1, <1>2, <2>1, <2>2
  <2> QED BY <2>3 DEF all
<1>6. ASSUME NEW k \in 1 .. n + 1 PROVE more[k] = FrameOwes(w, top[k]) \o more[k - 1]
  <2>1. CASE k = n + 1
    <3>1. more[n] = rem
      BY <1>1, <1>2
    <3>2. k - 1 = n
      BY <1>2, <2>1
    <3> HIDE DEF more
    <3>3. more[n + 1] = FrameOwes(w, top[n + 1]) \o more[n]
      BY <1>2, <1>5, <3>1
    <3> QED BY <2>1, <3>2, <3>3
  <2>2. CASE k # n + 1
    <3>1. k \in 1 .. n /\ more[k] = sums[k] /\ more[k - 1] = sums[k - 1] /\ top[k] = st[k]
      BY <1>2, <2>2
    <3> QED BY <1>1, <3>1
  <2> QED BY <2>1, <2>2
<1>7. Sums(w, more, top)
  <2> HIDE DEF more
  <2> QED BY <1>2, <1>5, <1>6 DEF Sums
<1> HIDE DEF more
<1> QED BY <1>2, <1>3, <1>5, <1>7 DEF Owes, top

\* And the other way round.
FirstOwes(w, f, st, rem) == \E r \in Seq(Entry) : Owes(w, st, r) /\ rem = FrameOwes(w, f) \o r

LEMMA OwesPop ==
    ASSUME NEW w \in Answers, NEW st \in Seq(Frame), NEW f \in Frame, NEW rem,
           NEW top, top = Append(st, f), Owes(w, top, rem)
    PROVE  FirstOwes(w, f, st, rem)
<1> DEFINE n == Len(st)
<1>1. n \in Nat /\ Len(top) = n + 1 /\ top[n + 1] = f /\ \A k \in 1 .. n : top[k] = st[k]
  OBVIOUS
<1>2. PICK sums : /\ sums \in [0 .. n + 1 -> Seq(Entry)] /\ sums[0] = <<>> /\ rem = sums[n + 1]
                  /\ \A k \in 1 .. n + 1 : sums[k] = FrameOwes(w, top[k]) \o sums[k - 1]
  BY <1>1 DEF Owes, Sums
<1> DEFINE less == [k \in 0 .. n |-> sums[k]]
<1> HIDE DEF n
<1>3. less \in [0 .. n -> Seq(Entry)] /\ less[0] = <<>>
  BY <1>1, <1>2
<1>4. ASSUME NEW k \in 1 .. n PROVE less[k] = FrameOwes(w, st[k]) \o less[k - 1]
  <2>1. less[k] = sums[k] /\ less[k - 1] = sums[k - 1] /\ top[k] = st[k] /\ k \in 1 .. n + 1
    BY <1>1
  <2> QED BY <1>2, <2>1
<1>5. Sums(w, less, st)
  <2> HIDE DEF less
  <2> QED BY <1>1, <1>3, <1>4 DEF Sums, n
<1>6. rem = FrameOwes(w, f) \o less[n] /\ less[n] \in Seq(Entry)
  <2>1. less[n] = sums[(n + 1) - 1] /\ less[n] \in Seq(Entry) /\ n + 1 \in 1 .. n + 1
    BY <1>1, <1>3
  <2> HIDE DEF less
  <2> QED BY <1>1, <1>2, <2>1
<1> HIDE DEF less
<1> QED BY <1>5, <1>6 DEF FirstOwes, Owes, n

\* The calls without the innermost one.
LEMMA OuterCalls ==
    ASSUME NEW st \in Seq(Frame), NEW n \in Nat, Len(st) = n + 1
    PROVE  /\ SubSeq(st, 1, n) \in Seq(Frame) /\ Len(SubSeq(st, 1, n)) = n
           /\ \A k \in 1 .. n : SubSeq(st, 1, n)[k] = st[k]
<1> DEFINE front == SubSeq(st, 1, n)
<1>1. \A k \in 1 .. n : st[k] \in Frame
  OBVIOUS
<1>2. n \in Int /\ 1 \in Int
  OBVIOUS
<1>3. /\ front \in Seq(Frame)
      /\ Len(front) = IF 1 <= n THEN n - 1 + 1 ELSE 0
      /\ \A k \in 1 .. n - 1 + 1 : front[k] = st[1 + k - 1]
  BY ONLY <1>1, <1>2, SubSeqProperties
<1>4. n - 1 + 1 = n /\ \A k \in 1 .. n : 1 + k - 1 = k
  OBVIOUS
<1> HIDE DEF front
<1>5. front \in Seq(Frame) /\ Len(front) = n /\ \A k \in 1 .. n : front[k] = st[k]
  BY <1>3, <1>4
<1> QED BY <1>5 DEF front

\* What the innermost call owes comes first, whatever frame it has, and then r.
OwesThen(w, st, rem, r) ==
    /\ rem = FrameOwes(w, st[Len(st)]) \o r
    /\ Owes(w, SubSeq(st, 1, Len(st) - 1), r)
    /\ \A f \in Frame : Owes(w, [st EXCEPT ![Len(st)] = f], FrameOwes(w, f) \o r)

LEMMA OwesTop ==
    ASSUME NEW w \in Answers, NEW st \in Seq(Frame), st # <<>>, NEW rem, Owes(w, st, rem)
    PROVE  \E r \in Seq(Entry) : OwesThen(w, st, rem, r)
<1> DEFINE n == Len(st) - 1
           front == SubSeq(st, 1, n)
<1>1. n \in Nat /\ Len(st) = n + 1 /\ \A k \in 1 .. n + 1 : st[k] \in Frame
  OBVIOUS
<1>2. front \in Seq(Frame) /\ Len(front) = n /\ \A k \in 1 .. n : front[k] = st[k]
  <2> HIDE DEF n
  <2> QED BY <1>1, OuterCalls
<1> HIDE DEF front, n
<1>3. ASSUME NEW f \in Frame, NEW s \in Seq(Frame), Len(s) = n + 1, s[n + 1] = f,
             \A k \in 1 .. n : s[k] = st[k]
      PROVE  s = Append(front, f)
  <2>1. Append(front, f) \in Seq(Frame) /\ Len(Append(front, f)) = n + 1
    BY <1>2
  <2>2. \A k \in 1 .. n + 1 : s[k] = Append(front, f)[k]
    BY <1>1, <1>2, <1>3
  <2> QED BY <1>3, <2>1, <2>2, SeqEqual
<1>4. st = Append(front, st[n + 1]) /\ st[n + 1] \in Frame
  BY <1>1, <1>3
<1>5. PICK r \in Seq(Entry) : Owes(w, front, r) /\ rem = FrameOwes(w, st[n + 1]) \o r
  <2> DEFINE last == st[n + 1]
             joined == Append(front, last)
  <2>1. last \in Frame /\ st = joined
    BY <1>4
  <2> HIDE DEF last, joined
  <2>2. Owes(w, joined, rem) /\ joined = Append(front, last)
    BY <2>1 DEF joined
  <2>3. FirstOwes(w, last, front, rem)
    BY <1>2, <2>1, <2>2, OwesPop
  <2> QED BY <2>3 DEF FirstOwes, last
<1>6. ASSUME NEW f \in Frame PROVE Owes(w, [st EXCEPT ![n + 1] = f], FrameOwes(w, f) \o r)
  <2> DEFINE s == [st EXCEPT ![n + 1] = f]
  <2>1. s \in Seq(Frame) /\ Len(s) = n + 1 /\ s[n + 1] = f /\ \A k \in 1 .. n : s[k] = st[k]
    BY <1>1
  <2> HIDE DEF s
  <2>2. s = Append(front, f)
    BY <1>3, <2>1
  <2>3. Owes(w, s, FrameOwes(w, f) \o r)
    BY <1>2, <1>5, <2>2, OwesPush
  <2> QED BY <2>3 DEF s
<1> QED BY <1>1, <1>5, <1>6 DEF OwesThen, front, n

\* A call that has its cell owes the next child first.
LEMMA ChildOwes ==
    ASSUME NEW w \in Answers, NEW f \in Frame, f.cell # NoCell, f.rest # <<>>
    PROVE  /\ [f EXCEPT !.rest = Tail(f.rest)] \in Frame
           /\ FrameOwes(w, f) =
                 ChildPlan(w, ChildrenPlan(w), Head(f.rest), f.depth + 1, Dev[f.path]) \o
                 FrameOwes(w, [f EXCEPT !.rest = Tail(f.rest)])
<1> DEFINE g == [f EXCEPT !.rest = Tail(f.rest)]
<1>1. f.rest \in Seq(Node) /\ f.path \in Node /\ f.depth \in Nat /\ Tail(f.rest) \in Seq(Node)
  BY DEF Frame
<1>2. g \in Frame
  BY <1>1 DEF Frame
<1>3. g.rest = Tail(f.rest) /\ g.cell = f.cell /\ g.depth = f.depth /\ g.path = f.path
  BY DEF Frame
<1>4. f.depth + 1 \in Nat /\ Dev[f.path] \in Nat
  BY <1>1, TreeAssumption
<1>5. ChildrenPlan(w)[<<f.rest, f.depth + 1, Dev[f.path]>>] =
         ListPlan(w, ChildrenPlan(w), f.rest, f.depth + 1, Dev[f.path])
  BY <1>1, <1>4, PlanIsTyped
<1> HIDE DEF g
<1>6. FrameOwes(w, g) = ChildrenPlan(w)[<<Tail(f.rest), f.depth + 1, Dev[f.path]>>]
  BY <1>3 DEF FrameOwes
<1>7. FrameOwes(w, f) = ChildrenPlan(w)[<<f.rest, f.depth + 1, Dev[f.path]>>]
  BY DEF FrameOwes
<1>8. FrameOwes(w, f) =
         ChildPlan(w, ChildrenPlan(w), Head(f.rest), f.depth + 1, Dev[f.path]) \o FrameOwes(w, g)
  BY <1>5, <1>6, <1>7 DEF ListPlan
<1> QED BY <1>2, <1>8 DEF g

\* With no child left it owes nothing.
LEMMA LastOwes ==
    ASSUME NEW w \in Answers, NEW f \in Frame, f.cell # NoCell, f.rest = <<>>
    PROVE  FrameOwes(w, f) = <<>>
<1>1. f.path \in Node /\ f.depth \in Nat
  BY DEF Frame
<1>2. f.depth + 1 \in Nat /\ Dev[f.path] \in Nat /\ <<>> \in Seq(Node)
  BY <1>1, TreeAssumption
<1>3. ChildrenPlan(w)[<<<<>>, f.depth + 1, Dev[f.path]>>] =
         ListPlan(w, ChildrenPlan(w), <<>>, f.depth + 1, Dev[f.path])
  BY <1>2, PlanIsTyped
<1> QED BY <1>3 DEF FrameOwes, ListPlan

\* A call that takes its cell has the entry of its path, and owes its children.
LEMMA CallOwes ==
    ASSUME NEW w \in Answers, NEW f \in Frame, f.cell = NoCell, NEW c \in Cell
    PROVE  LET entered == Entered(f.path, f.depth, f.parentDev)
               g == [f EXCEPT !.cell = c, !.rest = IF entered THEN w.listing[f.path] ELSE <<>>]
           IN  /\ g \in Frame
               /\ FinalEntry(w, f.path, entered) \in Entry
               /\ FrameOwes(w, f) = <<FinalEntry(w, f.path, entered)>> \o FrameOwes(w, g)
<1> DEFINE entered == Entered(f.path, f.depth, f.parentDev)
           children == IF entered THEN w.listing[f.path] ELSE <<>>
           g == [f EXCEPT !.cell = c, !.rest = children]
           e == FinalEntry(w, f.path, entered)
<1>1. f.path \in Node /\ f.depth \in Nat /\ f.parentDev \in Nat /\ w.listing[f.path] \in Seq(Node)
  BY DEF Frame, Answers
<1>2. children \in Seq(Node) /\ entered \in BOOLEAN
  <2>1. <<>> \in Seq(Node)
    OBVIOUS
  <2>2. entered \in BOOLEAN
    BY EnteredType
  <2> HIDE DEF entered
  <2> QED BY <1>1, <2>1, <2>2
<1>3. c # NoCell
  BY DEF Cell, NoCell
<1>4. g \in Frame /\ g.cell = c /\ g.rest = children /\ g.path = f.path /\ g.depth = f.depth
  <2> HIDE DEF children
  <2> QED BY <1>2 DEF Frame
<1>5. e \in Entry
  BY <1>1, <1>2, FinalEntryType
<1>6. FrameOwes(w, f) = <<e>> \o (IF entered THEN ChildrenPlan(w)[<<w.listing[f.path], f.depth + 1, Dev[f.path]>>] ELSE <<>>)
  BY DEF FrameOwes, VisitPlan
<1> HIDE DEF g, e, entered
<1>7. CASE entered
  <2>1. FrameOwes(w, g) = ChildrenPlan(w)[<<w.listing[f.path], f.depth + 1, Dev[f.path]>>]
    BY <1>3, <1>4, <1>7 DEF FrameOwes
  <2> QED BY <1>4, <1>5, <1>6, <1>7, <2>1 DEF g, e, entered
<1>8. CASE ~entered
  <2>1. FrameOwes(w, g) = <<>>
    BY <1>3, <1>4, <1>8, LastOwes
  <2> QED BY <1>4, <1>5, <1>6, <1>8, <2>1 DEF g, e, entered
<1> QED BY <1>2, <1>7, <1>8

-----------------------------------------------------------------------------
(* Where the entries of the plan are.                                      *)

\* The entry each cell ends up with.
Settling == [c \in Cell |-> IF wg[c] = 0 THEN entry[c] ELSE HashEntry(world, entry[c])]

Handing == cpc \in {"wait", "emit"}      \* the consumer holds an entry it has not emitted
Sending == wpc \in {"submit", "commit"}  \* the walker holds one it has not committed

\* How many entries have left the queue, and how many have left the walker's calls.
Ahead  == Len(emitted) + (IF Handing THEN 1 ELSE 0)
Behind == Ahead + Len(ordered) + (IF Sending THEN 1 ELSE 0)

\* The plan is what was emitted, what is in the cells in their order, and rem.
OnPlan(rem) ==
    /\ Len(Plan[world]) = Behind + Len(rem)
    /\ \A i \in 1 .. Len(emitted) : Plan[world][i] = emitted[i]
    /\ Handing => Plan[world][Len(emitted) + 1] = Settling[taken]
    /\ \A i \in 1 .. Len(ordered) : Plan[world][Ahead + i] = Settling[ordered[i]]
    /\ Sending => Plan[world][Behind] = Settling[cur]
    /\ \A i \in 1 .. Len(rem) : Plan[world][Behind + i] = rem[i]

\* The cell of a call holds the device of its directory, be it that of another entry by
\* now; where there is a cell for each entry, those left are enough for rem and no call
\* has used one of them.
Enough(rem) ==
    /\ OneFilesystem \/ CellForEach =>
          \A k \in 1 .. Len(stack) : stack[k].cell \in Cell =>
              entry[stack[k].cell].dev = Dev[stack[k].path]
    /\ CellForEach =>
          /\ Len(rem) <= Len(free)
          /\ \A k \in 1 .. Len(stack) : stack[k].cell \in Cell =>
                \A i \in 1 .. Len(rem) : free[i] # stack[k].cell

\* rem is what the plan still has to come: the calls owe it, or it was cut off.
Remains(rem) ==
    /\ walkErr = "none" => Owes(world, stack, rem) /\ Enough(rem)
    /\ walkErr # "none" => rem # <<>> /\ cancelled
    /\ ~emitErr => OnPlan(rem)

Calls ==
    /\ world \in World
    /\ wpc \in {"visit", "acquire"} => Top.cell = NoCell
    /\ wpc \in Active => walkErr = "none"
    /\ wpc \in Stopping => stack = <<>>

PlanInv == Calls /\ \E rem \in Seq(Entry) : Remains(rem)

LEMMA SettlingTyped == IInv => Settling \in [Cell -> Entry]
  BY EntryTypes DEF IInv, TypeOK, Settling

LEMMA PlanOfWorld ==
    ASSUME world \in World
    PROVE  /\ world \in Answers
           /\ Plan[world] = VisitPlan(world, ChildrenPlan(world), Root, 0, Dev[Root])
           /\ Plan[world] \in Seq(Entry)
<1>1. world \in Answers
  BY WorldAssumption
<1>2. Plan[world] = VisitPlan(world, ChildrenPlan(world), Root, 0, Dev[Root])
  BY DEF Plan
<1>3. Root \in Node /\ 0 \in Nat /\ Dev[Root] \in Nat
  BY TreeAssumption
<1> QED BY <1>1, <1>2, <1>3, PlanIsTyped

\* A step that moves no entry.
LEMMA PlanSame ==
    ASSUME NEW rem \in Seq(Entry), OnPlan(rem), world' = world,
           emitted' = emitted, ordered' = ordered, Settling' = Settling,
           Handing' = Handing, Sending' = Sending,
           Handing => taken' = taken, Sending => cur' = cur
    PROVE  OnPlan(rem)'
<1>1. Ahead' = Ahead /\ Behind' = Behind
  BY DEF Ahead, Behind
<1> QED BY <1>1 DEF OnPlan

\* The walker fills a cell with the next entry of the plan.
LEMMA PlanFills ==
    ASSUME IInv, IInv', NEW rem \in Seq(Entry), NEW x \in Entry, NEW c \in Cell,
           OnPlan(<<x>> \o rem), world' = world,
           emitted' = emitted, ordered' = ordered, cpc' = cpc, taken' = taken,
           ~Sending, Sending', cur' = c, Settling'[c] = x,
           \A d \in Cell : d # c => Settling'[d] = Settling[d]
    PROVE  OnPlan(rem)'
<1> DEFINE all == <<x>> \o rem
<1>1. Len(all) = Len(rem) + 1 /\ all[1] = x /\ \A i \in 1 .. Len(rem) : all[i + 1] = rem[i]
  OBVIOUS
<1>2. /\ Len(emitted) \in Nat /\ Len(ordered) \in Nat /\ Len(rem) \in Nat
      /\ \A i \in 1 .. Len(ordered) : ordered[i] \in Cell
  <2>1. emitted \in Seq(Entry) /\ ordered \in Seq(Cell)
    BY DEF IInv, TypeOK
  <2> QED BY <2>1
<1>3. \A i \in 1 .. Len(ordered) : ordered[i] # c
  BY DEF IInv, OnePlace
<1>4. Handing => taken \in Cell /\ taken # c
  BY DEF IInv, OnePlace, Holding, Handing
<1>5. Handing' = Handing /\ Ahead' = Ahead /\ Behind' = Behind + 1 /\ Ahead \in Nat /\ Behind \in Nat
  BY <1>2 DEF Ahead, Behind, Handing
<1> HIDE DEF all
<1>6. OnPlan(all)
  BY DEF all
<1>7. Plan[world][Behind + 1] = x
  <2>1. 1 \in 1 .. Len(all)
    BY <1>1, <1>2
  <2> QED BY <1>1, <1>6, <2>1 DEF OnPlan
<1>8. \A i \in 1 .. Len(rem) : Plan[world][(Behind + 1) + i] = rem[i]
  <2> SUFFICES ASSUME NEW i \in 1 .. Len(rem) PROVE Plan[world][(Behind + 1) + i] = rem[i]
    OBVIOUS
  <2>1. i + 1 \in 1 .. Len(all) /\ (Behind + 1) + i = Behind + (i + 1)
    BY <1>1, <1>2, <1>5
  <2> QED BY <1>1, <1>6, <2>1 DEF OnPlan
<1>9. Len(Plan[world]) = Behind + 1 + Len(rem)
  BY <1>1, <1>2, <1>5, <1>6 DEF OnPlan
<1>10. /\ \A i \in 1 .. Len(emitted) : Plan[world][i] = emitted[i]
       /\ Handing => Plan[world][Len(emitted) + 1] = Settling'[taken]
       /\ \A i \in 1 .. Len(ordered) : Plan[world][Ahead + i] = Settling'[ordered[i]]
  BY <1>2, <1>3, <1>4, <1>6 DEF OnPlan
<1> QED BY <1>5, <1>7, <1>8, <1>9, <1>10 DEF OnPlan

\* The walker drops the entry it holds: it is the first of those that remain.
LEMMA PlanDrops ==
    ASSUME IInv, NEW rem \in Seq(Entry), OnPlan(rem), world' = world,
           emitted' = emitted, ordered' = ordered, cpc' = cpc, taken' = taken,
           Sending, ~Sending', NEW x \in Entry, x = Settling[cur],
           \A d \in Cell : d # cur => Settling'[d] = Settling[d]
    PROVE  OnPlan(<<x>> \o rem)'
<1>0. cur \in Cell
  BY DEF IInv, Holding, Sending
<1> DEFINE all == <<x>> \o rem
<1>1. Len(all) = Len(rem) + 1 /\ all[1] = x /\ \A i \in 2 .. Len(rem) + 1 : all[i] = rem[i - 1]
  OBVIOUS
<1>2. /\ Len(emitted) \in Nat /\ Len(ordered) \in Nat /\ Len(rem) \in Nat
      /\ \A i \in 1 .. Len(ordered) : ordered[i] \in Cell
  <2>1. emitted \in Seq(Entry) /\ ordered \in Seq(Cell)
    BY DEF IInv, TypeOK
  <2> QED BY <2>1
<1>3. \A i \in 1 .. Len(ordered) : ordered[i] # cur
  BY DEF IInv, OnePlace
<1>4. Handing => taken \in Cell /\ taken # cur
  BY <1>0 DEF IInv, OnePlace, Holding, Handing
<1>5. Handing' = Handing /\ Ahead' = Ahead /\ Behind = Behind' + 1 /\ Ahead' \in Nat /\ Behind' \in Nat
  BY <1>2 DEF Ahead, Behind, Handing
<1> HIDE DEF all
<1>6. \A i \in 1 .. Len(all) : Plan[world][Behind' + i] = all[i]
  <2> SUFFICES ASSUME NEW i \in 1 .. Len(all) PROVE Plan[world][Behind' + i] = all[i]
    OBVIOUS
  <2>1. CASE i = 1
    BY <1>1, <1>5, <2>1 DEF OnPlan
  <2>2. CASE i # 1
    <3>1. i - 1 \in 1 .. Len(rem) /\ i \in 2 .. Len(rem) + 1 /\ Behind' + i = Behind + (i - 1)
      BY <1>1, <1>2, <1>5, <2>2
    <3> QED BY <1>1, <3>1 DEF OnPlan
  <2> QED BY <2>1, <2>2
<1>7. Len(Plan[world]) = Behind' + Len(all)
  BY <1>1, <1>2, <1>5 DEF OnPlan
<1>8. /\ \A i \in 1 .. Len(emitted) : Plan[world][i] = emitted[i]
      /\ Handing => Plan[world][Len(emitted) + 1] = Settling'[taken]
      /\ \A i \in 1 .. Len(ordered) : Plan[world][Ahead + i] = Settling'[ordered[i]]
  BY <1>2, <1>3, <1>4 DEF OnPlan
<1>9. OnPlan(all)'
  BY <1>5, <1>6, <1>7, <1>8 DEF OnPlan
<1> QED BY <1>9 DEF all

\* The consumer takes the first cell of the queue.
LEMMA PlanReceives ==
    ASSUME IInv, NEW rem \in Seq(Entry), OnPlan(rem), Receive
    PROVE  OnPlan(rem)'
<1>1. /\ Len(emitted) \in Nat /\ ordered \in Seq(Cell) /\ ordered # <<>> /\ Len(ordered) \in Nat \ {0}
      /\ taken' = ordered[1] /\ Len(ordered') = Len(ordered) - 1
      /\ \A i \in 1 .. Len(ordered) - 1 : ordered'[i] = ordered[i + 1]
      /\ emitted' = emitted /\ world' = world /\ cur' = cur /\ Settling' = Settling
  BY DEF IInv, TypeOK, Receive, Settling, slotVars, walkerVars
<1>2. ~Handing /\ Handing' /\ Sending' = Sending
  BY DEF Receive, Handing, Sending, walkerVars
<1>3. Ahead' = Ahead + 1 /\ Behind' = Behind /\ Ahead = Len(emitted)
  BY <1>1, <1>2 DEF Ahead, Behind
<1>4. Plan[world][Len(emitted) + 1] = Settling[ordered[1]]
  <2>1. 1 \in 1 .. Len(ordered)
    BY <1>1
  <2> QED BY <1>3, <2>1 DEF OnPlan
<1>5. \A i \in 1 .. Len(ordered') : Plan[world][Ahead' + i] = Settling[ordered'[i]]
  <2> SUFFICES ASSUME NEW i \in 1 .. Len(ordered') PROVE Plan[world][Ahead' + i] = Settling[ordered'[i]]
    OBVIOUS
  <2>1. i + 1 \in 1 .. Len(ordered) /\ Ahead' + i = Ahead + (i + 1) /\ ordered'[i] = ordered[i + 1]
    BY <1>1, <1>3
  <2> QED BY <2>1 DEF OnPlan
<1>6. /\ Len(Plan[world]) = Behind + Len(rem)
      /\ \A i \in 1 .. Len(emitted) : Plan[world][i] = emitted[i]
      /\ Sending => Plan[world][Behind] = Settling[cur]
      /\ \A i \in 1 .. Len(rem) : Plan[world][Behind + i] = rem[i]
  BY DEF OnPlan
<1> QED BY <1>1, <1>2, <1>3, <1>4, <1>5, <1>6 DEF OnPlan

\* It emits the entry of the cell it holds, which is the next one of the plan.
LEMMA PlanEmits ==
    ASSUME IInv, NEW rem \in Seq(Entry), OnPlan(rem), NEW fails \in BOOLEAN, Emit(fails), ~emitErr
    PROVE  /\ OnPlan(rem)'
           /\ Len(emitted) < Len(Plan[world])
           /\ emitted' = Append(emitted, Plan[world][Len(emitted) + 1])
<1>1. /\ emitted \in Seq(Entry) /\ Len(emitted) \in Nat /\ Len(ordered) \in Nat /\ Len(rem) \in Nat
      /\ taken \in Cell /\ entry[taken] \in Entry /\ wg[taken] = 0
  BY DEF IInv, TypeOK, Holding, Settled, Emit
<1>2. /\ emitted' = Append(emitted, entry[taken]) /\ ordered' = ordered
      /\ world' = world /\ cur' = cur /\ Settling' = Settling /\ Settling[taken] = entry[taken]
  BY <1>1 DEF Emit, Settling, slotVars, walkerVars, ringVars
<1>3. Handing /\ ~Handing' /\ Sending' = Sending
  BY DEF Emit, Handing, Sending, walkerVars
<1>4. /\ Len(emitted') = Len(emitted) + 1 /\ emitted'[Len(emitted) + 1] = entry[taken]
      /\ \A i \in 1 .. Len(emitted) : emitted'[i] = emitted[i]
  BY <1>1, <1>2
<1>5. Ahead' = Ahead /\ Behind' = Behind /\ Ahead = Len(emitted) + 1 /\ Behind \in Nat /\ Behind >= Ahead
  BY <1>1, <1>2, <1>3, <1>4 DEF Ahead, Behind
<1>6. Plan[world][Len(emitted) + 1] = entry[taken]
  BY <1>2, <1>3 DEF OnPlan
<1>7. \A i \in 1 .. Len(emitted') : Plan[world][i] = emitted'[i]
  <2> SUFFICES ASSUME NEW i \in 1 .. Len(emitted') PROVE Plan[world][i] = emitted'[i]
    OBVIOUS
  <2>1. i \in 1 .. Len(emitted) \/ i = Len(emitted) + 1
    BY <1>1, <1>4
  <2> QED BY <1>4, <1>6, <2>1 DEF OnPlan
<1>8. /\ Len(Plan[world]) = Behind + Len(rem)
      /\ \A i \in 1 .. Len(ordered) : Plan[world][Ahead + i] = Settling[ordered[i]]
      /\ Sending => Plan[world][Behind] = Settling[cur]
      /\ \A i \in 1 .. Len(rem) : Plan[world][Behind + i] = rem[i]
  BY DEF OnPlan
<1>9. OnPlan(rem)'
  BY <1>2, <1>3, <1>5, <1>7, <1>8 DEF OnPlan
<1> QED BY <1>1, <1>2, <1>5, <1>6, <1>8, <1>9

\* The walker puts the cell it holds in the queue.
LEMMA PlanCommits ==
    ASSUME IInv, NEW rem \in Seq(Entry), OnPlan(rem), Commit
    PROVE  OnPlan(rem)'
<1>1. /\ Len(emitted) \in Nat /\ ordered \in Seq(Cell) /\ Len(ordered) \in Nat /\ cur \in Cell
      /\ ordered' = Append(ordered, cur)
      /\ emitted' = emitted /\ world' = world /\ taken' = taken /\ Settling' = Settling
  BY DEF IInv, TypeOK, Commit, Holding, Settling, slotVars, consumerVars
<1>2. Sending /\ ~Sending' /\ Handing' = Handing
  BY DEF Commit, Handing, Sending, consumerVars
<1>3. /\ Len(ordered') = Len(ordered) + 1 /\ ordered'[Len(ordered) + 1] = cur
      /\ \A i \in 1 .. Len(ordered) : ordered'[i] = ordered[i]
  BY <1>1
<1>4. Ahead' = Ahead /\ Behind' = Behind /\ Behind = Ahead + (Len(ordered) + 1) /\ Ahead \in Nat
  <2>1. Ahead' = Ahead /\ Ahead \in Nat
    BY <1>1, <1>2 DEF Ahead
  <2>2. Behind = Ahead + Len(ordered) + 1 /\ Behind' = Ahead' + Len(ordered') + 0
    BY <1>2 DEF Behind
  <2> QED BY <1>1, <1>3, <2>1, <2>2
<1>5. \A i \in 1 .. Len(ordered') : Plan[world][Ahead + i] = Settling[ordered'[i]]
  <2> SUFFICES ASSUME NEW i \in 1 .. Len(ordered') PROVE Plan[world][Ahead + i] = Settling[ordered'[i]]
    OBVIOUS
  <2>1. i \in 1 .. Len(ordered) \/ i = Len(ordered) + 1
    BY <1>1, <1>3
  <2>2. Plan[world][Behind] = Settling[cur]
    BY <1>2 DEF OnPlan
  <2>3. \A k \in 1 .. Len(ordered) : Plan[world][Ahead + k] = Settling[ordered[k]]
    BY DEF OnPlan
  <2> QED BY <1>3, <1>4, <2>1, <2>2, <2>3
<1>6. /\ Len(Plan[world]) = Behind + Len(rem)
      /\ \A i \in 1 .. Len(emitted) : Plan[world][i] = emitted[i]
      /\ Handing => Plan[world][Len(emitted) + 1] = Settling[taken]
      /\ \A i \in 1 .. Len(rem) : Plan[world][Behind + i] = rem[i]
  BY DEF OnPlan
<1> QED BY <1>1, <1>2, <1>4, <1>5, <1>6 DEF OnPlan

-----------------------------------------------------------------------------
(* The steps of the walker within its calls.                               *)

\* The loop over the children, at a child.
LEMMA ChildMoves ==
    ASSUME IInv, AtChild
    PROVE  /\ stack \in Seq(Frame) /\ Len(stack) \in Nat \ {0} /\ Top \in Frame
           /\ Top = stack[Len(stack)] /\ Top.cell \in Cell /\ Top.cell # NoCell
           /\ Top.depth + 1 \in Nat /\ Dev[Top.path] \in Nat
           /\ NextChild \in Node
           /\ StackAfterChild \in Seq(Frame)
           /\ StackAfterChild = [stack EXCEPT ![Len(stack)] = [Top EXCEPT !.rest = Tail(Top.rest)]]
           /\ Len(StackAfterChild) = Len(stack)
           /\ \A k \in 1 .. Len(stack) : /\ StackAfterChild[k].cell = stack[k].cell
                                         /\ StackAfterChild[k].path = stack[k].path
<1>1. stack \in Seq(Frame) /\ Len(stack) \in Nat \ {0} /\ Top \in Frame /\ Top.cell \in Cell
      /\ Top = stack[Len(stack)] /\ Top.rest # <<>>
  BY TopFrame DEF IInv, Typed, TypeOK, AtChild, Active, Filled, Top
<1>2. Top.path \in Node /\ Top.depth \in Nat /\ Top.rest \in Seq(Node)
  BY <1>1 DEF Frame
<1>3. NextChild \in Node /\ Tail(Top.rest) \in Seq(Node)
  BY <1>1, <1>2 DEF NextChild
<1> DEFINE g == [Top EXCEPT !.rest = Tail(Top.rest)]
<1>4. g \in Frame /\ g.cell = Top.cell /\ g.path = Top.path
  BY <1>1, <1>3 DEF Frame
<1>5. StackAfterChild = [stack EXCEPT ![Len(stack)] = g]
  BY <1>1 DEF StackAfterChild
<1> HIDE DEF g
<1>6. /\ StackAfterChild \in Seq(Frame)
      /\ Len(StackAfterChild) = Len(stack)
      /\ \A k \in 1 .. Len(stack) : /\ StackAfterChild[k].cell = stack[k].cell
                                    /\ StackAfterChild[k].path = stack[k].path
  BY <1>1, <1>4, <1>5
<1>7. Top.depth + 1 \in Nat /\ Dev[Top.path] \in Nat /\ Top.cell # NoCell
  BY <1>1, <1>2, TreeAssumption, NoCellNotACell
<1> QED BY <1>1, <1>3, <1>5, <1>6, <1>7 DEF g

LEMMA CallsStep == ASSUME IInv, Calls, [Next]_vars PROVE Calls'
<1> USE DEF Calls, Active, Stopping
<1>a. stack \in Seq(Frame) /\ (wpc \in Active => Len(stack) \in Nat \ {0} /\ Top \in Frame)
  BY TopFrame DEF IInv, Typed, TypeOK
<1>1. CASE Visit
  BY <1>1 DEF Visit, Top
<1>2. CASE Acquire \/ Commit \/ EmitError \/ SkipExcluded \/ \E w \in Worker : Submit(w)
  BY <1>2 DEF Acquire, Commit, EmitError, SkipExcluded, AtChild, Submit
<1>3. CASE VisitChild
  <2>1. wpc' = "visit" /\ world' = world /\ walkErr' = walkErr /\ wpc = "children"
    BY <1>3 DEF VisitChild, AtChild
  <2>2. StackAfterChild \in Seq(Frame)
    BY <1>3, ChildMoves DEF VisitChild
  <2>3. Top' = ChildCall(NextChild)
    <3>1. stack' = Append(StackAfterChild, ChildCall(NextChild))
      BY <1>3 DEF VisitChild
    <3>2. \A f : LET s == Append(StackAfterChild, f) IN s[Len(s)] = f
      BY <2>2
    <3> QED BY <3>1, <3>2 DEF Top
  <2>4. Top'.cell = NoCell
    BY <2>3 DEF ChildCall, Call
  <2> QED BY <2>1, <2>4
<1>4. CASE Leave
  <2>1. wpc = "children" /\ stack' = SubSeq(stack, 1, Len(stack) - 1)
    BY <1>4 DEF Leave
  <2>2. CASE Len(stack) = 1
    <3>1. stack' = <<>>
      BY <1>a, <2>1, <2>2
    <3> QED BY <1>4, <2>2, <3>1 DEF Leave
  <2>3. CASE Len(stack) # 1
    BY <1>4, <2>3 DEF Leave
  <2> QED BY <2>2, <2>3
<1>5. CASE Cancelled \/ SubmitCancelled
  BY <1>5 DEF Cancelled, SubmitCancelled, Unwind
<1>6. CASE StopHasher \/ CloseRing
  BY <1>6 DEF StopHasher, CloseRing
<1>7. CASE \/ \E w \in Worker : Hasher(w)
           \/ Consumer \/ Interrupt \/ Returned \/ UNCHANGED vars
  BY <1>7 DEF Hasher, Hash, Exit, Consumer, Receive, AwaitHash, Emit, Release, Return, Interrupt,
              Returned, vars, walkerVars, Top
<1> QED BY <1>1, <1>2, <1>3, <1>4, <1>5, <1>6, <1>7 DEF Next, Walker

-----------------------------------------------------------------------------
(* The paths at and below another.                                         *)

LEMMA SubtreeOwn == \A n \in Node : n \in Subtree(n)
  BY DEF Subtree

LEMMA SubtreeLeast ==
    ASSUME NEW n \in Node, NEW S \in SUBSET Node, n \in S,
           \A p \in S, k \in Node : Contains(Kids[p], k) => k \in S
    PROVE  Subtree(n) \subseteq S
  BY DEF Subtree

LEMMA SubtreeKid ==
    ASSUME NEW n \in Node, NEW p \in Subtree(n), NEW k \in Node, Contains(Kids[p], k)
    PROVE  k \in Subtree(n)
<1> SUFFICES ASSUME NEW S \in SUBSET Node, n \in S,
                    \A q \in S, j \in Node : Contains(Kids[q], j) => j \in S
             PROVE  k \in S
  BY DEF Subtree
<1>1. p \in S
  BY SubtreeLeast
<1> QED BY <1>1

\* What is below a path in a directory is below the directory, which is not.
LEMMA SubtreeOfKid ==
    ASSUME NEW n \in Node, NEW k \in Node, Contains(Kids[n], k)
    PROVE  Subtree(k) \subseteq Subtree(n) /\ n \notin Subtree(k) /\ k \in Subtree(n)
<1>1. k \in Subtree(n) /\ Subtree(n) \in SUBSET Node
  BY SubtreeOwn, SubtreeKid DEF Subtree
<1>2. \A p \in Subtree(n), j \in Node : Contains(Kids[p], j) => j \in Subtree(n)
  BY SubtreeKid
<1>3. Subtree(k) \subseteq Subtree(n)
  BY <1>1, <1>2, SubtreeLeast
<1> QED BY <1>1, <1>3, ForestAssumption

\* A path is below another only together with its directory.
LEMMA SubtreeUp ==
    ASSUME NEW k \in Node, NEW y \in Subtree(k), NEW p \in Node, Contains(Kids[p], y)
    PROVE  y = k \/ p \in Subtree(k)
<1> DEFINE S == {q \in Subtree(k) : q = k \/ \E d \in Subtree(k) : Contains(Kids[d], q)}
<1>1. Subtree(k) \subseteq Node
  BY DEF Subtree
<1>2. S \in SUBSET Node /\ k \in S
  BY <1>1, SubtreeOwn
<1>3. \A q \in S, j \in Node : Contains(Kids[q], j) => j \in S
  BY SubtreeKid
<1> HIDE DEF S
<1>4. Subtree(k) \subseteq S
  BY <1>2, <1>3, SubtreeLeast
<1>5. y = k \/ \E d \in Subtree(k) : Contains(Kids[d], y)
  BY <1>4 DEF S
<1> QED BY <1>1, <1>5, ForestAssumption

LEMMA ParentOfKid ==
    ASSUME NEW p \in Node, NEW k \in Node, Contains(Kids[p], k)
    PROVE  Parent(k) = p
<1>1. \A q \in Node : Contains(Kids[q], k) => q = p
  BY ForestAssumption
<1> QED BY <1>1 DEF Parent

-----------------------------------------------------------------------------
(* The mount-point rule of a walk that stops at shares.                    *)
(*                                                                         *)
(* The device of a directory is read from a cell that may be another       *)
(* entry's by now.  That entry was reached before, so it is not below a    *)
(* path that still waits for its visit; with no share mounted twice, its   *)
(* device is then not the one of the next share.                           *)

\* A path the walk may emit.
UnderLocal(n) == n \in Node /\ (n = Root \/ Dev[Parent(n)] \in LocalDev)

\* The children that the calls of st have still to visit.
AllUnder(st) ==
    \A a \in 1 .. Len(st) : \A i \in 1 .. Len(st[a].rest) : UnderLocal(st[a].rest[i])

\* They are in directories of local filesystems.
Loops(st) == \A a \in 1 .. Len(st) : st[a].rest # <<>> => Dev[st[a].path] \in LocalDev

\* None is below another.
Apart(st) ==
    \A a, b \in 1 .. Len(st) :
        \A i \in 1 .. Len(st[a].rest), j \in 1 .. Len(st[b].rest) :
            (a = b /\ i = j) \/ st[a].rest[i] \notin Subtree(st[b].rest[j])

\* q is not below one of them, and none of them is below n.
Clear(st, q) == \A a \in 1 .. Len(st) : \A i \in 1 .. Len(st[a].rest) : q \notin Subtree(st[a].rest[i])
Beside(st, n) == \A a \in 1 .. Len(st) : \A i \in 1 .. Len(st[a].rest) : st[a].rest[i] \notin Subtree(n)

\* What the cell c holds: nothing before its first use, then a path that was reached,
\* with its device unless its stat failed.
CellReached(c) ==
    /\ entry[c].type = "unknown" => \E i \in 1 .. Len(free) : free[i] = c
    /\ entry[c].type # "unknown" => UnderLocal(entry[c].path)
    /\ entry[c].dev # 0 =>
          /\ entry[c].type # "unknown"
          /\ entry[c].dev = Dev[entry[c].path]
          /\ Clear(stack, entry[c].path)

\* The call on top of st is about to stat a path for the first time.  A path on a share
\* is on another device than the one the call was given for its directory.
Arrives(st) ==
    LET f == st[Len(st)]
    IN  /\ UnderLocal(f.path) /\ f.rest = <<>>
        /\ Dev[f.path] \in LocalDev \/ (f.depth > 0 /\ Dev[f.path] # f.parentDev)
        /\ Clear(st, f.path) /\ Beside(st, f.path)
        /\ \A c \in Cell : entry[c].dev # 0 => entry[c].path \notin Subtree(f.path)

ShareInv ==
    /\ world \in World
    /\ AllUnder(stack) /\ Loops(stack) /\ Apart(stack)
    /\ \A c \in Cell : CellReached(c)
    /\ wpc \in {"visit", "acquire"} => Arrives(stack)
    /\ \A i \in 1 .. Len(emitted) : UnderLocal(emitted[i].path)

\* su waits for no more than st does.
Narrows(su, st) ==
    \A k \in 1 .. Len(su) :
        \/ su[k].rest = <<>>
        \/ /\ k \in 1 .. Len(st) /\ su[k].path = st[k].path
           /\ \/ su[k].rest = st[k].rest
              \/ st[k].rest # <<>> /\ su[k].rest = Tail(st[k].rest)

LEMMA Narrowed ==
    ASSUME NEW st \in Seq(Frame), NEW su \in Seq(Frame), Narrows(su, st)
    PROVE  /\ AllUnder(st) => AllUnder(su)
           /\ Loops(st) => Loops(su)
           /\ Apart(st) => Apart(su)
           /\ \A q : Clear(st, q) => Clear(su, q)
           /\ \A n : Beside(st, n) => Beside(su, n)
<1> DEFINE shift(k) == IF su[k].rest = st[k].rest THEN 0 ELSE 1
<1>1. ASSUME NEW k \in 1 .. Len(su), NEW i \in 1 .. Len(su[k].rest)
      PROVE  /\ k \in 1 .. Len(st) /\ i + shift(k) \in 1 .. Len(st[k].rest)
             /\ su[k].rest[i] = st[k].rest[i + shift(k)]
  <2>1. su[k].rest \in Seq(Node) /\ su[k].rest # <<>>
    <3>1. su[k] \in Frame
      OBVIOUS
    <3>2. su[k].rest \in Seq(Node)
      BY <3>1 DEF Frame
    <3> QED BY <3>2
  <2>2. /\ k \in 1 .. Len(st)
        /\ \/ su[k].rest = st[k].rest
           \/ st[k].rest # <<>> /\ su[k].rest = Tail(st[k].rest)
    BY <2>1 DEF Narrows
  <2>3. st[k].rest \in Seq(Node)
    <3>1. st[k] \in Frame
      BY <2>2
    <3> QED BY <3>1 DEF Frame
  <2>4. CASE su[k].rest = st[k].rest
    <3>1. shift(k) = 0 /\ i \in Nat
      BY <2>4
    <3> QED BY <2>2, <2>4, <3>1
  <2>5. CASE su[k].rest # st[k].rest
    <3> DEFINE r == st[k].rest
               t == su[k].rest
    <3>1. r \in Seq(Node) /\ r # <<>> /\ t = Tail(r) /\ shift(k) = 1
      BY <2>2, <2>3, <2>5
    <3> HIDE DEF r, t
    <3>2. i \in 1 .. Len(t)
      BY DEF t
    <3>3. i + 1 \in 1 .. Len(r) /\ t[i] = r[i + 1]
      BY <3>1, <3>2
    <3> QED BY <2>2, <3>1, <3>3 DEF r, t
  <2> QED BY <2>4, <2>5
<1>2. \A k : shift(k) \in Nat
  OBVIOUS
<1> HIDE DEF shift
<1>3. /\ AllUnder(st) => AllUnder(su)
      /\ Loops(st) => Loops(su)
  <2>1. ASSUME NEW k \in 1 .. Len(su), su[k].rest # <<>>
        PROVE  k \in 1 .. Len(st) /\ su[k].path = st[k].path /\ st[k].rest # <<>>
    BY <2>1 DEF Narrows
  <2> QED BY <1>1, <2>1 DEF AllUnder, Loops
<1>4. ASSUME Apart(st) PROVE Apart(su)
  <2> SUFFICES ASSUME NEW a \in 1 .. Len(su), NEW b \in 1 .. Len(su),
                      NEW i \in 1 .. Len(su[a].rest), NEW j \in 1 .. Len(su[b].rest),
                      ~(a = b /\ i = j)
               PROVE  su[a].rest[i] \notin Subtree(su[b].rest[j])
    BY DEF Apart
  <2>1. ~(a = b /\ i + shift(a) = j + shift(b))
    <3>1. i \in Nat /\ j \in Nat /\ shift(a) \in Nat
      BY <1>2
    <3>2. CASE a = b
      <4>1. i # j
        BY <3>2
      <4>2. ASSUME NEW m \in Nat PROVE i + m # j + m
        BY <3>1, <4>1
      <4> QED BY <3>1, <3>2, <4>2
    <3> QED BY <3>2
  <2> DEFINE v == i + shift(a)
             z == j + shift(b)
  <2>2. /\ a \in 1 .. Len(st) /\ v \in 1 .. Len(st[a].rest) /\ su[a].rest[i] = st[a].rest[v]
        /\ b \in 1 .. Len(st) /\ z \in 1 .. Len(st[b].rest) /\ su[b].rest[j] = st[b].rest[z]
        /\ ~(a = b /\ v = z)
    BY <1>1, <2>1
  <2> HIDE DEF v, z
  <2>3. st[a].rest[v] \notin Subtree(st[b].rest[z])
    BY <1>4, <2>2 DEF Apart
  <2> QED BY <2>2, <2>3
<1>5. \A q : Clear(st, q) => Clear(su, q)
  BY <1>1 DEF Clear
<1>6. \A n : Beside(st, n) => Beside(su, n)
  BY <1>1 DEF Beside
<1> QED BY <1>3, <1>4, <1>5, <1>6

LEMMA ShareInvInit == ASSUME Dev[Root] \in LocalDev PROVE Init => ShareInv
<1> SUFFICES ASSUME Init PROVE ShareInv
  OBVIOUS
<1>1. stack = <<Call(Root, 0, Dev[Root])>> /\ Len(stack) = 1 /\ stack[1] = Call(Root, 0, Dev[Root])
  BY DEF Init
<1>2. stack[1].rest = <<>> /\ stack[1].path = Root
  BY <1>1 DEF Call
<1>3. AllUnder(stack) /\ Loops(stack) /\ Apart(stack) /\ \A q : Clear(stack, q) /\ Beside(stack, q)
  BY <1>1, <1>2 DEF AllUnder, Loops, Apart, Clear, Beside
<1>4. \A c \in Cell : entry[c].dev = 0 /\ entry[c].type = "unknown" /\ free[c] = c /\ c \in 1 .. Len(free)
  <2>1. Len(free) = RingSize
    BY RingSizeType DEF Init
  <2> QED BY <2>1 DEF Init, ZeroEntry, Cell
<1>5. Arrives(stack)
  <2> DEFINE f == stack[Len(stack)]
  <2>1. f.path = Root /\ f.rest = <<>>
    BY <1>1, <1>2
  <2>2. UnderLocal(Root) /\ Dev[Root] \in LocalDev
    BY TreeAssumption DEF UnderLocal
  <2>3. \A c \in Cell : entry[c].dev # 0 => entry[c].path \notin Subtree(f.path)
    BY <1>4
  <2>4. Clear(stack, f.path) /\ Beside(stack, f.path)
    BY <1>3
  <2>5. UnderLocal(f.path) /\ Dev[f.path] \in LocalDev
    BY <2>1, <2>2
  <2> QED BY <2>1, <2>3, <2>4, <2>5 DEF Arrives
<1>6. \A c \in Cell : CellReached(c)
  BY <1>4 DEF CellReached
<1> QED BY <1>3, <1>5, <1>6 DEF ShareInv, Init

\* The steps that leave the calls, and what the cells hold but for a hash, as they are.
LEMMA ShareQuiet ==
    ASSUME IInv, ShareInv, world' = world, stack' = stack,
           \A c \in Cell : /\ entry'[c].path = entry[c].path
                           /\ entry'[c].type = entry[c].type
                           /\ entry'[c].dev = entry[c].dev,
           free' = free \/ \E c \in Cell : free' = Append(free, c),
           wpc' \in {"visit", "acquire"} => wpc \in {"visit", "acquire"},
           emitted' = emitted \/ (emitted' = Append(emitted, entry[taken]) /\ taken \in Cell)
    PROVE  ShareInv'
<1>1. free \in Seq(Cell) /\ emitted \in Seq(Entry) /\ entry \in [Cell -> Entry]
  BY DEF IInv, TypeOK
<1>2. \A i \in 1 .. Len(free) : i \in 1 .. Len(free') /\ free'[i] = free[i]
  BY <1>1
<1>3. \A c \in Cell : CellReached(c)'
  BY <1>2 DEF ShareInv, CellReached, Clear
<1>4. wpc' \in {"visit", "acquire"} => Arrives(stack)'
  BY DEF ShareInv, Arrives, Clear, Beside
<1>5. \A i \in 1 .. Len(emitted') : UnderLocal(emitted'[i].path)
  <2>1. CASE emitted' = emitted
    BY <2>1 DEF ShareInv
  <2>2. CASE emitted' = Append(emitted, entry[taken]) /\ taken \in Cell
    <3>1. entry[taken].type # "unknown"
      BY <2>2 DEF ShareInv, CellReached, IInv, OnePlace
    <3>2. UnderLocal(entry[taken].path) /\ entry[taken] \in Entry
      BY <1>1, <2>2, <3>1 DEF ShareInv, CellReached
    <3>3. \A i \in 1 .. Len(emitted') : emitted'[i] = entry[taken] \/ (i \in 1 .. Len(emitted) /\ emitted'[i] = emitted[i])
      BY <1>1, <2>2, <3>2
    <3> QED BY <3>2, <3>3 DEF ShareInv
  <2> QED BY <2>1, <2>2
<1>6. AllUnder(stack)' /\ Loops(stack)' /\ Apart(stack)'
  BY DEF ShareInv, AllUnder, Loops, Apart
<1>7. (\A i \in 1 .. Len(emitted) : UnderLocal(emitted[i].path))'
  BY <1>5 DEF UnderLocal
<1> QED BY <1>3, <1>4, <1>6, <1>7 DEF ShareInv

\* The steps that end calls or drop a child, with what they may put into a free cell.
LEMMA ShareNarrows ==
    ASSUME IInv, ShareInv, world' = world, emitted' = emitted,
           stack' \in Seq(Frame), Narrows(stack', stack), wpc' \notin {"visit", "acquire"},
           \/ UNCHANGED <<free, entry>>
           \/ /\ TakeFree
              /\ \A c \in Cell : c # Head(free) => entry'[c] = entry[c]
              /\ entry'[Head(free)].type # "unknown"
              /\ UnderLocal(entry'[Head(free)].path)
              /\ entry'[Head(free)].dev # 0 =>
                    /\ entry'[Head(free)].dev = Dev[entry'[Head(free)].path]
                    /\ Clear(stack, entry'[Head(free)].path)
    PROVE  ShareInv'
<1>1. stack \in Seq(Frame) /\ free \in Seq(Cell)
  BY DEF IInv, TypeOK
<1> DEFINE su == stack'
<1>2. /\ AllUnder(su) /\ Loops(su) /\ Apart(su) /\ \A q : Clear(stack, q) => Clear(su, q)
  <2>1. su \in Seq(Frame) /\ Narrows(su, stack) /\ AllUnder(stack) /\ Loops(stack) /\ Apart(stack)
    BY DEF ShareInv
  <2> HIDE DEF su
  <2> QED BY <1>1, <2>1, Narrowed
<1>3. AllUnder(stack)' /\ Loops(stack)' /\ Apart(stack)'
  BY <1>2 DEF AllUnder, Loops, Apart, UnderLocal
<1>4. \A c \in Cell : CellReached(c)'
  <2> SUFFICES ASSUME NEW c \in Cell PROVE CellReached(c)'
    OBVIOUS
  <2>1. \A q : Clear(stack, q) => Clear(stack, q)'
    BY <1>2 DEF Clear
  <2>2. CellReached(c)
    BY DEF ShareInv
  <2>3. CASE UNCHANGED <<free, entry>>
    BY <2>1, <2>2, <2>3 DEF CellReached
  <2>4. CASE TakeFree /\ c = Head(free) /\ ~UNCHANGED <<free, entry>>
    BY <2>1, <2>4 DEF CellReached
  <2>5. CASE TakeFree /\ c # Head(free) /\ ~UNCHANGED <<free, entry>>
    <3>1. entry'[c] = entry[c]
      BY <2>5
    <3>2. ASSUME NEW i \in 1 .. Len(free), free[i] = c
          PROVE  i - 1 \in 1 .. Len(free') /\ free'[i - 1] = c
      <4>1. free' = Tail(free) /\ free # <<>> /\ i # 1
        BY <1>1, <2>5, <3>2 DEF TakeFree
      <4> QED BY <1>1, <3>2, <4>1
    <3> QED BY <2>1, <2>2, <3>1, <3>2 DEF CellReached
  <2> QED BY <2>3, <2>4, <2>5
<1> QED BY <1>3, <1>4 DEF ShareInv, UnderLocal

\* The loop over the children drops the one it is at, which is not below another.
LEMMA ChildLeaves ==
    ASSUME IInv, ShareInv, AtChild
    PROVE  /\ Narrows(StackAfterChild, stack) /\ StackAfterChild \in Seq(Frame)
           /\ UnderLocal(NextChild)
           /\ Clear(StackAfterChild, NextChild) /\ Beside(StackAfterChild, NextChild)
           /\ \A q : Clear(stack, q) => q \notin Subtree(NextChild)
<1> DEFINE L == Len(stack)
           r == stack[L].rest
           su == StackAfterChild
<1>1. /\ stack \in Seq(Frame) /\ L \in Nat \ {0} /\ Top \in Frame /\ Top = stack[L]
      /\ su \in Seq(Frame) /\ Len(su) = L /\ su = [stack EXCEPT ![L] = [Top EXCEPT !.rest = Tail(Top.rest)]]
  BY ChildMoves
<1>2. r \in Seq(Node) /\ r # <<>> /\ NextChild = r[1] /\ Top.rest = r /\ 1 \in 1 .. Len(r)
  BY <1>1 DEF AtChild, NextChild, Frame
<1>3. /\ su[L].rest = Tail(r) /\ su[L].path = stack[L].path
      /\ \A k \in 1 .. L : k # L => su[k] = stack[k]
  BY <1>1, <1>2 DEF Frame
<1> HIDE DEF su
<1>4. Narrows(su, stack)
  BY <1>1, <1>2, <1>3 DEF Narrows
<1>5. UnderLocal(NextChild) /\ \A q : Clear(stack, q) => q \notin Subtree(NextChild)
  <2>1. L \in 1 .. Len(stack)
    BY <1>1
  <2> QED BY <1>2, <2>1 DEF ShareInv, AllUnder, Clear
<1>6. ASSUME NEW a \in 1 .. Len(su), NEW i \in 1 .. Len(su[a].rest)
      PROVE  NextChild \notin Subtree(su[a].rest[i]) /\ su[a].rest[i] \notin Subtree(NextChild)
  <2>1. PICK j \in 1 .. Len(stack[a].rest) : su[a].rest[i] = stack[a].rest[j] /\ ~(a = L /\ j = 1)
    <3>1. CASE a # L
      BY <1>1, <1>3, <3>1
    <3>2. CASE a = L
      <4>1. i \in 1 .. Len(Tail(r))
        BY <1>3, <3>2
      <4> HIDE DEF r
      <4>2. i + 1 \in 1 .. Len(r) /\ Tail(r)[i] = r[i + 1] /\ i + 1 # 1
        BY <1>2, <4>1
      <4> QED BY <1>3, <3>2, <4>2 DEF r
    <3> QED BY <3>1, <3>2
  <2>2. a \in 1 .. Len(stack) /\ L \in 1 .. Len(stack) /\ 1 \in 1 .. Len(stack[L].rest)
    BY <1>1, <1>2
  <2>3. Apart(stack)
    BY DEF ShareInv
  <2> QED BY <1>2, <2>1, <2>2, <2>3 DEF Apart
<1> QED BY <1>1, <1>4, <1>5, <1>6 DEF Clear, Beside, su

\* A share is told from its directory by the device of any path that was reached.
LEMMA DeviceTells ==
    ASSUME SharesMountedOnce, Dev[Root] \in LocalDev, NEW n, NEW q, UnderLocal(n), UnderLocal(q),
           Dev[n] = Dev[q], Dev[n] \notin LocalDev
    PROVE  n = q
<1>1. MountPoint(n) /\ MountPoint(q) /\ n \in Node /\ q \in Node
  BY DEF UnderLocal, MountPoint
<1> QED BY <1>1 DEF SharesMountedOnce

\* The recursive call, with the device its directory's cell holds by now.
LEMMA ShareVisits ==
    ASSUME IInv, ShareInv, SharesMountedOnce, Dev[Root] \in LocalDev, VisitChild
    PROVE  ShareInv'
<1> DEFINE f == ChildCall(NextChild)
           m == Len(StackAfterChild)
           su == Append(StackAfterChild, f)
<1>1. /\ AtChild /\ stack' = su /\ wpc' = "visit"
      /\ UNCHANGED <<world, free, entry, emitted>>
  BY DEF VisitChild, ringVars, slotVars, consumerVars
<1>2. /\ Top.cell \in Cell /\ entry[Top.cell].dev \in Nat /\ Top.depth + 1 \in Nat /\ Top.depth + 1 > 0
      /\ NextChild \in Node
  <2>1. Top.cell \in Cell /\ Top \in Frame /\ NextChild \in Node
    BY <1>1, ChildMoves
  <2>2. entry[Top.cell] \in Entry /\ Top.depth \in Nat
    BY <2>1 DEF IInv, TypeOK, Frame
  <2> QED BY <2>1, <2>2 DEF Entry
<1>3. f \in Frame /\ f.path = NextChild /\ f.rest = <<>> /\ f.depth = Top.depth + 1
      /\ f.parentDev = entry[Top.cell].dev
  BY <1>2 DEF ChildCall, Call, Frame
<1>4. /\ Narrows(StackAfterChild, stack) /\ StackAfterChild \in Seq(Frame) /\ stack \in Seq(Frame)
      /\ UnderLocal(NextChild)
      /\ Clear(StackAfterChild, NextChild) /\ Beside(StackAfterChild, NextChild)
      /\ \A q : Clear(stack, q) => q \notin Subtree(NextChild)
  BY <1>1, ChildLeaves DEF IInv, TypeOK
<1>5. /\ AllUnder(StackAfterChild) /\ Loops(StackAfterChild) /\ Apart(StackAfterChild)
      /\ \A q : Clear(stack, q) => Clear(StackAfterChild, q)
  <2>1. AllUnder(stack) /\ Loops(stack) /\ Apart(stack)
    BY DEF ShareInv
  <2> QED BY <1>4, <2>1, Narrowed
<1> HIDE DEF f
<1>6. /\ su \in Seq(Frame) /\ m \in Nat /\ Len(su) = m + 1 /\ su[m + 1] = f
      /\ \A k \in 1 .. m + 1 : k # m + 1 => k \in 1 .. m /\ su[k] = StackAfterChild[k]
  BY <1>3, <1>4
<1> HIDE DEF su, m
<1>7. \A a \in 1 .. Len(su) : \A i \in 1 .. Len(su[a].rest) :
          a \in 1 .. Len(StackAfterChild) /\ su[a] = StackAfterChild[a]
  BY <1>3, <1>6 DEF m
<1>8. AllUnder(su) /\ Loops(su) /\ Apart(su) /\ \A q : Clear(StackAfterChild, q) => Clear(su, q)
  <2>1. AllUnder(su) /\ Apart(su) /\ \A q : Clear(StackAfterChild, q) => Clear(su, q)
    BY <1>5, <1>7 DEF AllUnder, Apart, Clear
  <2>2. Loops(su)
    BY <1>3, <1>5, <1>6 DEF Loops, m
  <2> QED BY <2>1, <2>2
<1>9. Clear(su, NextChild) /\ Beside(su, NextChild)
  BY <1>4, <1>7 DEF Clear, Beside
<1>10. ASSUME NEW c \in Cell, entry[c].dev # 0
       PROVE  /\ entry[c].path \notin Subtree(NextChild) /\ UnderLocal(entry[c].path)
              /\ entry[c].dev = Dev[entry[c].path]
  BY <1>4, <1>10 DEF ShareInv, CellReached
<1>11. Dev[NextChild] \in LocalDev \/ Dev[NextChild] # entry[Top.cell].dev
  <2> SUFFICES ASSUME Dev[NextChild] \notin LocalDev, Dev[NextChild] = entry[Top.cell].dev
               PROVE  FALSE
    OBVIOUS
  <2>1. entry[Top.cell].dev # 0
    BY <1>2 DEF SharesMountedOnce
  <2>2. NextChild = entry[Top.cell].path
    BY <1>2, <1>4, <1>10, <2>1, DeviceTells
  <2> QED BY <1>2, <1>10, <2>1, <2>2, SubtreeOwn
<1>12. Arrives(su)
  <2>1. su[Len(su)] = f
    BY <1>6
  <2>2. UnderLocal(f.path) /\ f.rest = <<>>
    BY <1>3, <1>4
  <2>3. Dev[f.path] \in LocalDev \/ (f.depth > 0 /\ Dev[f.path] # f.parentDev)
    BY <1>2, <1>3, <1>11
  <2>4. \A c \in Cell : entry[c].dev # 0 => entry[c].path \notin Subtree(f.path)
    BY <1>3, <1>10
  <2> QED BY <1>3, <1>9, <2>1, <2>2, <2>3, <2>4 DEF Arrives
<1>13. \A c \in Cell : CellReached(c)'
  <2>1. \A q : Clear(stack, q) => Clear(stack, q)'
    BY <1>1, <1>5, <1>8 DEF Clear
  <2> QED BY <1>1, <2>1 DEF ShareInv, CellReached
<1>14. /\ AllUnder(stack)' /\ Loops(stack)' /\ Apart(stack)'
       /\ Arrives(stack)'
  BY <1>1, <1>8, <1>12 DEF AllUnder, Loops, Apart, Arrives, Clear, Beside, UnderLocal
<1> QED BY <1>1, <1>13, <1>14 DEF ShareInv

\* A child whose stat fails.
LEMMA ShareLoses ==
    ASSUME IInv, ShareInv, EmitError
    PROVE  ShareInv'
<1>1. /\ AtChild /\ TakeFree /\ stack' = StackAfterChild /\ world' = world /\ emitted' = emitted
      /\ entry' = [entry EXCEPT ![Head(free)] = LostEntry(NextChild)] /\ wpc' = "commit"
  BY DEF EmitError, consumerVars
<1>2. Narrows(stack', stack) /\ stack' \in Seq(Frame) /\ UnderLocal(NextChild)
  BY <1>1, ChildLeaves
<1>3. Head(free) \in Cell /\ entry \in [Cell -> Entry]
  BY <1>1 DEF TakeFree, IInv, TypeOK
<1>4. /\ \A c \in Cell : c # Head(free) => entry'[c] = entry[c]
      /\ entry'[Head(free)] = LostEntry(NextChild)
  BY <1>1, <1>3
<1>5. /\ LostEntry(NextChild).type # "unknown" /\ LostEntry(NextChild).path = NextChild
      /\ LostEntry(NextChild).dev = 0
  BY DEF LostEntry, ZeroEntry
<1> QED BY <1>1, <1>2, <1>4, <1>5, ShareNarrows

\* What the listing of a local directory adds to the children that wait for their visit.
LEMMA ShareLists ==
    ASSUME NEW w \in World, NEW n \in Node, Dev[n] \in LocalDev,
           NEW st \in Seq(Frame), NEW su \in Seq(Frame),
           AllUnder(st), Apart(st), Clear(st, n), Beside(st, n),
           Len(st) \in Nat \ {0}, Len(su) = Len(st), st[Len(st)].rest = <<>>,
           su[Len(st)].rest = w.listing[n],
           \A k \in 1 .. Len(st) : k # Len(st) => su[k] = st[k]
    PROVE  /\ AllUnder(su) /\ Apart(su) /\ Clear(su, n)
           /\ \A q : Clear(st, q) /\ q \notin Subtree(n) => Clear(su, q)
<1> DEFINE L == Len(st)
           l == w.listing[n]
<1>1. l \in Seq(Node)
  BY WorldAssumption DEF Answers
<1>2. ASSUME NEW i \in 1 .. Len(l)
      PROVE  /\ l[i] \in Node /\ Contains(Kids[n], l[i]) /\ Parent(l[i]) = n
             /\ Subtree(l[i]) \subseteq Subtree(n) /\ n \notin Subtree(l[i]) /\ l[i] \in Subtree(n)
  <2>1. l[i] \in Node /\ Contains(Kids[n], l[i])
    BY <1>1, ListingAssumption
  <2> HIDE DEF l
  <2> QED BY <2>1, ParentOfKid, SubtreeOfKid
<1>3. \A i, j \in 1 .. Len(l) : l[i] = l[j] => i = j
  BY ListingAssumption
<1> HIDE DEF l
<1>4. ASSUME NEW a \in 1 .. L, NEW i \in 1 .. Len(st[a].rest)
      PROVE  a # L /\ su[a].rest = st[a].rest
  <2>1. a # L
    BY <1>4
  <2> QED BY <2>1
<1>5. ASSUME NEW a \in 1 .. L, NEW i \in 1 .. Len(su[a].rest)
      PROVE  \/ a = L /\ su[a].rest[i] = l[i] /\ i \in 1 .. Len(l)
             \/ a # L /\ su[a].rest = st[a].rest /\ i \in 1 .. Len(st[a].rest)
  BY DEF l
<1>6. AllUnder(su)
  <2> SUFFICES ASSUME NEW a \in 1 .. Len(su), NEW i \in 1 .. Len(su[a].rest)
               PROVE  UnderLocal(su[a].rest[i])
    BY DEF AllUnder
  <2>1. CASE a = L /\ su[a].rest[i] = l[i] /\ i \in 1 .. Len(l)
    BY <1>2, <2>1 DEF UnderLocal
  <2>2. CASE a # L /\ su[a].rest = st[a].rest /\ i \in 1 .. Len(st[a].rest)
    BY <2>2 DEF AllUnder
  <2> QED BY <1>5, <2>1, <2>2
<1>7. Clear(su, n)
  <2> SUFFICES ASSUME NEW a \in 1 .. Len(su), NEW i \in 1 .. Len(su[a].rest)
               PROVE  n \notin Subtree(su[a].rest[i])
    BY DEF Clear
  <2>1. CASE a = L /\ su[a].rest[i] = l[i] /\ i \in 1 .. Len(l)
    BY <1>2, <2>1
  <2>2. CASE a # L /\ su[a].rest = st[a].rest /\ i \in 1 .. Len(st[a].rest)
    BY <2>2 DEF Clear
  <2> QED BY <1>5, <2>1, <2>2
<1>8. ASSUME NEW q, Clear(st, q), q \notin Subtree(n) PROVE Clear(su, q)
  <2> SUFFICES ASSUME NEW a \in 1 .. Len(su), NEW i \in 1 .. Len(su[a].rest)
               PROVE  q \notin Subtree(su[a].rest[i])
    BY DEF Clear
  <2>1. CASE a = L /\ su[a].rest[i] = l[i] /\ i \in 1 .. Len(l)
    BY <1>2, <1>8, <2>1
  <2>2. CASE a # L /\ su[a].rest = st[a].rest /\ i \in 1 .. Len(st[a].rest)
    BY <1>8, <2>2 DEF Clear
  <2> QED BY <1>5, <2>1, <2>2
<1>9. Apart(su)
  <2> SUFFICES ASSUME NEW a \in 1 .. Len(su), NEW b \in 1 .. Len(su),
                      NEW i \in 1 .. Len(su[a].rest), NEW j \in 1 .. Len(su[b].rest),
                      ~(a = b /\ i = j)
               PROVE  su[a].rest[i] \notin Subtree(su[b].rest[j])
    BY DEF Apart
  <2> DEFINE x == su[a].rest[i]
             y == su[b].rest[j]
  <2>1. \/ a = L /\ x = l[i] /\ i \in 1 .. Len(l)
        \/ a # L /\ x = st[a].rest[i] /\ i \in 1 .. Len(st[a].rest)
    BY <1>5
  <2>2. \/ b = L /\ y = l[j] /\ j \in 1 .. Len(l)
        \/ b # L /\ y = st[b].rest[j] /\ j \in 1 .. Len(st[b].rest)
    BY <1>5
  <2> HIDE DEF x, y
  <2>3. a # L => x \in Node /\ x \notin Subtree(n) /\ n \notin Subtree(x)
    BY <2>1 DEF AllUnder, UnderLocal, Clear, Beside
  <2>4. b # L => y \in Node /\ y \notin Subtree(n) /\ n \notin Subtree(y)
    BY <2>2 DEF AllUnder, UnderLocal, Clear, Beside
  <2>5. CASE a = L /\ b = L
    <3>1. i # j /\ x # y
      BY <1>3, <2>1, <2>2, <2>5
    <3>2. x \in Node /\ Contains(Kids[n], x) /\ y \in Node /\ n \notin Subtree(y)
      BY <1>2, <2>1, <2>2, <2>5
    <3>3. x \notin Subtree(y)
      BY <3>1, <3>2, SubtreeUp
    <3> QED BY <3>3 DEF x, y
  <2>6. CASE a # L /\ b = L
    <3>1. Subtree(y) \subseteq Subtree(n)
      BY <1>2, <2>2, <2>6
    <3> QED BY <2>3, <2>6, <3>1 DEF x, y
  <2>7. CASE a = L /\ b # L
    <3>1. x \in Node /\ Contains(Kids[n], x) /\ x \in Subtree(n)
      BY <1>2, <2>1, <2>7
    <3>2. x # y
      BY <2>4, <2>7, <3>1
    <3>3. x \notin Subtree(y)
      BY <2>4, <2>7, <3>1, <3>2, SubtreeUp
    <3> QED BY <3>3 DEF x, y
  <2>8. CASE a # L /\ b # L
    <3>1. x \notin Subtree(y)
      BY <2>1, <2>2, <2>8 DEF Apart
    <3> QED BY <3>1 DEF x, y
  <2> QED BY <2>5, <2>6, <2>7, <2>8
<1> QED BY <1>6, <1>7, <1>8, <1>9

\* visit enters a directory of a local filesystem only.
LEMMA EntersLocal ==
    ASSUME Mounts = "local", Dev[Top.path] \in LocalDev \/ (Top.depth > 0 /\ Dev[Top.path] # Top.parentDev),
           Top.depth \in Nat, MayDescend(Top.path, Top.depth, Top.parentDev)
    PROVE  Dev[Top.path] \in LocalDev
<1>1. CASE Dev[Top.path] \notin LocalDev
  <2>1. Top.depth > 0 /\ Dev[Top.path] # Top.parentDev /\ Top.depth # 0
    BY <1>1
  <2>2. ~CrossMount(Top.path)
    BY <1>1 DEF CrossMount
  <2> QED BY <2>1, <2>2 DEF MayDescend, StopsAtMount
<1> QED BY <1>1

\* visit, up to the decision whether it enters the directory it has reached.
LEMMA ShareAcquires ==
    ASSUME IInv, IInv', ShareInv, Mounts = "local", Acquire
    PROVE  ShareInv'
<1> DEFINE L == Len(stack)
           n == Top.path
           descend == Kind[n] = "dir" /\ MayDescend(n, Top.depth, Top.parentDev)
           x == VisitEntry(world, n, descend)
           rest == IF descend THEN world.listing[n] ELSE <<>>
           su == stack'
<1>1. /\ wpc = "acquire" /\ TakeFree /\ world' = world /\ emitted' = emitted
      /\ entry' = [entry EXCEPT ![Head(free)] = x]
      /\ su = [stack EXCEPT ![L].cell = Head(free), ![L].rest = rest]
      /\ wpc' \in {"submit", "commit"}
  BY DEF Acquire, consumerVars
<1>2. /\ stack \in Seq(Frame) /\ L \in Nat \ {0} /\ Top \in Frame /\ Top = stack[L] /\ su \in Seq(Frame)
      /\ free \in Seq(Cell) /\ entry \in [Cell -> Entry] /\ world \in Answers /\ world \in World
  BY <1>1, TopFrame DEF IInv, Typed, TypeOK, Active, Top, ShareInv
<1>3. n \in Node /\ Top.depth \in Nat /\ Head(free) \in Cell /\ world.listing[n] \in Seq(Node)
  <2>1. Top.path \in Node /\ Top.depth \in Nat
    BY <1>2 DEF Frame
  <2>2. Head(free) \in Cell
    BY <1>1, <1>2 DEF TakeFree
  <2>3. world.listing \in [Node -> Seq(Node)]
    BY <1>2 DEF Answers
  <2> QED BY <2>1, <2>2, <2>3
<1>4. /\ UnderLocal(n) /\ stack[L].rest = <<>>
      /\ Dev[n] \in LocalDev \/ (Top.depth > 0 /\ Dev[n] # Top.parentDev)
      /\ Clear(stack, n) /\ Beside(stack, n)
      /\ \A c \in Cell : entry[c].dev # 0 => entry[c].path \notin Subtree(n)
  BY <1>1, <1>2 DEF ShareInv, Arrives
<1>5. /\ Len(su) = L /\ su[L].rest = rest /\ su[L].path = n
      /\ \A k \in 1 .. L : k # L => su[k] = stack[k]
  <2> DEFINE g == [[Top EXCEPT !.cell = Head(free)] EXCEPT !.rest = rest]
  <2>1. g.rest = rest /\ g.path = n
    BY <1>2 DEF Frame
  <2>2. su = [stack EXCEPT ![L] = g]
    <3> HIDE DEF rest
    <3> QED BY <1>1, <1>2
  <2> HIDE DEF g, su
  <2> QED BY <1>2, <2>1, <2>2
<1>6. x.path = n /\ x.dev = Dev[n] /\ x.type # "unknown"
  BY <1>3, TreeAssumption DEF VisitEntry, Kinds
<1> HIDE DEF x
<1>7. /\ entry'[Head(free)] = x
      /\ \A c \in Cell : c # Head(free) => entry'[c] = entry[c]
  BY <1>1, <1>2, <1>3
<1>8. CASE ~descend
  <2>1. rest = <<>>
    BY <1>8
  <2> HIDE DEF su, rest, n, L
  <2>2. Narrows(su, stack)
    BY <1>2, <1>5, <2>1 DEF Narrows, L
  <2> QED BY <1>1, <1>2, <1>4, <1>6, <1>7, <2>2, ShareNarrows DEF su
<1>9. CASE descend
  <2>1. rest = world.listing[n]
    BY <1>9
  <2>2. Dev[n] \in LocalDev
    BY <1>3, <1>4, <1>9, EntersLocal
  <2> HIDE DEF su, rest, n, descend
  <2>a. Loops(su)
    <3>1. \A k \in 1 .. Len(su) : k = L \/ (k \in 1 .. Len(stack) /\ su[k] = stack[k])
      BY <1>5 DEF L
    <3> QED BY <1>5, <2>2, <3>1 DEF ShareInv, Loops
  <2>3. /\ AllUnder(su) /\ Apart(su) /\ Clear(su, n)
        /\ \A q : Clear(stack, q) /\ q \notin Subtree(n) => Clear(su, q)
    <3>1. AllUnder(stack) /\ Apart(stack)
      BY DEF ShareInv
    <3> QED BY <1>2, <1>3, <1>4, <1>5, <2>1, <2>2, <3>1, ShareLists
  <2>4. \A c \in Cell : CellReached(c)'
    <3> SUFFICES ASSUME NEW c \in Cell PROVE CellReached(c)'
      OBVIOUS
    <3>1. \A q : Clear(su, q) => Clear(stack, q)'
      BY DEF Clear, su
    <3>2. CASE c = Head(free)
      BY <1>4, <1>6, <1>7, <2>3, <3>1, <3>2 DEF CellReached, UnderLocal
    <3>3. CASE c # Head(free)
      <4>1. entry'[c] = entry[c] /\ CellReached(c)
        BY <1>7, <3>3 DEF ShareInv
      <4>2. entry[c].dev # 0 => Clear(stack, entry[c].path)'
        BY <1>4, <2>3, <3>1, <4>1 DEF CellReached
      <4>3. ASSUME NEW i \in 1 .. Len(free), free[i] = c
            PROVE  i - 1 \in 1 .. Len(free') /\ free'[i - 1] = c
        <5>1. free' = Tail(free) /\ free # <<>> /\ i # 1
          BY <1>1, <1>2, <3>3, <4>3 DEF TakeFree
        <5> QED BY <1>2, <4>3, <5>1
      <4> QED BY <4>1, <4>2, <4>3 DEF CellReached, UnderLocal
    <3> QED BY <3>2, <3>3
  <2>5. AllUnder(stack)' /\ Loops(stack)' /\ Apart(stack)'
    BY <2>a, <2>3 DEF AllUnder, Loops, Apart, UnderLocal, su
  <2>6. (\A i \in 1 .. Len(emitted) : UnderLocal(emitted[i].path))'
    BY <1>1 DEF ShareInv, UnderLocal
  <2> QED BY <1>1, <1>2, <2>4, <2>5, <2>6 DEF ShareInv
<1> QED BY <1>8, <1>9

LEMMA ShareInvStep ==
    ASSUME SharesMountedOnce, Mounts = "local", Dev[Root] \in LocalDev, IInv, IInv', ShareInv, [Next]_vars
    PROVE  ShareInv'
<1> USE DEF ringVars, slotVars, walkerVars, workerVars, consumerVars
<1>0. /\ stack \in Seq(Frame) /\ stack' \in Seq(Frame) /\ entry \in [Cell -> Entry]
      /\ (cpc \in {"emit", "release"} => taken \in Cell)
  BY DEF IInv, TypeOK, Holding
<1>1. CASE Acquire
  BY <1>1, ShareAcquires
<1>2. CASE VisitChild
  BY <1>2, ShareVisits
<1>3. CASE EmitError
  BY <1>3, ShareLoses
<1>4. CASE SkipExcluded \/ Leave \/ Cancelled \/ SubmitCancelled
  <2>1. Narrows(stack', stack)
    <3>1. CASE SkipExcluded
      BY <3>1, ChildLeaves DEF SkipExcluded
    <3>2. CASE Leave
      <4>1. wpc = "children" /\ stack' = SubSeq(stack, 1, Len(stack) - 1)
        BY <3>2 DEF Leave
      <4>2. Len(stack) \in Nat \ {0}
        BY <4>1, TopFrame DEF IInv, Typed, Active
      <4> DEFINE m == Len(stack) - 1
      <4>3. m \in Nat /\ Len(stack) = m + 1 /\ stack' = SubSeq(stack, 1, m)
        BY <4>1, <4>2
      <4> HIDE DEF m
      <4>4. Len(stack') = m /\ \A k \in 1 .. m : stack'[k] = stack[k]
        BY <1>0, <4>3, OuterCalls
      <4> QED BY <4>3, <4>4 DEF Narrows
    <3>3. CASE Cancelled \/ SubmitCancelled
      BY <3>3 DEF Cancelled, SubmitCancelled, Unwind, Narrows
    <3> QED BY <1>4, <3>1, <3>2, <3>3
  <2>2. /\ UNCHANGED <<world, emitted, free, entry>>
        /\ wpc' \notin {"visit", "acquire"}
    BY <1>4 DEF SkipExcluded, AtChild, Leave, Cancelled, SubmitCancelled, Unwind
  <2> QED BY <1>0, <2>1, <2>2, ShareNarrows
<1>5. ASSUME NEW w \in Worker, Hash(w) PROVE ShareInv'
  <2>1. /\ job[w] \in Cell /\ entry' = [entry EXCEPT ![job[w]] = HashEntry(world, @)]
        /\ UNCHANGED <<world, stack, free, wpc, emitted>>
    BY <1>5 DEF Hash
  <2>2. \A e \in Entry : /\ HashEntry(world, e).path = e.path
                         /\ HashEntry(world, e).type = e.type
                         /\ HashEntry(world, e).dev = e.dev
    BY DEF HashEntry, Entry
  <2>3. \A c \in Cell : /\ entry'[c].path = entry[c].path
                        /\ entry'[c].type = entry[c].type
                        /\ entry'[c].dev = entry[c].dev
    BY <1>0, <2>1, <2>2
  <2> QED BY <2>1, <2>3, ShareQuiet
<1>6. ASSUME NEW fails \in BOOLEAN, Emit(fails) PROVE ShareInv'
  <2>1. /\ UNCHANGED <<world, stack, free, wpc, entry>> /\ taken \in Cell
        /\ emitted' = emitted \/ emitted' = Append(emitted, entry[taken])
    BY <1>0, <1>6 DEF Emit
  <2> QED BY <2>1, ShareQuiet
<1>7. CASE \/ Visit \/ Commit \/ StopHasher \/ CloseRing
           \/ \E w \in Worker : Submit(w) \/ Exit(w)
           \/ Receive \/ AwaitHash \/ Release \/ Return \/ Interrupt \/ Returned \/ UNCHANGED vars
  <2>1. UNCHANGED <<world, stack, entry, emitted>>
    BY <1>7 DEF Visit, Commit, StopHasher, CloseRing, Submit, Exit, Receive, AwaitHash, Release, Return,
                Interrupt, Returned, vars
  <2>2. wpc' \in {"visit", "acquire"} => wpc \in {"visit", "acquire"}
    BY <1>7 DEF Visit, Commit, StopHasher, CloseRing, Submit, Exit, Receive, AwaitHash, Release, Return,
                Interrupt, Returned, vars
  <2>3. free' = free \/ \E c \in Cell : free' = Append(free, c)
    BY <1>0, <1>7 DEF Visit, Commit, StopHasher, CloseRing, Submit, Exit, Receive, AwaitHash, Release, Return,
                      Interrupt, Returned, vars
  <2> QED BY <2>1, <2>2, <2>3, ShareQuiet
<1> QED BY <1>1, <1>2, <1>3, <1>4, <1>5, <1>6, <1>7 DEF Next, Walker, Hasher, Consumer

\* The mount rule of a walk that stops at shares.
LEMMA ShareInvariant ==
    ASSUME SharesMountedOnce
    PROVE  Spec => [](Mounts = "local" /\ Dev[Root] \in LocalDev => ShareInv)
<1> DEFINE Inv == Mounts = "local" /\ Dev[Root] \in LocalDev => ShareInv
<1>1. Init => Inv
  BY ShareInvInit
<1>2. IInv /\ IInv' /\ Inv /\ [Next]_vars => Inv'
  BY ShareInvStep
<1> HIDE DEF Inv
<1>3. Spec => []Inv
  BY <1>1, <1>2, IInvInvariant, PTL DEF Spec
<1> QED BY <1>3 DEF Inv

-----------------------------------------------------------------------------
(* What remains of the plan, under the walker's steps within its calls.    *)

\* Enough stays when no cell is filled.
LEMMA EnoughSame ==
    ASSUME IInv, NEW rem \in Seq(Entry), Enough(rem), stack' = stack,
           \A c \in Cell : entry'[c].dev = entry[c].dev,
           free' = free \/ \E c \in Cell : free' = Append(free, c)
    PROVE  Enough(rem)'
<1>1. Len(rem) \in Nat /\ free \in Seq(Cell) /\ Len(free) \in Nat
  BY DEF IInv, TypeOK
<1>2. CellForEach => Len(rem) <= Len(free') /\ \A i \in 1 .. Len(rem) : free'[i] = free[i]
  BY <1>1 DEF Enough
<1> QED BY <1>2 DEF Enough

\* What remains is the plan of that child and then what the calls owe without it.
NextOwes(rem, r) ==
    /\ rem = ChildPlan(world, ChildrenPlan(world), NextChild, Top.depth + 1, Dev[Top.path]) \o r
    /\ Owes(world, StackAfterChild, r)

LEMMA ChildRemains ==
    ASSUME IInv, AtChild, NEW rem \in Seq(Entry), Owes(world, stack, rem)
    PROVE  \E r \in Seq(Entry) : NextOwes(rem, r)
<1> DEFINE g == [Top EXCEPT !.rest = Tail(Top.rest)]
           child == ChildPlan(world, ChildrenPlan(world), NextChild, Top.depth + 1, Dev[Top.path])
<1>1. world \in Answers /\ stack # <<>>
  BY ChildMoves DEF IInv, TypeOK
<1>2. PICK r \in Seq(Entry) : OwesThen(world, stack, rem, r)
  BY <1>1, ChildMoves, OwesTop
<1>3. g \in Frame /\ FrameOwes(world, Top) = child \o FrameOwes(world, g)
  <2>1. Top.rest # <<>>
    BY DEF AtChild
  <2> QED BY <1>1, <2>1, ChildMoves, ChildOwes DEF NextChild
<1>4. child \in Seq(Entry)
  BY <1>1, ChildMoves, PlanIsTyped
<1> HIDE DEF g, child
<1>5. FrameOwes(world, g) \in Seq(Entry)
  BY <1>1, <1>3, FrameOwesTyped
<1>6. rem = (child \o FrameOwes(world, g)) \o r
  BY <1>2, <1>3, ChildMoves DEF OwesThen
<1>7. rem = child \o (FrameOwes(world, g) \o r) /\ FrameOwes(world, g) \o r \in Seq(Entry)
  BY <1>4, <1>5, <1>6, ConcatAssociative, ConcatProperties
<1>8. Owes(world, StackAfterChild, FrameOwes(world, g) \o r)
  <2>1. StackAfterChild = [stack EXCEPT ![Len(stack)] = g]
    BY ChildMoves DEF g
  <2> QED BY <1>2, <1>3, <2>1 DEF OwesThen
<1> QED BY <1>7, <1>8 DEF NextOwes, child

LEMMA PlanInvInit == Init => PlanInv
<1> SUFFICES ASSUME Init PROVE PlanInv
  OBVIOUS
<1> DEFINE f == Call(Root, 0, Dev[Root])
           rem == Plan[world]
<1>1. world \in World /\ world \in Answers /\ rem \in Seq(Entry)
  BY PlanOfWorld DEF Init
<1>2. stack = <<f>> /\ Len(stack) = 1 /\ Top.cell = NoCell /\ stack[1].cell \notin Cell
  BY NoCellNotACell DEF Init, Top, Call
<1>3. Calls
  BY <1>1, <1>2 DEF Calls, Init, Active, Stopping
<1>4. Owes(world, stack, rem)
  <2>1. f \in Frame
    BY TreeAssumption DEF Call, Frame
  <2>2. FrameOwes(world, f) = rem
    BY <1>1, PlanOfWorld DEF FrameOwes, Call
  <2>3. Owes(world, <<>>, <<>>) /\ <<>> \in Seq(Frame)
    BY OwesNothing
  <2> HIDE DEF f, rem
  <2>4. Owes(world, Append(<<>>, f), FrameOwes(world, f) \o <<>>)
    BY <1>1, <2>1, <2>3, OwesPush
  <2>5. Append(<<>>, f) = stack /\ rem \o <<>> = rem
    BY <1>1, <1>2
  <2> QED BY <2>2, <2>4, <2>5
<1>5. Enough(rem)
  <2>1. Len(free) = RingSize
    BY RingSizeType DEF Init
  <2> QED BY <1>1, <1>2, <2>1 DEF Enough, CellForEach
<1>6. OnPlan(rem)
  <2>1. emitted = <<>> /\ ordered = <<>> /\ ~Handing /\ ~Sending
    BY DEF Init, Handing, Sending
  <2>2. Behind = 0 /\ Ahead = 0
    BY <2>1 DEF Behind, Ahead
  <2>3. rem = Plan[world] /\ Len(rem) \in Nat
    BY <1>1
  <2> HIDE DEF rem
  <2> QED BY <2>1, <2>2, <2>3 DEF OnPlan
<1>7. walkErr = "none"
  BY DEF Init
<1> HIDE DEF rem
<1> QED BY <1>1, <1>3, <1>4, <1>5, <1>6, <1>7 DEF PlanInv, Remains

\* Where the walk stops at shares, the rule answers for the device in the directory's
\* cell as it would for the directory's.
LEMMA StopsAlike ==
    ASSUME IInv, SharesStop, ShareInv, ShareInv', VisitChild
    PROVE  MayDescend(NextChild, Top.depth + 1, entry[Top.cell].dev) =
              MayDescend(NextChild, Top.depth + 1, Dev[Top.path])
<1> DEFINE f == ChildCall(NextChild)
           k == Top.depth + 1
<1>1. AtChild /\ stack' = Append(StackAfterChild, f) /\ wpc' = "visit"
  BY DEF VisitChild
<1>2. /\ StackAfterChild \in Seq(Frame) /\ Len(stack) \in 1 .. Len(stack) /\ stack[Len(stack)] = Top
      /\ Top \in Frame /\ Top.rest # <<>>
  BY <1>1, ChildMoves DEF AtChild
<1>3. k \in Nat /\ k > 0
  BY <1>2 DEF Frame
<1>4. Dev[Top.path] \in LocalDev
  BY <1>2 DEF ShareInv, Loops
<1>5. CASE Dev[NextChild] \in LocalDev
  <2>1. \A d : ~StopsAtMount(NextChild, k, d)
    BY <1>5 DEF SharesStop, StopsAtMount, CrossMount
  <2> HIDE DEF k
  <2> QED BY <2>1 DEF MayDescend, k
<1>6. CASE Dev[NextChild] \notin LocalDev
  <2>1. stack'[Len(stack')] = f
    BY <1>1, <1>2
  <2>2. f.path = NextChild /\ f.parentDev = entry[Top.cell].dev
    BY DEF ChildCall, Call
  <2>3. Dev[NextChild] # entry[Top.cell].dev
    BY <1>1, <1>6, <2>1, <2>2 DEF ShareInv, Arrives
  <2>4. Dev[NextChild] # Dev[Top.path] /\ ~CrossMount(NextChild)
    BY <1>4, <1>6 DEF SharesStop, CrossMount
  <2>5. StopsAtMount(NextChild, k, entry[Top.cell].dev) /\ StopsAtMount(NextChild, k, Dev[Top.path])
    BY <1>3, <2>3, <2>4 DEF StopsAtMount
  <2>6. k # 0
    BY <1>3
  <2> HIDE DEF k
  <2> QED BY <2>5, <2>6 DEF MayDescend, k
<1> QED BY <1>5, <1>6

\* The steps within the calls leave what remains as it is.
LEMMA RemainsWalk ==
    ASSUME IInv, Calls, DevicesSettled, SharesStop => ShareInv /\ ShareInv', NEW rem \in Seq(Entry),
           Remains(rem), Visit \/ SkipExcluded \/ VisitChild \/ Leave
    PROVE  Remains(rem)'
<1>1. /\ UNCHANGED <<world, cancelled, ringVars, slotVars, cur, walkErr, consumerVars>>
      /\ wpc \in {"visit", "children"} /\ wpc' \notin {"submit", "commit"}
  BY DEF Visit, SkipExcluded, VisitChild, Leave, AtChild
<1>2. walkErr = "none" /\ walkErr' = "none" /\ Owes(world, stack, rem) /\ Enough(rem)
  BY <1>1 DEF Calls, Active, Remains
<1>3. ~emitErr' => OnPlan(rem)'
  <2> SUFFICES ASSUME ~emitErr' PROVE OnPlan(rem)'
    OBVIOUS
  <2>1. OnPlan(rem)
    BY <1>1 DEF Remains, consumerVars
  <2>2. Settling' = Settling /\ Handing' = Handing /\ ~Sending /\ ~Sending'
    BY <1>1 DEF Settling, Handing, Sending, slotVars, consumerVars
  <2>3. /\ world' = world /\ emitted' = emitted /\ ordered' = ordered
        /\ taken' = taken /\ Sending' = Sending /\ cur' = cur
    BY <1>1, <2>2 DEF ringVars, consumerVars, Sending
  <2> QED BY <2>1, <2>2, <2>3, PlanSame
<1>4. Owes(world', stack', rem) /\ Enough(rem)'
  <2>a. /\ world \in Answers /\ stack \in Seq(Frame) /\ Len(rem) \in Nat /\ world' = world
        /\ free' = free /\ entry' = entry
    BY <1>1 DEF IInv, TypeOK, ringVars, slotVars
  <2>1. CASE Visit
    <3>1. stack' = stack
      BY <2>1 DEF Visit
    <3> QED BY <1>2, <2>a, <3>1 DEF Enough
  <2>2. ASSUME AtChild, NextChild \in Excluded, stack' = StackAfterChild
        PROVE  Owes(world', stack', rem) /\ Enough(rem)'
    <3>1. PICK r \in Seq(Entry) : NextOwes(rem, r)
      BY <1>2, <2>2, ChildRemains
    <3>2. rem = <<>> \o r
      BY <2>2, <3>1 DEF NextOwes, ChildPlan
    <3>3. rem = r
      BY <3>2
    <3>4. Owes(world', stack', rem)
      BY <2>a, <2>2, <3>1, <3>3 DEF NextOwes
    <3>5. Enough(rem)'
      <4>1. /\ Len(stack') = Len(stack)
            /\ \A k \in 1 .. Len(stack) : stack'[k].cell = stack[k].cell /\ stack'[k].path = stack[k].path
        BY <2>2, ChildMoves
      <4> QED BY <1>2, <2>a, <4>1 DEF Enough
    <3> QED BY <3>4, <3>5
  <2>3. CASE VisitChild
    <3> DEFINE f == ChildCall(NextChild)
    <3>1. AtChild /\ NextChild \notin Excluded /\ NextChild \notin world.gone /\ stack' = Append(StackAfterChild, f)
      BY <2>3 DEF VisitChild
    <3>2. PICK r \in Seq(Entry) : NextOwes(rem, r)
      BY <1>2, <3>1, ChildRemains
    <3>3. entry[Top.cell].dev \in Nat
      BY <3>1, ChildMoves DEF IInv, TypeOK, Entry
    <3>4. f \in Frame /\ f.cell = NoCell
      BY <3>1, <3>3, ChildMoves DEF ChildCall, Call, Frame
    <3>5. FrameOwes(world, f) =
             VisitPlan(world, ChildrenPlan(world), NextChild, Top.depth + 1, entry[Top.cell].dev)
      BY DEF FrameOwes, ChildCall, Call
    <3>6. FrameOwes(world, f) =
             VisitPlan(world, ChildrenPlan(world), NextChild, Top.depth + 1, Dev[Top.path])
      <4>1. CASE EveryMountCrossed
        <5>1. Kind[NextChild] = "dir" => \A d, p : ~StopsAtMount(NextChild, d, p)
          BY <3>1, <4>1, ChildMoves DEF EveryMountCrossed, StopsAtMount
        <5>2. CASE Kind[NextChild] = "dir"
          <6>1. \A d, p, q : MayDescend(NextChild, d, p) = MayDescend(NextChild, d, q)
            BY <5>1, <5>2 DEF MayDescend
          <6> QED BY <3>5, <6>1 DEF VisitPlan, Entered
        <5>3. CASE Kind[NextChild] # "dir"
          BY <3>5, <5>3 DEF VisitPlan, Entered, FinalEntry
        <5> QED BY <5>2, <5>3
      <4>2. CASE OneFilesystem \/ CellForEach
        <5>1. entry[Top.cell].dev = Dev[Top.path]
          <6>1. Len(stack) \in 1 .. Len(stack) /\ stack[Len(stack)] = Top /\ Top.cell \in Cell
            BY <3>1, ChildMoves
          <6> QED BY <1>2, <4>2, <6>1 DEF Enough
        <5> QED BY <3>5, <5>1
      <4>3. CASE SharesStop
        <5>1. MayDescend(NextChild, Top.depth + 1, entry[Top.cell].dev) =
                 MayDescend(NextChild, Top.depth + 1, Dev[Top.path])
          <6>1. VisitChild /\ NextChild \in Node /\ Top.depth \in Nat
            BY <2>3, <3>1, ChildMoves DEF Frame
          <6> QED BY <1>1, <4>3, <6>1, StopsAlike
        <5> QED BY <3>5, <5>1 DEF VisitPlan, Entered
      <4> QED BY <4>1, <4>2, <4>3 DEF DevicesSettled
    <3>7. ChildPlan(world, ChildrenPlan(world), NextChild, Top.depth + 1, Dev[Top.path]) = FrameOwes(world, f)
      BY <3>1, <3>6 DEF ChildPlan
    <3> HIDE DEF f
    <3>8. rem = FrameOwes(world, f) \o r /\ Owes(world, StackAfterChild, r)
      BY <3>2, <3>7 DEF NextOwes
    <3>9. Owes(world', stack', rem)
      <4>1. Owes(world, Append(StackAfterChild, f), FrameOwes(world, f) \o r)
        BY <2>a, <3>1, <3>4, <3>8, ChildMoves, OwesPush
      <4> QED BY <2>a, <3>1, <3>8, <4>1
    <3>10. Enough(rem)'
      <4>1. /\ Len(stack') = Len(stack) + 1 /\ stack'[Len(stack) + 1].cell = NoCell
            /\ \A k \in 1 .. Len(stack) : stack'[k].cell = stack[k].cell /\ stack'[k].path = stack[k].path
        BY <3>1, <3>4, ChildMoves
      <4>2. ASSUME NEW k \in 1 .. Len(stack'), stack'[k].cell \in Cell PROVE k \in 1 .. Len(stack)
        BY <3>1, <4>1, <4>2, NoCellNotACell, ChildMoves
      <4> QED BY <1>2, <2>a, <4>1, <4>2 DEF Enough
    <3> QED BY <3>9, <3>10
  <2>4. CASE Leave
    <3>1. wpc = "children" /\ Top.rest = <<>> /\ stack' = SubSeq(stack, 1, Len(stack) - 1)
      BY <2>4 DEF Leave
    <3>2. Len(stack) \in Nat \ {0} /\ Top \in Frame /\ Top.cell \in Cell /\ Top = stack[Len(stack)]
      BY <3>1, TopFrame DEF IInv, Typed, Active, Filled, Top
    <3>3. PICK r \in Seq(Entry) : OwesThen(world, stack, rem, r)
      <4>1. stack # <<>>
        BY <3>2
      <4> QED BY <1>2, <2>a, <4>1, OwesTop
    <3>4. FrameOwes(world, Top) = <<>>
      BY <2>a, <3>1, <3>2, LastOwes, NoCellNotACell
    <3>5. rem = <<>> \o r
      BY <3>2, <3>3, <3>4 DEF OwesThen
    <3>6. rem = r
      BY <3>5
    <3>7. Owes(world', stack', rem)
      BY <2>a, <3>1, <3>3, <3>6 DEF OwesThen
    <3>8. Len(stack') = Len(stack) - 1 /\ \A k \in 1 .. Len(stack) - 1 : stack'[k] = stack[k]
      <4> DEFINE n == Len(stack) - 1
      <4>1. n \in Nat /\ Len(stack) = n + 1 /\ stack' = SubSeq(stack, 1, n)
        BY <3>1, <3>2
      <4> HIDE DEF n
      <4>2. Len(stack') = n /\ \A k \in 1 .. n : stack'[k] = stack[k]
        BY <2>a, <4>1, OuterCalls
      <4> QED BY <4>2 DEF n
    <3>9. Enough(rem)'
      <4>1. \A k \in 1 .. Len(stack') : k \in 1 .. Len(stack) /\ stack'[k] = stack[k]
        BY <3>2, <3>8
      <4> QED BY <1>2, <2>a, <4>1 DEF Enough
    <3> QED BY <3>7, <3>9
  <2>5. CASE SkipExcluded
    BY <2>2, <2>5 DEF SkipExcluded
  <2> QED BY <2>1, <2>3, <2>4, <2>5
<1> QED BY <1>2, <1>3, <1>4 DEF Remains

-----------------------------------------------------------------------------
(* The steps of the walker that fill a cell.                               *)

LEMMA EnoughFills ==
    ASSUME IInv, NEW r \in Seq(Entry), NEW x \in Entry, Enough(<<x>> \o r), TakeFree,
           \A c \in Cell : c # Head(free) => entry'[c] = entry[c],
           OneFilesystem => entry'[Head(free)].dev = Dev[Root],
           Len(stack') = Len(stack),
           \A k \in 1 .. Len(stack) :
              /\ stack'[k].path = stack[k].path
              /\ \/ stack'[k].cell = stack[k].cell
                 \/ stack'[k].cell = Head(free) /\ entry'[Head(free)].dev = Dev[stack[k].path]
    PROVE  Enough(r)'
<1>1. Len(<<x>> \o r) = Len(r) + 1 /\ Len(r) \in Nat
  OBVIOUS
<1>2. /\ free \in Seq(Cell) /\ Len(free) \in Nat \ {0} /\ Head(free) = free[1]
      /\ Len(free') = Len(free) - 1 /\ \A i \in 1 .. Len(free) - 1 : free'[i] = free[i + 1]
  BY DEF IInv, TypeOK, TakeFree
<1>3. CellForEach =>
         /\ Len(r) + 1 <= Len(free)
         /\ \A k \in 1 .. Len(stack) : stack[k].cell \in Cell =>
               \A i \in 1 .. Len(r) + 1 : free[i] # stack[k].cell
  BY <1>1 DEF Enough
<1>4. ASSUME CellForEach, NEW i \in 1 .. Len(r)
      PROVE  free'[i] = free[i + 1] /\ i + 1 \in 1 .. Len(r) + 1 /\ free[i + 1] # free[1]
  <2>1. i + 1 \in 1 .. Len(r) + 1 /\ i \in 1 .. Len(free) - 1 /\ i + 1 # 1
    BY <1>1, <1>2, <1>3, <1>4
  <2>2. i + 1 \in 1 .. Len(free) /\ 1 \in 1 .. Len(free)
    BY <1>2, <2>1
  <2>3. \A m, n \in 1 .. Len(free) : free[m] = free[n] => m = n
    BY DEF IInv, OnePlace
  <2> QED BY <1>2, <2>1, <2>2, <2>3
<1>5. ASSUME OneFilesystem \/ CellForEach, NEW k \in 1 .. Len(stack), stack'[k].cell \in Cell
      PROVE  entry'[stack'[k].cell].dev = Dev[stack'[k].path]
  <2>1. CASE stack'[k].cell # stack[k].cell
    BY <2>1
  <2>2. CASE stack'[k].cell = stack[k].cell /\ stack[k].cell # Head(free)
    <3>1. entry[stack[k].cell].dev = Dev[stack[k].path]
      BY <1>5, <2>2 DEF Enough
    <3> QED BY <1>5, <2>2, <3>1
  <2>3. CASE stack'[k].cell = stack[k].cell /\ stack[k].cell = Head(free)
    <3>1. ~CellForEach
      <4>1. 1 \in 1 .. Len(r) + 1
        BY <1>1
      <4>2. stack[k].cell \in Cell /\ free[1] = stack[k].cell
        BY <1>2, <1>5, <2>3
      <4> QED BY <1>3, <4>1, <4>2
    <3>2. stack[k].path \in Node /\ Root \in Node
      <4>1. stack \in Seq(Frame)
        BY DEF IInv, TypeOK
      <4>2. stack[k] \in Frame
        BY <4>1
      <4> QED BY <4>2, TreeAssumption DEF Frame
    <3>3. entry'[Head(free)].dev = Dev[Root] /\ Dev[Root] = Dev[stack[k].path]
      BY <1>5, <3>1, <3>2 DEF OneFilesystem
    <3> QED BY <2>3, <3>3
  <2> QED BY <2>1, <2>2, <2>3
<1>6. ASSUME CellForEach, NEW k \in 1 .. Len(stack), stack'[k].cell \in Cell, NEW i \in 1 .. Len(r)
      PROVE  free'[i] # stack'[k].cell
  <2>1. CASE stack'[k].cell = stack[k].cell
    BY <1>3, <1>4, <1>6, <2>1
  <2>2. CASE stack'[k].cell = Head(free)
    BY <1>2, <1>4, <1>6, <2>2
  <2> QED BY <2>1, <2>2
<1>7. CellForEach => Len(r) <= Len(free')
  BY <1>1, <1>2, <1>3
<1> QED BY <1>5, <1>6, <1>7 DEF Enough

LEMMA RemainsFills ==
    ASSUME IInv, IInv', Calls, NEW rem \in Seq(Entry), Remains(rem), Acquire \/ EmitError
    PROVE  \E r \in Seq(Entry) : Remains(r)'
<1> DEFINE c == Head(free)
<1>1. /\ TakeFree /\ wpc \in {"acquire", "children"} /\ wpc' \in {"submit", "commit"}
      /\ UNCHANGED <<world, cancelled, ordered, closed, walkErr, consumerVars>>
  BY DEF Acquire, EmitError, AtChild
<1>2. /\ world \in Answers /\ world' = world /\ stack \in Seq(Frame) /\ free \in Seq(Cell) /\ free # <<>>
      /\ c \in Cell /\ c = free[1] /\ cur' = c /\ wg[c] = 0 /\ entry \in [Cell -> Entry] /\ wg \in [Cell -> Nat]
      /\ emitted' = emitted /\ ordered' = ordered /\ cpc' = cpc /\ taken' = taken /\ emitErr' = emitErr
  <2>1. free \in Seq(Cell) /\ free # <<>> /\ cur' = c
    BY <1>1 DEF IInv, TypeOK, TakeFree
  <2>2. c = free[1] /\ c \in Cell /\ 1 \in 1 .. Len(free)
    BY <2>1
  <2> HIDE DEF c
  <2> QED BY <1>1, <2>1, <2>2 DEF IInv, TypeOK, Settled, consumerVars
<1>3. walkErr = "none" /\ walkErr' = "none" /\ Owes(world, stack, rem) /\ Enough(rem)
  BY <1>1 DEF Calls, Active, Remains
<1>4. ~Sending /\ Sending'
  BY <1>1 DEF Sending
<1> HIDE DEF c
<1>5. ASSUME NEW x \in Entry, NEW r \in Seq(Entry), rem = <<x>> \o r, Settling'[c] = x,
             \A d \in Cell : d # c => wg'[d] = wg[d] /\ entry'[d] = entry[d],
             wg' \in [Cell -> Nat], entry' \in [Cell -> Entry],
             Owes(world, stack', r), Enough(r)'
      PROVE  \E rr \in Seq(Entry) : Remains(rr)'
  <2>1. \A d \in Cell : d # c => Settling'[d] = Settling[d]
    BY <1>2, <1>5 DEF Settling
  <2>2. ~emitErr' => OnPlan(r)'
    <3>1. SUFFICES ASSUME ~emitErr' PROVE OnPlan(r)'
      OBVIOUS
    <3>2. OnPlan(rem)
      BY <1>2, <3>1 DEF Remains
    <3>3. OnPlan(<<x>> \o r)
      BY <1>5, <3>2
    <3> QED BY <1>2, <1>4, <1>5, <2>1, <3>3, PlanFills
  <2>3. Remains(r)'
    BY <1>2, <1>3, <1>5, <2>2 DEF Remains
  <2> QED BY <2>3
<1>6. CASE Acquire
  <2> DEFINE f == Top
             entered == Entered(f.path, f.depth, f.parentDev)
             children == IF entered THEN world.listing[f.path] ELSE <<>>
             g == [f EXCEPT !.cell = c, !.rest = children]
             x == FinalEntry(world, f.path, entered)
             e == VisitEntry(world, f.path, entered)
             hashed == Kind[f.path] = "file" /\ ~NoHash
  <2>1. Len(stack) \in Nat \ {0} /\ f \in Frame /\ f = stack[Len(stack)] /\ f.cell = NoCell /\ f.path \in Node
    <3>1. wpc = "acquire"
      BY <1>6 DEF Acquire
    <3>2. Len(stack) \in Nat \ {0} /\ f \in Frame /\ f.cell = NoCell
      BY <3>1, TopFrame DEF IInv, Typed, Active, Calls
    <3> QED BY <3>2 DEF Top, Frame
  <2>2. /\ entry' = [entry EXCEPT ![c] = e]
        /\ stack' = [stack EXCEPT ![Len(stack)].cell = c, ![Len(stack)].rest = children]
        /\ wg' = IF hashed THEN WgAdd(c) ELSE wg
    BY <1>6 DEF Acquire, Entered, c
  <2>3. /\ g \in Frame /\ x \in Entry
        /\ FrameOwes(world, f) = <<x>> \o FrameOwes(world, g)
    <3>1. world \in Answers /\ f \in Frame /\ f.cell = NoCell /\ c \in Cell
      BY <1>2, <2>1
    <3> QED BY ONLY <3>1, CallOwes
  <2>4. e \in Entry /\ e.dev = Dev[f.path] /\ entered \in BOOLEAN
    BY <1>2, <2>1, EntryTypes, EnteredType DEF VisitEntry
  <2>5. x = IF hashed THEN HashEntry(world, e) ELSE e
    BY DEF FinalEntry
  <2>6. g.cell = c /\ g.path = f.path
    BY <2>1 DEF Frame
  <2>7. stack' = [stack EXCEPT ![Len(stack)] = g]
    <3> HIDE DEF entered, children
    <3> QED BY <1>2, <2>1, <2>2
  <2> HIDE DEF f, entered, children, g, x, e, hashed
  <2>8. /\ Settling'[c] = x /\ wg' \in [Cell -> Nat] /\ entry' \in [Cell -> Entry]
        /\ \A d \in Cell : d # c => wg'[d] = wg[d] /\ entry'[d] = entry[d]
    <3>1. entry'[c] = e /\ wg'[c] = IF hashed THEN 1 ELSE 0
      BY <1>2, <2>2 DEF WgAdd
    <3>2. Settling'[c] = IF wg'[c] = 0 THEN entry'[c] ELSE HashEntry(world, entry'[c])
      BY <1>2 DEF Settling
    <3>3. wg' \in [Cell -> Nat] /\ entry' \in [Cell -> Entry]
      BY <1>2, <2>2, <2>4 DEF WgAdd
    <3>4. \A d \in Cell : d # c => wg'[d] = wg[d] /\ entry'[d] = entry[d]
      BY <1>2, <2>2 DEF WgAdd
    <3> QED BY <2>5, <3>1, <3>2, <3>3, <3>4
  <2>9. PICK r \in Seq(Entry) : OwesThen(world, stack, rem, r)
    <3>1. stack # <<>>
      BY <2>1
    <3> QED BY <1>2, <1>3, <3>1, OwesTop
  <2>10. FrameOwes(world, g) \in Seq(Entry)
    BY <1>2, <2>3, FrameOwesTyped
  <2>11. PICK left \in Seq(Entry) : left = FrameOwes(world, g) \o r
    BY <2>10, ConcatProperties
  <2>12. rem = <<x>> \o left
    <3>1. rem = (<<x>> \o FrameOwes(world, g)) \o r
      BY <2>1, <2>3, <2>9 DEF OwesThen
    <3>2. <<x>> \in Seq(Entry)
      BY <2>3
    <3> QED BY <2>10, <2>11, <3>1, <3>2, ConcatAssociative
  <2>13. Owes(world, stack', left)
    BY <2>3, <2>7, <2>9, <2>11 DEF OwesThen
  <2>14. Enough(left)'
    <3>1. /\ Len(stack') = Len(stack)
          /\ \A k \in 1 .. Len(stack) :
                /\ stack'[k].path = stack[k].path
                /\ stack'[k].cell = stack[k].cell \/ (stack'[k].cell = c /\ stack[k].path = f.path)
      BY <1>2, <2>1, <2>3, <2>6, <2>7
    <3>2. entry'[c].dev = Dev[f.path]
      BY <1>2, <2>2, <2>4
    <3>3. Enough(<<x>> \o left)
      BY <1>3, <2>12
    <3>4. \A k \in 1 .. Len(stack) :
             /\ stack'[k].path = stack[k].path
             /\ \/ stack'[k].cell = stack[k].cell
                \/ stack'[k].cell = Head(free) /\ entry'[Head(free)].dev = Dev[stack[k].path]
      BY <3>1, <3>2 DEF c
    <3>5. TakeFree /\ \A d \in Cell : d # Head(free) => entry'[d] = entry[d]
      BY <1>1, <2>8 DEF c
    <3>6. OneFilesystem => entry'[Head(free)].dev = Dev[Root]
      BY <2>1, <3>2, TreeAssumption DEF OneFilesystem, c
    <3> QED BY <2>3, <2>11, <3>1, <3>3, <3>4, <3>5, <3>6, EnoughFills
  <2> QED BY <1>5, <2>3, <2>8, <2>11, <2>12, <2>13, <2>14
<1>7. CASE EmitError
  <2> DEFINE x == LostEntry(NextChild)
  <2>1. /\ AtChild /\ NextChild \in world.gone /\ NextChild \notin Excluded
        /\ entry' = [entry EXCEPT ![c] = x] /\ stack' = StackAfterChild /\ wg' = wg
    BY <1>7 DEF EmitError, c
  <2>2. x \in Entry
    BY <2>1, ChildMoves, EntryTypes
  <2>3. PICK r \in Seq(Entry) : NextOwes(rem, r)
    BY <1>3, <2>1, ChildRemains
  <2>4. rem = <<x>> \o r /\ Owes(world, stack', r)
    BY <2>1, <2>3 DEF NextOwes, ChildPlan
  <2> HIDE DEF x
  <2>5. /\ Settling'[c] = x /\ wg' \in [Cell -> Nat] /\ entry' \in [Cell -> Entry]
        /\ \A d \in Cell : d # c => wg'[d] = wg[d] /\ entry'[d] = entry[d]
    BY <1>2, <2>1, <2>2 DEF Settling
  <2>6. Enough(r)'
    <3>1. Enough(<<x>> \o r)
      BY <1>3, <2>4
    <3>2. /\ Len(stack') = Len(stack)
          /\ \A k \in 1 .. Len(stack) : stack'[k].path = stack[k].path /\ stack'[k].cell = stack[k].cell
      BY <2>1, ChildMoves
    <3>3. ~OneFilesystem
      BY <2>1 DEF OneFilesystem, Calls
    <3> QED BY <1>1, <2>2, <2>5, <3>1, <3>2, <3>3, EnoughFills DEF c
  <2> QED BY <1>5, <2>2, <2>4, <2>5, <2>6
<1> QED BY <1>6, <1>7

-----------------------------------------------------------------------------
(* The other steps.                                                        *)

\* The end of the walk, on an error of its context: something is always missing.
LEMMA RemainsCut ==
    ASSUME IInv, Calls, NEW rem \in Seq(Entry), Remains(rem), Cancelled \/ SubmitCancelled
    PROVE  \E r \in Seq(Entry) : Remains(r)'
<1>1. /\ cancelled /\ cancelled' = cancelled /\ walkErr' = "cancelled" /\ wpc' = "stop"
      /\ wpc \in {"visit", "acquire", "submit", "children"}
      /\ UNCHANGED <<world, ringVars, entry, cur, consumerVars>>
  BY DEF Cancelled, SubmitCancelled, Unwind, AtChild, slotVars
<1>2. /\ walkErr = "none" /\ Owes(world, stack, rem) /\ world' = world /\ world \in Answers
      /\ emitted' = emitted /\ ordered' = ordered /\ cpc' = cpc /\ taken' = taken /\ emitErr' = emitErr
      /\ cur' = cur /\ ~Sending' /\ Handing' = Handing /\ stack \in Seq(Frame)
  BY <1>1 DEF Calls, Active, Remains, IInv, TypeOK, ringVars, consumerVars, Sending, Handing
<1>3. CASE Cancelled
  <2>1. rem # <<>>
    <3>1. CASE wpc \in {"visit", "acquire"}
      <4>1. stack # <<>> /\ Top \in Frame /\ Top = stack[Len(stack)] /\ Top.cell = NoCell
        BY <3>1, TopFrame DEF IInv, Typed, Active, Calls, Top
      <4>2. PICK r \in Seq(Entry) : OwesThen(world, stack, rem, r)
        BY <1>2, <4>1, OwesTop
      <4>3. \E e \in Entry, s \in Seq(Entry) : FrameOwes(world, Top) = <<e>> \o s
        <5> DEFINE c == 1
        <5>1. c \in Cell
          BY RingSizeType DEF Cell
        <5> DEFINE entered == Entered(Top.path, Top.depth, Top.parentDev)
                   g == [Top EXCEPT !.cell = c, !.rest = IF entered THEN world.listing[Top.path] ELSE <<>>]
                   e == FinalEntry(world, Top.path, entered)
        <5>2. g \in Frame /\ e \in Entry /\ FrameOwes(world, Top) = <<e>> \o FrameOwes(world, g)
          BY <1>2, <4>1, <5>1, CallOwes
        <5> HIDE DEF g, e
        <5> QED BY <1>2, <5>2, FrameOwesTyped
      <4>4. PICK e \in Entry, s \in Seq(Entry) : rem = (<<e>> \o s) \o r
        BY <4>1, <4>2, <4>3 DEF OwesThen
      <4>5. Len(rem) = (1 + Len(s)) + Len(r)
        BY <4>4
      <4> QED BY <4>5
    <3>2. CASE AtChild /\ NextChild \in world.gone \ Excluded
      <4>1. PICK r \in Seq(Entry) : NextOwes(rem, r)
        BY <1>2, <3>2, ChildRemains
      <4>2. rem = <<LostEntry(NextChild)>> \o r
        BY <3>2, <4>1 DEF NextOwes, ChildPlan
      <4>3. Len(rem) = 1 + Len(r)
        BY <4>2
      <4> QED BY <4>3
    <3> QED BY <1>3, <3>1, <3>2 DEF Cancelled
  <2>2. Settling' = Settling /\ ~Sending
    BY <1>3, <1>2 DEF Cancelled, Settling, Sending, slotVars, AtChild
  <2>3. ~emitErr' => OnPlan(rem)'
    <3>1. SUFFICES ASSUME ~emitErr' PROVE OnPlan(rem)'
      OBVIOUS
    <3>2. OnPlan(rem) /\ Sending' = Sending
      BY <1>2, <2>2, <3>1 DEF Remains, Sending
    <3> QED BY <1>2, <2>2, <3>2, PlanSame
  <2> QED BY <1>1, <2>1, <2>3 DEF Remains
<1>4. CASE SubmitCancelled
  <2>1. wpc = "submit" /\ wg' = WgDone(cur) /\ Sending /\ cur \in Cell
    BY <1>4 DEF SubmitCancelled, Sending, IInv, Holding
  <2>2. PICK x \in Entry : x = Settling[cur]
    BY <2>1, SettlingTyped
  <2>3. \A d \in Cell : d # cur => Settling'[d] = Settling[d]
    <3>1. wg \in [Cell -> Nat] /\ entry' = entry /\ wg' = [wg EXCEPT ![cur] = @ - 1]
      BY <1>1, <2>1 DEF WgDone, IInv, TypeOK
    <3>2. \A d \in Cell : d # cur => wg'[d] = wg[d]
      BY <3>1
    <3> QED BY <1>2, <3>1, <3>2 DEF Settling
  <2>4. PICK r \in Seq(Entry) : r = <<x>> \o rem
    <3>1. <<x>> \in Seq(Entry)
      OBVIOUS
    <3> QED BY <3>1, ConcatProperties
  <2>5. ~emitErr' => OnPlan(r)'
    <3>1. SUFFICES ASSUME ~emitErr' PROVE OnPlan(r)'
      OBVIOUS
    <3>2. OnPlan(rem)
      BY <1>2, <3>1 DEF Remains
    <3>3. OnPlan(<<x>> \o rem)'
      BY <1>2, <2>1, <2>2, <2>3, <3>2, PlanDrops
    <3> QED BY <2>4, <3>3
  <2>6. r # <<>>
    <3>1. Len(r) = 1 + Len(rem)
      BY <2>4
    <3> QED BY <3>1
  <2> QED BY <1>1, <2>5, <2>6 DEF Remains
<1> QED BY <1>3, <1>4

\* The steps after which the calls owe what they did.
LEMMA RemainsQuiet ==
    ASSUME IInv, NEW rem \in Seq(Entry), Remains(rem),
           world' = world, stack' = stack, walkErr' = walkErr, cancelled => cancelled',
           \A c \in Cell : entry'[c].dev = entry[c].dev,
           free' = free \/ \E c \in Cell : free' = Append(free, c),
           ~emitErr' => OnPlan(rem)'
    PROVE  Remains(rem)'
<1>1. Enough(rem) => Enough(rem)'
  BY EnoughSame
<1> QED BY <1>1 DEF Remains

LEMMA RemainsRest ==
    ASSUME IInv, NEW rem \in Seq(Entry), Remains(rem),
           \/ Commit \/ StopHasher \/ CloseRing
           \/ \E w \in Worker : Submit(w) \/ Hasher(w)
           \/ Consumer \/ Interrupt \/ Returned \/ UNCHANGED vars
    PROVE  Remains(rem)'
<1> USE DEF ringVars, slotVars, walkerVars, workerVars, consumerVars
<1>0. /\ entry \in [Cell -> Entry] /\ wg \in [Cell -> Nat] /\ world \in Answers
      /\ (~emitErr => OnPlan(rem))
  BY DEF IInv, TypeOK, Remains
<1>1. CASE Commit
  <2>1. ~emitErr' => OnPlan(rem)'
    BY <1>0, <1>1, PlanCommits DEF Commit
  <2>2. world' = world /\ stack' = stack /\ walkErr' = walkErr /\ cancelled' = cancelled /\ entry' = entry /\ free' = free
    BY <1>1 DEF Commit
  <2> QED BY <2>1, <2>2, RemainsQuiet
<1>2. CASE Receive
  <2>1. ~emitErr' => OnPlan(rem)'
    BY <1>0, <1>2, PlanReceives DEF Receive
  <2>2. world' = world /\ stack' = stack /\ walkErr' = walkErr /\ cancelled' = cancelled /\ entry' = entry /\ free' = free
    BY <1>2 DEF Receive
  <2> QED BY <2>1, <2>2, RemainsQuiet
<1>3. ASSUME NEW fails \in BOOLEAN, Emit(fails) PROVE Remains(rem)'
  <2>1. ~emitErr' => ~emitErr
    BY <1>3 DEF Emit
  <2>2. ~emitErr' => OnPlan(rem)'
    BY <1>0, <1>3, <2>1, PlanEmits
  <2>3. world' = world /\ stack' = stack /\ walkErr' = walkErr /\ entry' = entry /\ free' = free
    BY <1>3 DEF Emit
  <2>4. cancelled => cancelled'
    BY <1>3 DEF Emit
  <2> QED BY <2>2, <2>3, <2>4, RemainsQuiet
<1>4. ASSUME NEW w \in Worker, Hash(w) PROVE Remains(rem)'
  <2>1. /\ job[w] \in Cell /\ wg[job[w]] = 1 /\ entry' = [entry EXCEPT ![job[w]] = HashEntry(world, @)]
        /\ wg' = [wg EXCEPT ![job[w]] = @ - 1] /\ world' = world
    BY <1>4 DEF Hash, WgDone, IInv, WaitGroups
  <2>2. Settling' = Settling
    <3>1. ASSUME NEW c \in Cell
          PROVE  (IF wg'[c] = 0 THEN entry'[c] ELSE HashEntry(world, entry'[c])) =
                 (IF wg[c] = 0 THEN entry[c] ELSE HashEntry(world, entry[c]))
      <4>1. CASE c = job[w]
        BY <1>0, <2>1, <4>1
      <4>2. CASE c # job[w]
        BY <1>0, <2>1, <4>2
      <4> QED BY <4>1, <4>2
    <3> QED BY <2>1, <3>1 DEF Settling
  <2>3. UNCHANGED <<cancelled, ringVars, walkerVars, consumerVars>>
    BY <1>4 DEF Hash
  <2>4. ~emitErr' => OnPlan(rem)'
    <3>1. SUFFICES ASSUME ~emitErr' PROVE OnPlan(rem)'
      OBVIOUS
    <3>2. Handing' = Handing /\ Sending' = Sending
      BY <2>3 DEF Handing, Sending
    <3> QED BY <1>0, <2>1, <2>2, <2>3, <3>1, <3>2, PlanSame
  <2>5. \A c \in Cell : entry'[c].dev = entry[c].dev
    <3>1. \A e \in Entry : HashEntry(world, e).dev = e.dev
      BY DEF HashEntry, Entry
    <3> QED BY <1>0, <2>1, <3>1
  <2> QED BY <2>1, <2>3, <2>4, <2>5, RemainsQuiet
<1>5. CASE \/ StopHasher \/ CloseRing \/ AwaitHash \/ Release \/ Return \/ Interrupt \/ Returned \/ UNCHANGED vars
           \/ \E w \in Worker : Submit(w) \/ Exit(w)
  <2>1. /\ world' = world /\ stack' = stack /\ walkErr' = walkErr /\ entry' = entry /\ wg' = wg
        /\ emitted' = emitted /\ ordered' = ordered /\ cur' = cur /\ emitErr' = emitErr
    BY <1>5 DEF StopHasher, CloseRing, AwaitHash, Release, Return, Interrupt, Returned, vars, Submit, Exit
  <2>2. cancelled => cancelled'
    BY <1>5 DEF StopHasher, CloseRing, AwaitHash, Release, Return, Interrupt, Returned, vars, Submit, Exit
  <2>3. free' = free \/ \E c \in Cell : free' = Append(free, c)
    BY <1>5 DEF StopHasher, CloseRing, AwaitHash, Release, Return, Interrupt, Returned, vars, Submit, Exit,
                IInv, Holding
  <2>4. Settling' = Settling
    BY <2>1 DEF Settling
  <2>5. /\ Sending' = Sending /\ Handing' = Handing
        /\ Handing => taken' = taken
    BY <1>5 DEF StopHasher, CloseRing, AwaitHash, Release, Return, Interrupt, Returned, vars, Submit, Exit,
                Sending, Handing
  <2>6. ~emitErr' => OnPlan(rem)'
    <3>1. SUFFICES ASSUME ~emitErr' PROVE OnPlan(rem)'
      OBVIOUS
    <3> QED BY <1>0, <2>1, <2>4, <2>5, <3>1, PlanSame
  <2> QED BY <2>1, <2>2, <2>3, <2>6, RemainsQuiet
<1> QED BY <1>1, <1>2, <1>3, <1>4, <1>5 DEF Hasher, Consumer

LEMMA PlanInvStep ==
    ASSUME IInv, PlanInv, DevicesSettled, SharesStop => ShareInv /\ ShareInv', [Next]_vars
    PROVE  PlanInv'
<1>1. PICK rem \in Seq(Entry) : Remains(rem)
  BY DEF PlanInv
<1>2. Calls /\ Calls' /\ IInv'
  BY CallsStep, IInvStep DEF PlanInv
<1>3. \E r \in Seq(Entry) : Remains(r)'
  <2>1. CASE Visit \/ SkipExcluded \/ VisitChild \/ Leave
    BY <1>1, <1>2, <2>1, RemainsWalk
  <2>2. CASE Acquire \/ EmitError
    BY <1>1, <1>2, <2>2, RemainsFills
  <2>3. CASE Cancelled \/ SubmitCancelled
    BY <1>1, <1>2, <2>3, RemainsCut
  <2>4. CASE \/ Commit \/ StopHasher \/ CloseRing
             \/ \E w \in Worker : Submit(w) \/ Hasher(w)
             \/ Consumer \/ Interrupt \/ Returned \/ UNCHANGED vars
    BY <1>1, <2>4, RemainsRest
  <2> QED BY <2>1, <2>2, <2>3, <2>4 DEF Next, Walker
<1> QED BY <1>2, <1>3 DEF PlanInv

\* What was emitted, what is in the cells and what the calls owe is the plan: on every
\* tree and every interleaving, as long as no answer of mayDescend depends on a device
\* that a later entry may have overwritten.  A walk that stops at shares is one of these
\* with a ring of any size, if no share is mounted twice.
THEOREM ScanPlanInvariant == ASSUME DevicesSettled PROVE Spec => []PlanInv
<1>1. Init => PlanInv
  BY PlanInvInit
<1> DEFINE Stops == SharesStop => ShareInv
<1>2. IInv /\ Stops /\ Stops' /\ PlanInv /\ [Next]_vars => PlanInv'
  BY PlanInvStep DEF SharesStop
<1>3. Spec => []Stops
  <2>1. CASE SharesMountedOnce
    <3>1. (Mounts = "local" /\ Dev[Root] \in LocalDev => ShareInv) => Stops
      BY DEF SharesStop
    <3> QED BY <2>1, <3>1, ShareInvariant, PTL
  <2>2. CASE ~SharesMountedOnce
    <3>1. Stops
      BY <2>2 DEF SharesStop
    <3> QED BY <3>1, PTL
  <2> QED BY <2>1, <2>2
<1> HIDE DEF Stops
<1> QED BY <1>1, <1>2, <1>3, IInvInvariant, PTL DEF Spec

\* The end: a nil result when nothing is missing, and only then.
LEMMA ReturnMaps ==
    ASSUME IInv, PlanInv, Return
    PROVE  Abstract!ReturnEmitError \/ Abstract!ReturnCancelled \/ Abstract!ReturnComplete
<1>1. PICK rem \in Seq(Entry) : Remains(rem)
  BY DEF PlanInv
<1>2. /\ closed /\ ordered = <<>> /\ cpc = "receive" /\ result = "none" /\ wpc = "done"
      /\ result' = Outcome /\ UNCHANGED <<world, cancelled, emitErr, emitted>>
  BY DEF Return, IInv, Ending
<1>3. CASE emitErr
  BY <1>2, <1>3 DEF Abstract!ReturnEmitError, Outcome
<1>4. CASE ~emitErr
  <2>1. world \in World /\ stack = <<>>
    BY <1>2 DEF PlanInv, Calls, Stopping
  <2>2. Plan[world] \in Seq(Entry) /\ emitted \in Seq(Entry) /\ Len(emitted) \in Nat /\ Len(rem) \in Nat
    BY <2>1, PlanOfWorld DEF IInv, TypeOK
  <2>3. OnPlan(rem)
    BY <1>1, <1>4 DEF Remains
  <2>4. Behind = Len(emitted)
    BY <1>2, <2>2 DEF Behind, Ahead, Handing, Sending
  <2>5. Len(Plan[world]) = Len(emitted) + Len(rem) /\ \A i \in 1 .. Len(emitted) : Plan[world][i] = emitted[i]
    BY <2>3, <2>4 DEF OnPlan
  <2>6. CASE walkErr = "none"
    <3>1. Owes(world, <<>>, rem)
      BY <1>1, <2>1, <2>6 DEF Remains
    <3>2. rem = <<>>
      BY <3>1, OwesNothing
    <3>3. emitted = Plan[world]
      <4>1. Len(Plan[world]) = Len(emitted)
        BY <2>2, <2>5, <3>2
      <4> QED BY <2>2, <2>5, <4>1, SeqEqual
    <3> QED BY <1>2, <1>4, <2>6, <3>3 DEF Abstract!ReturnComplete, Outcome
  <2>7. CASE walkErr # "none"
    <3>1. rem # <<>> /\ cancelled
      BY <1>1, <2>7 DEF Remains
    <3>2. Len(rem) # 0
      BY <3>1
    <3>3. Len(emitted) < Len(Plan[world])
      BY <2>2, <2>5, <3>2
    <3>4. walkErr = "cancelled"
      BY <2>7 DEF IInv, TypeOK
    <3> QED BY <1>2, <1>4, <3>1, <3>3, <3>4 DEF Abstract!ReturnCancelled, Outcome
  <2> QED BY <2>6, <2>7
<1> QED BY <1>3, <1>4

LEMMA StepMaps ==
    ASSUME IInv, PlanInv, [Next]_vars
    PROVE  [Abstract!Next]_Abstract!absVars
<1>1. ASSUME NEW fails \in BOOLEAN, Emit(fails) PROVE [Abstract!Next]_Abstract!absVars
  <2>1. world' = world /\ result' = result /\ result = "none"
    BY <1>1 DEF Emit, IInv, Ending
  <2>2. CASE emitErr
    BY <1>1, <2>1, <2>2 DEF Emit, Abstract!absVars
  <2>3. CASE ~emitErr
    <3>1. PICK rem \in Seq(Entry) : OnPlan(rem)
      BY <2>3 DEF PlanInv, Remains
    <3>2. Len(emitted) < Len(Plan[world]) /\ emitted' = Append(emitted, Plan[world][Len(emitted) + 1])
      BY <1>1, <2>3, <3>1, PlanEmits
    <3>3. \/ emitErr' = emitErr /\ cancelled' = cancelled
          \/ emitErr' = TRUE /\ cancelled' = TRUE
      BY <1>1, <2>3 DEF Emit, IInv, TypeOK
    <3>4. Abstract!EmitNext
      BY <2>1, <2>3, <3>2, <3>3 DEF Abstract!EmitNext
    <3> QED BY <3>4 DEF Abstract!Next
  <2> QED BY <2>2, <2>3
<1>2. CASE Interrupt
  <2>1. Abstract!Cancel
    BY <1>2 DEF Interrupt, Abstract!Cancel, IInv, Ending, consumerVars
  <2> QED BY <2>1 DEF Abstract!Next
<1>3. CASE Return
  BY <1>3, ReturnMaps DEF Abstract!Next
<1>4. CASE \/ Walker \/ \E w \in Worker : Hasher(w)
           \/ Receive \/ AwaitHash \/ Release \/ Returned \/ UNCHANGED vars
  <2>1. UNCHANGED <<world, cancelled, emitErr, emitted, result>>
    <3>1. CASE Walker
      BY <3>1 DEF Walker, Visit, Acquire, Commit, SkipExcluded, VisitChild, EmitError, Leave, Cancelled,
                  SubmitCancelled, StopHasher, CloseRing, Submit, consumerVars
    <3>2. CASE \E w \in Worker : Hasher(w)
      BY <3>2 DEF Hasher, Hash, Exit, consumerVars
    <3>3. CASE Receive \/ AwaitHash \/ Release \/ Returned \/ UNCHANGED vars
      BY <3>3 DEF Receive, AwaitHash, Release, Returned, vars, consumerVars
    <3> QED BY <1>4, <3>1, <3>2, <3>3
  <2> QED BY <2>1 DEF Abstract!absVars
<1> QED BY <1>1, <1>2, <1>3, <1>4 DEF Next, Consumer

\* Scan implements OrderedScan: whatever the interleaving of the goroutines, emit sees
\* the depth-first walk of the tree, each entry once, in its order and with the outcome
\* of its hash; nil means all of it, and a cancelled walk that something is missing.
THEOREM ScanImplementsOrderedScan == ASSUME DevicesSettled PROVE Spec => ImplementsOrderedScan
<1>1. Init => Abstract!Init
  BY PlanOfWorld DEF Init, Abstract!Init
<1>2. IInv /\ PlanInv /\ [Next]_vars => [Abstract!Next]_Abstract!absVars
  BY StepMaps
<1> QED BY <1>1, <1>2, IInvInvariant, ScanPlanInvariant, PTL DEF Spec, ImplementsOrderedScan, Abstract!Spec

\* --mounts=local "stops at pseudo and network ones": from a local filesystem, on every
\* tree in which no share is mounted twice and with a ring of any size, nothing the walk
\* emits lies under a directory of a share, although the device of a directory may be
\* read from the cell of another entry.
THEOREM ScanSharesAreNotEntered == ASSUME SharesMountedOnce PROVE Spec => []SharesAreNotEntered
<1>1. (Mounts = "local" /\ Dev[Root] \in LocalDev => ShareInv) => SharesAreNotEntered
  BY DEF ShareInv, UnderLocal, SharesAreNotEntered
<1> QED BY <1>1, ShareInvariant, PTL
=============================================================================
