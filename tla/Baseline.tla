------------------------------ MODULE Baseline ------------------------------
(***************************************************************************)
(* cmd/osfp, baseline.go: one run of osfp baseline, from the check of the  *)
(* target to the exit code, with the signal that may interrupt it.         *)
(*                                                                         *)
(* The exclusion set is Exclude, the file is what Writer makes of the      *)
(* entries, and the walk is what OrderedScan says of one: the tree's paths *)
(* in depth-first order, cut only if the context ends before the last.     *)
(* The commit is one step; its inside is AtomicFile.                       *)
(***************************************************************************)
EXTENDS Exclude, FiniteSets

CONSTANTS
    Trees,      \* the sets of paths the filesystem may hold
    Roots,      \* --root, as it is given and what it is really the path of
    Targets,    \* -o, made absolute, and what it is really the path of
    Listed,     \* the lists of patterns: the defaults and --exclude
    Binary,     \* the path of osfp itself
    TmpSuffix,
    Character,   \* the characters of UTF-8, as their bytes
    Replacement, \* the one that stands for what is not UTF-8
    BlockSize, MetaLength   \* as in Writer

ASSUME BaselineAssumption ==
    /\ Binary \in Paths /\ TmpSuffix \in Paths
    /\ Roots \subseteq [given: Paths, real: Paths]
    /\ Targets \subseteq [given: Paths, real: Paths]
    /\ Listed \subseteq Seq(Paths)
    /\ Character \subseteq Paths \ {<<>>} /\ Replacement \in Character
    /\ \A c, d \in Character : Prefix(c, d) => c = d
    /\ \A paths \in Trees :
          /\ IsFiniteSet(paths)
          /\ \A p \in paths : p \in Paths /\ Clean(p) = p
          /\ \A r \in Roots : r.real \in paths

VARIABLES
    tree, root, target, listed, force,   \* the run's arguments and the machine's state
    intended,    \* what it should record of it, see Intended
    phase,       \* where runBaseline is
    cancelled,   \* ctx.Done() is closed
    fault,       \* a system call has failed, or an argument was not well-formed
    out,         \* what there is under the final name: "none", "earlier" or "new"
    tmp,         \* there is a temporary file
    set,         \* the compiled exclusions
    plan,        \* the paths the walk has to emit
    fed,         \* how many it has
    exit

VARIABLES wphase, file, off, block, prev, lastKey, index, entries, errors, added

W == INSTANCE Writer WITH
        phase <- wphase, Key <- Paths, Value <- {"entry"}, Unreadable <- {}

arguments == <<tree, root, target, listed, force, intended>>
command   == <<phase, cancelled, fault, out, tmp, set, plan, fed, exit>>
written   == <<wphase, file, off, block, prev, lastKey, index, entries, errors, added>>
vars      == <<arguments, command, written>>

-----------------------------------------------------------------------------
(* What a walk emits.                                                      *)

\* atomicFile.Paths, as the command names them and as they are.
Own(t) == <<t, t \o TmpSuffix>>

\* The path the walk makes of a real one: filepath.Join of the root and the names.
PathAs(r, p) == Clean(r.given \o <<Slash>> \o SubSeq(p, Len(r.real) + 1, Len(p)))

\* visit: a path is emitted when neither it nor a directory between the root and it is
\* excluded.  The root is not asked about.
Walked(s, r, paths) ==
    {p \in paths :
        \/ p = r.real
        \/ /\ Below(p, r.real)
           /\ \A q \in paths : (q = p \/ Below(p, q)) /\ Below(q, r.real)
                                  => ~Match(s, PathAs(r, q))}

\* The children of a directory are visited in the order of their names, after it.
\* Mutant: in the order of their bytes, a directory's content with them.
WalkOrderBytes(s, r, paths) ==
    LET met   == Walked(s, r, paths)
        order == Sorted(met, {pq \in met \X met : NameBelow(pq[1], pq[2])})
    IN  [i \in 1 .. Len(order) |-> PathAs(r, order[i])]
WalkOrder(s, r, paths) ==
    LET met   == Walked(s, r, paths)
        order == Sorted(met, {pq \in met \X met : NamesLess(pq[1], pq[2])})
    IN  [i \in 1 .. Len(order) |-> PathAs(r, order[i])]

\* The files of the run are there when the walk comes by.
Present == tree \cup (IF tmp THEN {target.real \o TmpSuffix} ELSE {})
                \cup (IF out = "none" THEN {} ELSE {target.real})

\* exclude.SelfPaths and file.Paths.
AutoPatterns == <<Binary>> \o Own(target.given)

\* Everything the perimeter covers, and nothing the run itself has put there.
Intended ==
    WalkOrder(New(root.given, listed, AutoPatterns), root, tree \ ToSet(Own(target.real)))

Init ==
    /\ tree \in Trees /\ root \in Roots /\ target \in Targets /\ listed \in Listed
    /\ force \in BOOLEAN
    /\ intended = Intended
    /\ phase = "start" /\ cancelled = FALSE /\ fault = FALSE
    /\ out \in {"none", "earlier"} /\ tmp = FALSE
    /\ set = <<>> /\ plan = <<>> /\ fed = 0
    /\ exit = "running"
    /\ W!Init

\* runBaseline returns: the deferred Abort removes a file that is not committed.
\* Mutant: there is no Abort.
ReturnOnly(code) ==
    /\ exit' = code
    /\ phase' = "over"
    /\ UNCHANGED tmp
Return(code) ==
    /\ exit' = code
    /\ phase' = "over"
    /\ tmp' = FALSE

\* The privileges, the system's name, or os.Stat of the target without --force.
Refuse ==
    /\ phase = "start"
    /\ phase' = "refused"
    /\ exit' = "error" \/ exit' = "privilege"
    /\ UNCHANGED <<arguments, cancelled, fault, out, tmp, set, plan, fed, written>>

\* createAtomic, unless there is a file already and no --force.
Create ==
    /\ phase = "start"
    /\ force \/ out = "none"
    /\ phase' = "created"
    /\ tmp' = TRUE
    /\ UNCHANGED <<arguments, cancelled, fault, out, set, plan, fed, exit, written>>

\* It cannot open the temporary file, or the list of --exclude-from cannot be read, or
\* the header cannot be written.
CreateFails ==
    /\ phase = "created"
    /\ fault' = TRUE
    /\ Return("error")
    /\ UNCHANGED <<arguments, cancelled, out, set, plan, fed, written>>

\* The exclusion set is built last, from the files of the run among others.
Compile ==
    /\ phase = "created"
    /\ LET s == New(root.given, listed, AutoPatterns)
       IN  /\ set' = s
           /\ IF s.ok
              THEN /\ phase' = "walking"
                   /\ plan' = WalkOrder(s, root, Present)
                   /\ UNCHANGED <<fault, tmp, exit>>
              ELSE fault' = TRUE /\ Return("error") /\ UNCHANGED plan
    /\ UNCHANGED <<arguments, cancelled, out, fed, written>>

\* The walk ends with an error; the context decides what is made of it.
WalkCode == IF cancelled THEN "interrupted" ELSE "error"

\* emit: Writer.Add of the next entry.
Emit ==
    /\ phase = "walking"
    /\ fed < Len(plan)
    /\ fed' = fed + 1
    /\ LET e == [path |-> plan[fed + 1], value |-> "entry"]
       IN  \/ /\ W!Add(e)
              /\ wphase' = "writing"
              /\ UNCHANGED <<phase, fault, tmp, exit>>
           \/ /\ W!Add(e)
              /\ wphase' = "broken"
              /\ fault' = TRUE
              /\ Return(WalkCode)
           \/ /\ W!Refuses(e)
              /\ Return(WalkCode)
              /\ UNCHANGED <<fault, written>>
    /\ UNCHANGED <<arguments, cancelled, out, set, plan>>

\* Walk returns before its last entry: the context has ended, or the root is gone.
WalkCut ==
    /\ phase = "walking"
    /\ \/ cancelled /\ fed < Len(plan) /\ UNCHANGED fault
       \/ fed = 0 /\ fault' = TRUE
    /\ Return(WalkCode)
    /\ UNCHANGED <<arguments, cancelled, out, set, plan, fed, written>>

\* Walk returns nil, and Writer.Close.
CloseWriter ==
    /\ phase = "walking"
    /\ fed = Len(plan)
    /\ W!Close
    /\ IF wphase' = "sealed" THEN phase' = "committing" /\ UNCHANGED <<fault, tmp, exit>>
       ELSE fault' = TRUE /\ Return("error")
    /\ UNCHANGED <<arguments, cancelled, out, set, plan, fed>>

\* Commit, whose error may come before or after the rename.
Commit ==
    /\ phase = "committing"
    /\ \/ out' = "new" /\ Return("ok") /\ UNCHANGED fault
       \/ out' \in {out, "new"} /\ fault' = TRUE /\ Return("error")
    /\ UNCHANGED <<arguments, cancelled, set, plan, fed, written>>

\* SIGINT or SIGTERM.
Interrupt ==
    /\ exit = "running"
    /\ cancelled' = TRUE
    /\ UNCHANGED <<arguments, phase, fault, out, tmp, set, plan, fed, exit, written>>

Over ==
    /\ exit # "running"
    /\ UNCHANGED vars

Next ==
    \/ Refuse \/ Create \/ CreateFails \/ Compile
    \/ Emit \/ WalkCut \/ CloseWriter \/ Commit
    \/ Interrupt \/ Over

Spec == Init /\ [][Next]_vars

-----------------------------------------------------------------------------
\* Those of some paths that are under the root.
Reached(paths) == {p \in paths : Below(p, root.real)}

TypeOK ==
    /\ phase \in {"start", "refused", "created", "walking", "committing", "over"}
    /\ out \in {"none", "earlier", "new"}
    /\ exit \in {"running", "ok", "error", "privilege", "interrupted"}
    /\ exit = "running" <=> phase \notin {"refused", "over"}
    /\ tmp <=> phase \in {"created", "walking", "committing"}
    /\ cancelled \in BOOLEAN /\ fault \in BOOLEAN
    /\ fed \in 0 .. Len(plan)
    /\ entries = Len(added) /\ entries \in {fed, fed - 1}

Recorded == [i \in 1 .. Len(added) |-> added[i].path]

\* What is under the final name, as the reader of the promise sees it.
There == CASE out = "none"    -> <<>>
           [] out = "earlier" -> <<<<0>>>>
           [] out = "new"     -> IF wphase = "sealed" THEN Recorded ELSE <<<<>>>>

Promise == INSTANCE Fingerprint WITH
                None <- <<>>, Earlier <- <<<<0>>>>, Scans <- Seq(Paths),
                scan <- intended, there <- There,
                begun <- phase \notin {"start", "refused"}, faulty <- fault

\* "Nothing is left behind that could be mistaken for a fingerprint": under the final
\* name there is the earlier file or every path of the perimeter, without the run's own
\* files; an interrupt changes nothing and has a code of its own; an error has a reason
\* outside of the command, and in particular the writer never refuses the order in which
\* the walk emits (runBaseline, main).
ImplementsFingerprint == Promise!Spec

\* What json.Unmarshal makes of a string that json.Marshal wrote: a byte with which no
\* character begins becomes the replacement.
Json(p) ==
    LET read[i \in 1 .. Len(p) + 1] ==
            LET here == {c \in Character : Prefix(c, SubSeq(p, i, Len(p)))}
            IN  IF i > Len(p) THEN <<>>
                ELSE IF here = {} THEN Replacement \o read[i + 1]
                ELSE LET c == CHOOSE c \in here : TRUE IN c \o read[i + Len(c)]
    IN  read[1]

\* The perimeter in the header, as compare reads it: Meta.Scan.Root and Meta.Exclusions.
ReadRoot     == [given |-> Json(Clean(root.given)), real |-> root.real]
ReadPatterns == [i \in 1 .. Len(set.patterns) |-> Json(set.patterns[i])]

\* exclude.New in compare, for a report that it writes to t.
Again(t) == New(ReadRoot.given, ReadPatterns, <<Binary>> \o Own(t.given))

\* "The effective list is recorded in the fingerprint so that a comparison can be run on
\* exactly the same perimeter months later": the recorded patterns, read back from the
\* JSON of the header and compiled again by compare with the report it writes, select the
\* same paths of an unchanged tree, but for those of the report (New, addAuto, Patterns).
PerimeterIsKept ==
    exit = "ok" =>
        \A t \in Targets :
            LET paths == tree \cup {target.real}
                own   == ToSet(Own(t.real) \o Own(target.real))
            IN  /\ Again(t).ok
                /\ {PathAs(ReadRoot, p) : p \in Walked(Again(t), ReadRoot, paths) \ own} =
                      {added[i].path : i \in 1 .. Len(added)} \ {PathAs(root, p) : p \in Reached(own)}

-----------------------------------------------------------------------------
(* The condition of both: plain names.                                     *)

\* A name that is its own path and its own pattern.
Plain(o) == Absolute(o) /\ Clean(o) = o /\ Trim(o) = o /\ ~IsGlob(o)

\* The files a run may put on the machine, and osfp.
OwnFiles == {Binary} \cup UNION {ToSet(Own(t.real)) : t \in Targets}

\* The characters of p begin at the places B, and there is nothing between them.
Divides(B, p) ==
    /\ 1 \in B
    /\ \A i \in B \cap (1 .. Len(p)) :
          \E c \in Character : Prefix(c, SubSeq(p, i, Len(p))) /\ i + Len(c) \in B

\* It is UTF-8.
Text(p) == \E B \in SUBSET (1 .. Len(p) + 1) : Divides(B, p)

\* Roots and outputs are given by the paths they really have, absolute and clean; the
\* files of a run have no byte in their names that makes a pattern of them, none of them
\* is a root, and there is nothing below any of them.  All names that the header may hold
\* are UTF-8.
PlainNames ==
    /\ \A o \in OwnFiles \cup {r.real : r \in Roots} : Text(o)
    /\ \A list \in Listed : \A i \in 1 .. Len(list) : Text(Trim(list[i]))
    /\ \A r \in Roots : r.given = r.real /\ Absolute(r.real)
    /\ \A t \in Targets : t.given = t.real
    /\ \A o \in OwnFiles :
          /\ Plain(o)
          /\ \A r \in Roots : o # r.real
          /\ \A paths \in Trees : \A p \in paths \cup OwnFiles : ~Below(p, o)

-----------------------------------------------------------------------------
(* What comments say, and the code does not do.                            *)

\* "A fingerprint that recorded itself would never compare equal" (Paths): it holds
\* neither the file it is written to nor the one it replaces.
LeavesItselfOut ==
    \A p \in Reached(ToSet(Own(target.real))), i \in 1 .. Len(added) :
        added[i].path # PathAs(root, p)

\* "Walk scans opts.Root and calls emit once per entry, in canonical order": each path of
\* the walk is above the next one in CompareKey's order, which Writer.Add insists on.
WalkIsCanonical == \A i \in 1 .. Len(plan) - 1 : Less(plan[i], plan[i + 1])
=============================================================================
